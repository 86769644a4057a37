------------------------------- MODULE ArmProofs -------------------------------
(***************************************************************************)
(* Theorems about what moves the arms: the servo that tracks a pose, the   *)
(* trackers of joints, and the tasks that use tools and empty bins, for    *)
(* any goals, frames, tools and places.                                    *)
(***************************************************************************)
EXTENDS MCArms, TLAPS

-----------------------------------------------------------------------------
(* The pose tracking servo.                                                *)

\* A halt is published first of all, so that what is counted is preceded by one.
HaltsInv == halts > 0 => sent # "motion"

\* The goal that waits to be accepted is one.
WaitingInv == server.at \in {"goal", "init"} => server.goal # NoGoal

\* As long as no callback runs beside tick(): the goal stays active until the
\* robot has been stopped.
StopInv ==
  ~ overlap =>
    /\ server.at = "idle" \/ worker.at = "idle"
    /\ worker.at # "idle" => IsActive
    /\ worker.at = "idle" /\ ~ IsActive => sent # "motion"
    /\ server.at = "stopped" \/ worker.at = "finish" => sent # "motion"

\* And the frames that are counted and the emergency are those of the goal.
OwnInv ==
  ~ overlap =>
    /\ ~ foreign
    /\ nframes = own
    /\ worker.at = "count" =>
         worker.goal = current
         /\ worker.n \in {0, IF nframes < MinFrames THEN nframes + 1 ELSE nframes}
    /\ worker.at \in {"halt", "finish"} /\ worker.how = "succeeded" => own = MinFrames
    /\ worker.at \in {"halt", "finish"} /\ worker.how = "emergency" => halted
    /\ server.at = "init" => servoStatus \notin Emergencies
    /\ IsActive /\ servoStatus \in Emergencies => halted

TrackingInv == TrackingTypeOK /\ HaltsInv /\ WaitingInv /\ StopInv /\ OwnInv

LEMMA TrackingInitInv == TrackingInit => TrackingInv
<1>. SUFFICES ASSUME TrackingInit PROVE TrackingInv
  OBVIOUS
<1>. USE TrackingAssumption, ServoAssumption
     DEF TrackingInit, ServerInit, NothingTracked, ServoInit, Resting, Emergencies
<1>1. ServerTypeOK
  <2>1. status \in [Goals -> {"none", "pending", "active", "succeeded", "aborted", "preempted"}]
    OBVIOUS
  <2>2. server \in [at : {"idle", "preempt", "stopped", "goal", "accepted", "init"},
                   goal : Goals \cup {NoGoal}]
    OBVIOUS
  <2>. QED
    BY <2>1, <2>2 DEF ServerTypeOK
<1>2. TrackingTypeOK
  <2>1. ServoTypeOK
    BY DEF ServoTypeOK, Codes, Scales
  <2>2. worker \in [at : {"idle", "begin", "look", "target", "count", "check", "command",
                         "halt", "finish", "crashed"},
                   how : {"succeeded", "emergency", "timeout"},
                   n : 0 .. MinFrames,
                   goal : Goals \cup {NoGoal}]
    OBVIOUS
  <2>. QED
    BY <1>1, <2>1, <2>2 DEF TrackingTypeOK
<1>3. HaltsInv /\ WaitingInv /\ StopInv /\ OwnInv
  BY DEF HaltsInv, WaitingInv, StopInv, OwnInv, IsActive
<1>. QED
  BY <1>2, <1>3 DEF TrackingInv

\* The callbacks of the action server keep the invariant.
LEMMA TrackServerStep ==
  ASSUME TrackingInv, NotesOverlap, TrackRequest \/ TrackServer
  PROVE  TrackingInv'
<1>. USE ServerAssumption, TrackingAssumption, ServoAssumption
     DEF TrackingInv, TrackingTypeOK, ServerTypeOK, ServoTypeOK, HaltsInv, WaitingInv, StopInv, OwnInv,
         IsActive, End, ServerGoes, ServerReturns, Resting, inputVars, history, servoVars
<1>o. overlap' \in BOOLEAN /\ (~ overlap' => ~ overlap /\ (server'.at = "idle" \/ worker'.at = "idle"))
  BY DEF NotesOverlap
<1>1. ASSUME NEW g \in Goals, RequestGoal(g), UNCHANGED <<inputVars, history, servoVars>>
      PROVE  TrackingInv'
  <2>1. TrackingTypeOK'
    BY <1>1, <1>o DEF RequestGoal
  <2>2. HaltsInv' /\ WaitingInv'
    BY <1>1, <1>o DEF RequestGoal
  <2>3. StopInv'
    BY <1>1, <1>o DEF RequestGoal
  <2>4. OwnInv'
    BY <1>1, <1>o DEF RequestGoal
  <2>. QED
    BY <2>1, <2>2, <2>3, <2>4
<1>2. CASE RequestCancel /\ UNCHANGED <<inputVars, history, servoVars>>
  <2>1. TrackingTypeOK'
    BY <1>2, <1>o DEF RequestCancel
  <2>2. HaltsInv' /\ WaitingInv'
    BY <1>2, <1>o DEF RequestCancel
  <2>3. StopInv'
    BY <1>2, <1>o DEF RequestCancel
  <2>4. OwnInv'
    BY <1>2, <1>o DEF RequestCancel
  <2>. QED
    BY <2>1, <2>2, <2>3, <2>4
<1>3. CASE PreemptStop
  <2>1. TrackingTypeOK'
    BY <1>3, <1>o DEF PreemptStop, PublishHalt
  <2>2. HaltsInv' /\ WaitingInv'
    BY <1>3, <1>o DEF PreemptStop, PublishHalt
  <2>3. StopInv'
    BY <1>3, <1>o DEF PreemptStop, PublishHalt
  <2>4. OwnInv'
    BY <1>3, <1>o DEF PreemptStop, PublishHalt
  <2>. QED
    BY <2>1, <2>2, <2>3, <2>4
<1>4. CASE TrackPreempted
  <2>1. TrackingTypeOK'
    <3>1. server' \in [at : {"idle", "goal"}, goal : Goals \cup {NoGoal}]
      BY <1>4 DEF TrackPreempted, SetPreempted
    <3>2. status' \in [Goals -> {"none", "pending", "active", "succeeded", "aborted", "preempted"}]
          /\ UNCHANGED <<current, worker>>
      BY <1>4 DEF TrackPreempted, SetPreempted
    <3>. QED
      BY <1>4, <1>o, <3>1, <3>2 DEF TrackPreempted
  <2>2. HaltsInv' /\ WaitingInv'
    BY <1>4, <1>o DEF TrackPreempted, SetPreempted
  <2>3. StopInv'
    BY <1>4, <1>o DEF TrackPreempted, SetPreempted
  <2>4. OwnInv'
    BY <1>4, <1>o DEF TrackPreempted, SetPreempted
  <2>. QED
    BY <2>1, <2>2, <2>3, <2>4
<1>5. CASE ResetForGoal
  <2>1. TrackingTypeOK'
    BY <1>5, <1>o DEF ResetForGoal, ResetServoStatus, Codes, Emergencies
  <2>2. HaltsInv' /\ WaitingInv'
    BY <1>5, <1>o DEF ResetForGoal, ResetServoStatus, Codes, Emergencies
  <2>3. StopInv'
    BY <1>5, <1>o DEF ResetForGoal, ResetServoStatus, Codes, Emergencies
  <2>4. OwnInv'
    BY <1>5, <1>o DEF ResetForGoal, ResetServoStatus, Codes, Emergencies
  <2>. QED
    BY <2>1, <2>2, <2>3, <2>4
<1>6. CASE AcceptGoal
  <2>1. TrackingTypeOK'
    <3>1. server' \in [at : {"idle", "preempt", "stopped", "goal", "accepted", "init"},
                       goal : Goals \cup {NoGoal}]
      BY <1>6 DEF AcceptGoal, AcceptNewGoal
    <3>2. status' \in [Goals -> {"none", "pending", "active", "succeeded", "aborted", "preempted"}]
          /\ current' \in Goals \cup {NoGoal} /\ UNCHANGED worker
      BY <1>6 DEF AcceptGoal, AcceptNewGoal
    <3>3. late' = FALSE /\ halted' = FALSE /\ nframes' = 0 /\ own' = 0
          /\ UNCHANGED <<target, foreign, servoVars>>
      BY <1>6 DEF AcceptGoal
    <3>4. ServerTypeOK'
      BY <1>o, <3>1, <3>2
    <3>5. ServoTypeOK'
      BY <3>3
    <3>6. foreign \in BOOLEAN /\ 0 \in 0 .. MinFrames
      OBVIOUS
    <3>7. {late', halted', foreign'} \subseteq BOOLEAN
      BY <3>3, <3>6
    <3>. QED
      BY <3>2, <3>3, <3>4, <3>5, <3>6, <3>7
  <2>2. HaltsInv' /\ WaitingInv'
    BY <1>6, <1>o DEF AcceptGoal, AcceptNewGoal
  <2>3. StopInv'
    BY <1>6, <1>o DEF AcceptGoal, AcceptNewGoal
  <2>4. OwnInv'
    BY <1>6, <1>o DEF AcceptGoal, AcceptNewGoal
  <2>. QED
    BY <2>1, <2>2, <2>3, <2>4
<1>7. CASE GoalCallbackReturns
  <2>1. TrackingTypeOK'
    BY <1>7, <1>o DEF GoalCallbackReturns
  <2>2. HaltsInv' /\ WaitingInv'
    BY <1>7, <1>o DEF GoalCallbackReturns
  <2>3. StopInv'
    BY <1>7, <1>o DEF GoalCallbackReturns
  <2>4. OwnInv'
    BY <1>7, <1>o DEF GoalCallbackReturns
  <2>. QED
    BY <2>1, <2>2, <2>3, <2>4
<1>. QED
  BY <1>1, <1>2, <1>3, <1>4, <1>5, <1>6, <1>7 DEF TrackRequest, TrackServer

\* A command, or none, is published: the counter of halts says what.
LEMMA PublishingKeeps ==
  ASSUME TrackingInv, UNCHANGED servoVars \/ \E cmd \in Commands : PublishTrajectory(cmd)
  PROVE  ServoTypeOK' /\ HaltsInv'
<1>. USE ServoAssumption DEF TrackingInv, TrackingTypeOK, ServoTypeOK, HaltsInv
<1>1. CASE UNCHANGED servoVars
  BY <1>1 DEF servoVars
<1>2. CASE PublishHalt
  BY <1>2 DEF PublishHalt
<1>3. CASE PublishCommand
  <2>1. \E condition \in Conditions, forward \in Forwards, delta \in {"zero", "motion"} : \E within :
          ConvertDeltas(condition, delta, forward, within)
    <3>1. PICK condition \in Conditions, forward \in Forwards :
            \E within \in MayBeWithinLimits(DeltaAfter(condition)) :
              ConvertDeltas(condition, DeltaAfter(condition), forward, within)
      BY <1>3 DEF PublishCommand, SetTrajectory
    <3>2. DeltaAfter(condition) \in {"zero", "motion"}
      BY DEF DeltaAfter
    <3>. QED
      BY <3>1, <3>2
  <2>2. sent' \in {"motion", "still", "halt"}
    BY <2>1 DEF ConvertDeltas, PointsOf
  <2>3. servoStatus' \in Codes
    BY <2>1 DEF ConvertDeltas, StatusAfterScaling, SingularityStatus, Codes, Emergencies
  <2>. QED
    BY <1>3, <2>2, <2>3 DEF PublishCommand
<1>. QED
  BY <1>1, <1>2, <1>3 DEF PublishTrajectory

\* tick() keeps the invariant.
LEMMA TickStep ==
  ASSUME TrackingInv, NotesOverlap, Tick
  PROVE  TrackingInv'
<1>. USE ServerAssumption, TrackingAssumption, ServoAssumption
     DEF TrackingInv, TrackingTypeOK, ServerTypeOK, ServoTypeOK, HaltsInv, WaitingInv, StopInv, OwnInv,
         IsActive, End, ServerGoes, ServerReturns, Resting, inputVars, history, servoVars
<1>o. overlap' \in BOOLEAN /\ (~ overlap' => ~ overlap /\ (server'.at = "idle" \/ worker'.at = "idle"))
  BY DEF NotesOverlap
<1>1. CASE TickBegin
  <2>1. TrackingTypeOK'
    BY <1>1, <1>o DEF TickBegin, TickGoes
  <2>2. HaltsInv' /\ WaitingInv'
    BY <1>1, <1>o DEF TickBegin, TickGoes
  <2>3. StopInv'
    BY <1>1, <1>o DEF TickBegin, TickGoes
  <2>4. OwnInv'
    BY <1>1, <1>o DEF TickBegin, TickGoes
  <2>. QED
    BY <2>1, <2>2, <2>3, <2>4
<1>2. CASE CheckStatus
  <2>1. TrackingTypeOK'
    <3>1. worker' \in [at : {"idle", "begin", "look", "target", "count", "check", "command",
                          "halt", "finish", "crashed"},
                    how : {"succeeded", "emergency", "timeout"},
                    n : 0 .. MinFrames,
                    goal : Goals \cup {NoGoal}]
      BY <1>2 DEF CheckStatus, TickGoes, TickEnds
    <3>2. UNCHANGED <<status, current, server, inputVars, history, servoVars>>
      BY <1>2 DEF CheckStatus
    <3>. QED
      BY <1>o, <3>1, <3>2
  <2>2. HaltsInv' /\ WaitingInv'
    BY <1>2, <1>o DEF CheckStatus, TickGoes, TickEnds
  <2>3. StopInv'
    BY <1>2, <1>o DEF CheckStatus, TickGoes, TickEnds
  <2>4. OwnInv'
    BY <1>2, <1>o DEF CheckStatus, TickGoes, TickEnds
  <2>. QED
    BY <2>1, <2>2, <2>3, <2>4
<1>3. CASE LookAtInput
  <2>1. TrackingTypeOK'
    <3>1. worker' \in [at : {"idle", "begin", "look", "target", "count", "check", "command",
                          "halt", "finish", "crashed"},
                    how : {"succeeded", "emergency", "timeout"},
                    n : 0 .. MinFrames,
                    goal : Goals \cup {NoGoal}]
      BY <1>3 DEF LookAtInput, TickGoes, TickEnds
    <3>2. UNCHANGED <<status, current, server, inputVars, history, servoVars>>
      BY <1>3 DEF LookAtInput
    <3>. QED
      BY <1>o, <3>1, <3>2
  <2>2. HaltsInv' /\ WaitingInv'
    BY <1>3, <1>o DEF LookAtInput, TickGoes, TickEnds
  <2>3. StopInv'
    BY <1>3, <1>o DEF LookAtInput, TickGoes, TickEnds
  <2>4. OwnInv'
    BY <1>3, <1>o DEF LookAtInput, TickGoes, TickEnds
  <2>. QED
    BY <2>1, <2>2, <2>3, <2>4
<1>4. CASE ComputeError
  <2>1. TrackingTypeOK'
    <3>1. worker' \in [at : {"idle", "begin", "look", "target", "count", "check", "command",
                          "halt", "finish", "crashed"},
                    how : {"succeeded", "emergency", "timeout"},
                    n : 0 .. MinFrames,
                    goal : Goals \cup {NoGoal}]
      <4>1. CASE target = "none"
        BY <1>4, <4>1 DEF ComputeError, TickGoes
      <4>2. CASE target # "none"
        <5>. DEFINE n(error) == IF error = "beyond" THEN 0 ELSE IF nframes < MinFrames THEN nframes + 1
                                ELSE nframes
        <5>1. PICK error \in PoseErrors :
                worker' = [worker EXCEPT !.at = "count", !.goal = current, !.n = n(error)]
          BY <1>4, <4>2 DEF ComputeError
        <5>2. n(error) \in 0 .. MinFrames
          OBVIOUS
        <5>. HIDE DEF n
        <5>. QED
          BY <5>1, <5>2
      <4>. QED
        BY <4>1, <4>2
    <3>2. UNCHANGED <<status, current, server, inputVars, history, servoVars>>
      BY <1>4 DEF ComputeError
    <3>. QED
      BY <1>o, <3>1, <3>2
  <2>2. HaltsInv' /\ WaitingInv'
    BY <1>4, <1>o DEF ComputeError, TickGoes, PoseErrors
  <2>3. StopInv'
    BY <1>4, <1>o DEF ComputeError, TickGoes, PoseErrors
  <2>4. OwnInv'
    BY <1>4, <1>o DEF ComputeError, TickGoes, PoseErrors
  <2>. QED
    BY <2>1, <2>2, <2>3, <2>4
<1>5. CASE CountFrame
  <2>1. TrackingTypeOK'
    BY <1>5, <1>o DEF CountFrame
  <2>2. HaltsInv' /\ WaitingInv'
    BY <1>5, <1>o DEF CountFrame
  <2>3. StopInv'
    BY <1>5, <1>o DEF CountFrame
  <2>4. OwnInv'
    BY <1>5, <1>o DEF CountFrame
  <2>. QED
    BY <2>1, <2>2, <2>3, <2>4
<1>6. CASE CheckFrames
  <2>1. TrackingTypeOK'
    <3>1. worker' \in [at : {"idle", "begin", "look", "target", "count", "check", "command",
                          "halt", "finish", "crashed"},
                    how : {"succeeded", "emergency", "timeout"},
                    n : 0 .. MinFrames,
                    goal : Goals \cup {NoGoal}]
      BY <1>6 DEF CheckFrames, TickGoes, TickEnds
    <3>2. UNCHANGED <<status, current, server, inputVars, history, servoVars>>
      BY <1>6 DEF CheckFrames
    <3>. QED
      BY <1>o, <3>1, <3>2
  <2>2. HaltsInv' /\ WaitingInv'
    BY <1>6, <1>o DEF CheckFrames, TickGoes, TickEnds
  <2>3. StopInv'
    BY <1>6, <1>o DEF CheckFrames, TickGoes, TickEnds
  <2>4. OwnInv'
    BY <1>6, <1>o DEF CheckFrames, TickGoes, TickEnds
  <2>. QED
    BY <2>1, <2>2, <2>3, <2>4
<1>7. CASE Command
  <2>s. ServoTypeOK' /\ HaltsInv' /\ halted' \in BOOLEAN
    BY <1>7, PublishingKeeps DEF Command
  <2>1. TrackingTypeOK'
    <3>1. worker' \in {[worker EXCEPT !.at = "crashed"], [worker EXCEPT !.at = "idle"]}
      BY <1>7 DEF Command, TickGoes
    <3>. QED
      BY <1>7, <1>o, <2>s, <3>1 DEF Command
  <2>2. HaltsInv' /\ WaitingInv'
    BY <1>7, <2>s DEF Command
  <2>3. StopInv'
    BY <1>7, <1>o DEF Command, TickGoes
  <2>4. OwnInv'
    BY <1>7, <1>o DEF Command, TickGoes
  <2>. QED
    BY <2>1, <2>2, <2>3, <2>4
<1>8. CASE TickStop
  <2>1. TrackingTypeOK'
    BY <1>8, <1>o DEF TickStop, TickGoes, PublishHalt
  <2>2. HaltsInv' /\ WaitingInv'
    BY <1>8, <1>o DEF TickStop, TickGoes, PublishHalt
  <2>3. StopInv'
    BY <1>8, <1>o DEF TickStop, TickGoes, PublishHalt
  <2>4. OwnInv'
    BY <1>8, <1>o DEF TickStop, TickGoes, PublishHalt
  <2>. QED
    BY <2>1, <2>2, <2>3, <2>4
<1>9. CASE TickFinish
  <2>1. TrackingTypeOK'
    BY <1>9, <1>o DEF TickFinish, SetResult
  <2>2. HaltsInv' /\ WaitingInv'
    BY <1>9, <1>o DEF TickFinish, SetResult
  <2>3. StopInv'
    BY <1>9, <1>o DEF TickFinish, SetResult
  <2>4. OwnInv'
    BY <1>9, <1>o DEF TickFinish, SetResult
  <2>. QED
    BY <2>1, <2>2, <2>3, <2>4
<1>. QED
  BY <1>1, <1>2, <1>3, <1>4, <1>5, <1>6, <1>7, <1>8, <1>9 DEF Tick

\* Topics, services and time keep the invariant.
LEMMA OutsideStep ==
  ASSUME TrackingInv, NotesOverlap, Outside
  PROVE  TrackingInv'
<1>. USE ServerAssumption, TrackingAssumption, ServoAssumption
     DEF TrackingInv, TrackingTypeOK, ServerTypeOK, ServoTypeOK, HaltsInv, WaitingInv, StopInv, OwnInv,
         IsActive, End, ServerGoes, ServerReturns, Resting, inputVars, history, servoVars
<1>o. overlap' \in BOOLEAN /\ (~ overlap' => ~ overlap /\ (server'.at = "idle" \/ worker'.at = "idle"))
  BY DEF NotesOverlap
<1>1. CASE (Input \/ InputAges \/ TimeoutPasses) /\ UNCHANGED <<status, current, server, worker, history>>
  <2>1. TrackingTypeOK'
    <3>1. target' \in {"none", "recent", "old"} /\ late' \in BOOLEAN /\ UNCHANGED <<nframes, servoVars>>
      BY <1>1 DEF Input, InputAges, TimeoutPasses
    <3>. QED
      BY <1>1, <1>o, <3>1
  <2>2. HaltsInv' /\ WaitingInv'
    BY <1>1, <1>o DEF Input, InputAges, TimeoutPasses
  <2>3. StopInv'
    BY <1>1, <1>o DEF Input, InputAges, TimeoutPasses
  <2>4. OwnInv'
    BY <1>1, <1>o DEF Input, InputAges, TimeoutPasses
  <2>. QED
    BY <2>1, <2>2, <2>3, <2>4
<1>2. CASE (CheckCollision \/ ResetServoStatus) /\ UNCHANGED <<inputVars, status, current, server, worker, history>>
  <2>1. TrackingTypeOK'
    BY <1>2, <1>o DEF CheckCollision, ReceiveScale, ScaleFor, ResetServoStatus, Scales, Codes, Emergencies
  <2>2. HaltsInv' /\ WaitingInv'
    BY <1>2, <1>o DEF CheckCollision, ReceiveScale, ScaleFor, ResetServoStatus, Scales, Codes, Emergencies
  <2>3. StopInv'
    BY <1>2, <1>o DEF CheckCollision, ReceiveScale, ScaleFor, ResetServoStatus, Scales, Codes, Emergencies
  <2>4. OwnInv'
    BY <1>2, <1>o DEF CheckCollision, ReceiveScale, ScaleFor, ResetServoStatus, Scales, Codes, Emergencies
  <2>. QED
    BY <2>1, <2>2, <2>3, <2>4
<1>. QED
  BY <1>1, <1>2 DEF Outside

LEMMA TrackingStepInv == TrackingInv /\ [TrackingNext]_trackingVars => TrackingInv'
<1>1. TrackingInv /\ UNCHANGED trackingVars => TrackingInv'
  BY DEF trackingVars, serverVars, inputVars, history, servoVars, TrackingInv, TrackingTypeOK,
         ServerTypeOK, ServoTypeOK, HaltsInv, WaitingInv, StopInv, OwnInv, IsActive
<1>. QED
  BY <1>1, TrackServerStep, TickStep, OutsideStep DEF TrackingNext

\* The invariant of the servo that tracks a pose.
THEOREM TrackingInvariant == TrackingSpec => []TrackingInv
  BY TrackingInitInv, TrackingStepInv, PTL DEF TrackingSpec

\* The variables of the servo keep their types, whatever the bound on halts
\* and the number of frames are.
THEOREM TrackingTypeCorrect == TrackingSpec => []TrackingTypeOK
<1>1. TrackingInv => TrackingTypeOK
  BY DEF TrackingInv
<1>. QED
  BY <1>1, TrackingInvariant, PTL

\* ArmStopsWhenIdle: whatever the bound on consecutive halts is, the last
\* thing published when no goal is left did not move the robot, unless a
\* callback ran beside tick().
THEOREM ArmIsStopped == TrackingSpec => []ArmStopsWhenIdle
<1>1. TrackingInv => ArmStopsWhenIdle
  BY DEF TrackingInv, StopInv, ArmStopsWhenIdle
<1>. QED
  BY <1>1, TrackingInvariant, PTL

\* OutcomeIsOwn: however many frames a goal needs, it succeeds on frames
\* that were counted for it, and is aborted for an emergency of its own,
\* unless a callback ran beside tick().
THEOREM OutcomesAreOwn == TrackingSpec => []OutcomeIsOwn
<1>1. TrackingInv => OutcomeIsOwn
  BY DEF TrackingInv, TrackingTypeOK, ServerTypeOK, OwnInv, OutcomeIsOwn
<1>. QED
  BY <1>1, TrackingInvariant, PTL

-----------------------------------------------------------------------------
(* The trackers of joints.                                                 *)

\* The goal that is being accepted becomes the current one, and has its
\* solvers when that is done or has been given up.
SolversInv ==
  /\ server.at = "goal" => server.goal \in Goals
  /\ server.at \in {"accepted", "init"} => current \in Goals
  /\ IsActive /\ server.at \notin {"accepted", "init"} => pointingFrame = FrameOf[current]

\* A command that is about to be published follows no other since its goal
\* ended; as long as no callback runs beside it, its goal is still active.
StrayInv ==
  /\ stray < 2
  /\ IsActive \/ worker.at = "update" => stray = 0
  /\ ~ overlap =>
       /\ server.at = "idle" \/ worker.at = "idle"
       /\ worker.at = "update" => IsActive
       /\ tracker = "trajectory" =>
            /\ server.at = "stopped" => ordered = "stop"
            /\ current # NoGoal /\ status[current] = "preempted" => ordered = "stop"

JointInv == JointTypeOK /\ SolversInv /\ StrayInv

LEMMA JointInitInv == JointInit => JointInv
<1>. SUFFICES ASSUME JointInit PROVE JointInv
  OBVIOUS
<1>. USE DEF JointInit, ServerInit, NothingPointed
<1>1. ServerTypeOK
  <2>1. status \in [Goals -> {"none", "pending", "active", "succeeded", "aborted", "preempted"}]
    OBVIOUS
  <2>2. server \in [at : {"idle", "preempt", "stopped", "goal", "accepted", "init"},
                   goal : Goals \cup {NoGoal}]
    OBVIOUS
  <2>. QED
    BY <2>1, <2>2 DEF ServerTypeOK
<1>2. JointTypeOK
  <2>1. worker \in [at : {"idle", "active", "update", "abort", "crashed"}, goal : Goals \cup {NoGoal}]
    OBVIOUS
  <2>2. tracker \in {"trajectory", "group"} /\ stray \in 0 .. 2
    OBVIOUS
  <2>3. {pointingFrame, chain} \subseteq Tracked /\ ordered \in Tracked \cup {"stop"}
    BY DEF Tracked
  <2>4. {known, mistaken} \subseteq BOOLEAN
    OBVIOUS
  <2>. QED
    BY <1>1, <2>1, <2>2, <2>3, <2>4 DEF JointTypeOK
<1>3. SolversInv /\ StrayInv
  BY DEF SolversInv, StrayInv, IsActive
<1>. QED
  BY <1>2, <1>3 DEF JointInv

\* The callbacks of the action server keep the invariant.
LEMMA JointServerStep ==
  ASSUME JointInv, NotesOverlap, JointRequest \/ JointServer
  PROVE  JointInv'
<1>. USE ServerAssumption, JointTrackersAssumption
     DEF JointInv, JointTypeOK, ServerTypeOK, SolversInv, StrayInv,
         IsActive, End, ServerGoes, ServerReturns, Tracked, jointVars
<1>o. overlap' \in BOOLEAN /\ (~ overlap' => ~ overlap /\ (server'.at = "idle" \/ worker'.at = "idle"))
  BY DEF NotesOverlap
<1>1. ASSUME NEW g \in Goals, RequestGoal(g), UNCHANGED jointVars
      PROVE  JointInv'
  <2>1. ServerTypeOK'
    BY <1>1, <1>o DEF RequestGoal
  <2>2. JointTypeOK'
    BY <1>1, <1>o, <2>1 DEF RequestGoal
  <2>3. SolversInv'
    BY <1>1, <1>o DEF RequestGoal
  <2>4. StrayInv'
    BY <1>1, <1>o DEF RequestGoal
  <2>. QED
    BY <2>2, <2>3, <2>4
<1>2. CASE RequestCancel /\ UNCHANGED jointVars
  <2>1. ServerTypeOK'
    BY <1>2, <1>o DEF RequestCancel
  <2>2. JointTypeOK'
    BY <1>2, <1>o, <2>1 DEF RequestCancel
  <2>3. SolversInv'
    BY <1>2, <1>o DEF RequestCancel
  <2>4. StrayInv'
    BY <1>2, <1>o DEF RequestCancel
  <2>. QED
    BY <2>2, <2>3, <2>4
<1>3. CASE StopTrajectory
  <2>1. ServerTypeOK'
    BY <1>3, <1>o DEF StopTrajectory
  <2>2. JointTypeOK'
    BY <1>3, <1>o, <2>1 DEF StopTrajectory
  <2>3. SolversInv'
    BY <1>3, <1>o DEF StopTrajectory
  <2>4. StrayInv'
    BY <1>3, <1>o DEF StopTrajectory
  <2>. QED
    BY <2>2, <2>3, <2>4
<1>4. CASE JointPreempted
  <2>1. ServerTypeOK'
    <3>1. server' \in [at : {"idle", "preempt", "stopped", "goal", "accepted", "init"},
                       goal : Goals \cup {NoGoal}]
      BY <1>4 DEF JointPreempted, SetPreempted
    <3>2. status' \in [Goals -> {"none", "pending", "active", "succeeded", "aborted", "preempted"}]
          /\ UNCHANGED current
      BY <1>4 DEF JointPreempted, SetPreempted
    <3>. QED
      BY <1>o, <3>1, <3>2
  <2>2. JointTypeOK'
    BY <1>4, <1>o, <2>1 DEF JointPreempted, SetPreempted
  <2>3. SolversInv'
    BY <1>4, <1>o DEF JointPreempted, SetPreempted
  <2>4. StrayInv'
    BY <1>4, <1>o DEF JointPreempted, SetPreempted
  <2>. QED
    BY <2>2, <2>3, <2>4
<1>5. CASE JointAccept
  <2>1. ServerTypeOK'
    BY <1>5, <1>o DEF JointAccept, AcceptNewGoal
  <2>2. JointTypeOK'
    BY <1>5, <1>o, <2>1 DEF JointAccept, AcceptNewGoal
  <2>3. SolversInv'
    BY <1>5, <1>o DEF JointAccept, AcceptNewGoal
  <2>4. StrayInv'
    BY <1>5, <1>o DEF JointAccept, AcceptNewGoal
  <2>. QED
    BY <2>2, <2>3, <2>4
<1>6. CASE InitChain
  <2>1. ServerTypeOK'
    BY <1>6, <1>o DEF InitChain, InitAborts
  <2>2. JointTypeOK'
    BY <1>6, <1>o, <2>1 DEF InitChain, InitAborts
  <2>3. SolversInv'
    BY <1>6, <1>o DEF InitChain, InitAborts
  <2>4. StrayInv'
    BY <1>6, <1>o DEF InitChain, InitAborts
  <2>. QED
    BY <2>2, <2>3, <2>4
<1>7. CASE InitSolvers
  <2>1. ServerTypeOK'
    BY <1>7, <1>o DEF InitSolvers
  <2>2. JointTypeOK'
    BY <1>7, <1>o, <2>1 DEF InitSolvers
  <2>3. SolversInv'
    BY <1>7, <1>o DEF InitSolvers
  <2>4. StrayInv'
    BY <1>7, <1>o DEF InitSolvers
  <2>. QED
    BY <2>2, <2>3, <2>4
<1>. QED
  BY <1>1, <1>2, <1>3, <1>4, <1>5, <1>6, <1>7 DEF JointRequest, JointServer

\* state_cb keeps the invariant.
LEMMA StateCallbackStep ==
  ASSUME JointInv, NotesOverlap, StateCallback
  PROVE  JointInv'
<1>. USE ServerAssumption, JointTrackersAssumption
     DEF JointInv, JointTypeOK, ServerTypeOK, SolversInv, StrayInv,
         IsActive, End, ServerGoes, ServerReturns, Tracked, jointVars
<1>o. overlap' \in BOOLEAN /\ (~ overlap' => ~ overlap /\ (server'.at = "idle" \/ worker'.at = "idle"))
  BY DEF NotesOverlap
<1>1. CASE ReadState
  <2>1. ServerTypeOK'
    BY <1>1, <1>o DEF ReadState, Undisturbed
  <2>2. JointTypeOK'
    BY <1>1, <1>o, <2>1 DEF ReadState, Undisturbed
  <2>3. SolversInv'
    BY <1>1, <1>o DEF ReadState, Undisturbed
  <2>4. StrayInv'
    BY <1>1, <1>o DEF ReadState, Undisturbed
  <2>. QED
    BY <2>2, <2>3, <2>4
<1>2. CASE LookWhetherActive
  <2>1. ServerTypeOK'
    BY <1>2, <1>o DEF LookWhetherActive
  <2>2. JointTypeOK'
    BY <1>2, <1>o, <2>1 DEF LookWhetherActive
  <2>3. SolversInv'
    BY <1>2, <1>o DEF LookWhetherActive
  <2>4. StrayInv'
    BY <1>2, <1>o DEF LookWhetherActive
  <2>. QED
    BY <2>2, <2>3, <2>4
<1>3. CASE UpdateWithoutSolvers
  <2>1. ServerTypeOK'
    BY <1>3, <1>o DEF UpdateWithoutSolvers
  <2>2. JointTypeOK'
    BY <1>3, <1>o, <2>1 DEF UpdateWithoutSolvers
  <2>3. SolversInv'
    BY <1>3, <1>o DEF UpdateWithoutSolvers
  <2>4. StrayInv'
    BY <1>3, <1>o DEF UpdateWithoutSolvers
  <2>. QED
    BY <2>2, <2>3, <2>4
<1>4. CASE UpdateThrows
  <2>1. ServerTypeOK'
    BY <1>4, <1>o DEF UpdateThrows
  <2>2. JointTypeOK'
    BY <1>4, <1>o, <2>1 DEF UpdateThrows
  <2>3. SolversInv'
    BY <1>4, <1>o DEF UpdateThrows
  <2>4. StrayInv'
    BY <1>4, <1>o DEF UpdateThrows
  <2>. QED
    BY <2>2, <2>3, <2>4
<1>5. CASE UpdateAndPublish
  <2>1. ServerTypeOK'
    BY <1>5, <1>o DEF UpdateAndPublish
  <2>2. JointTypeOK'
    BY <1>5, <1>o, <2>1 DEF UpdateAndPublish
  <2>3. SolversInv'
    BY <1>5, <1>o DEF UpdateAndPublish
  <2>4. StrayInv'
    BY <1>5, <1>o DEF UpdateAndPublish
  <2>. QED
    BY <2>2, <2>3, <2>4
<1>6. CASE AbortTracking
  <2>1. ServerTypeOK'
    BY <1>6, <1>o DEF AbortTracking, SetResult
  <2>2. JointTypeOK'
    BY <1>6, <1>o, <2>1 DEF AbortTracking, SetResult
  <2>3. SolversInv'
    BY <1>6, <1>o DEF AbortTracking, SetResult
  <2>4. StrayInv'
    BY <1>6, <1>o DEF AbortTracking, SetResult
  <2>. QED
    BY <2>2, <2>3, <2>4
<1>7. CASE UpdateOverruns
  <2>1. ServerTypeOK'
    BY <1>7, <1>o DEF UpdateOverruns
  <2>2. JointTypeOK'
    BY <1>7, <1>o, <2>1 DEF UpdateOverruns
  <2>3. SolversInv'
    BY <1>7, <1>o DEF UpdateOverruns
  <2>4. StrayInv'
    BY <1>7, <1>o DEF UpdateOverruns
  <2>. QED
    BY <2>2, <2>3, <2>4
<1>. QED
  BY <1>1, <1>2, <1>3, <1>4, <1>5, <1>6, <1>7 DEF StateCallback

LEMMA JointStepInv == JointInv /\ [JointNext]_<<serverVars, jointVars>> => JointInv'
<1>1. JointInv /\ UNCHANGED <<serverVars, jointVars>> => JointInv'
  BY DEF serverVars, jointVars, JointInv, JointTypeOK, ServerTypeOK, SolversInv, StrayInv, IsActive
<1>. QED
  BY <1>1, JointServerStep, StateCallbackStep DEF JointNext

\* The invariant of the trackers of joints.
THEOREM JointInvariant == JointSpec => []JointInv
  BY JointInitInv, JointStepInv, PTL DEF JointSpec

\* The variables of the trackers keep their types.
THEOREM JointTypeCorrect == JointSpec => []JointTypeOK
<1>1. JointInv => JointTypeOK
  BY DEF JointInv
<1>. QED
  BY <1>1, JointInvariant, PTL

\* ActiveGoalHasSolvers: whatever frames goals name, and however many goals
\* were refused before, an active goal has the solvers for its frame.
THEOREM SolversAreThere == JointSpec => []ActiveGoalHasSolvers
<1>1. JointInv => ActiveGoalHasSolvers
  BY DEF JointInv, SolversInv, ActiveGoalHasSolvers
<1>. QED
  BY <1>1, JointInvariant, PTL

\* OneStragglerAtMost: one command at most follows the end of a goal, and a
\* tracker of trajectories that was cancelled has published the stop last,
\* unless a callback ran beside state_cb.
THEOREM StragglersAreFew == JointSpec => []OneStragglerAtMost
<1>1. JointInv => OneStragglerAtMost
  BY DEF JointInv, StrayInv, OneStragglerAtMost
<1>. QED
  BY <1>1, JointInvariant, PTL

\* Where no goal is refused for its number of joints, that is, by the tracker of
\* groups or if every chain has those of the controller, the chain is that of the
\* solvers or empty once the callback has returned.
SizesAgree == tracker = "group" \/ Mismatched = {}

OwnChainInv ==
  SizesAgree /\ ~ overlap =>
    /\ ~ mistaken
    /\ server.at = "init" => chain = FrameOf[current]
    /\ server.at # "init" => chain \in {pointingFrame, NoFrame}
    /\ worker.at = "update" => worker.goal = current

LEMMA OwnChainStep ==
  ASSUME JointInv, OwnChainInv, [JointNext]_<<serverVars, jointVars>>
  PROVE  OwnChainInv'
<1>. USE ServerAssumption, JointTrackersAssumption DEF jointVars
<1>. SUFFICES ASSUME SizesAgree', ~ overlap'
              PROVE  /\ ~ mistaken'
                     /\ server'.at = "init" => chain' = FrameOf[current']
                     /\ server'.at # "init" => chain' \in {pointingFrame', NoFrame}
                     /\ worker'.at = "update" => worker'.goal = current'
  BY DEF OwnChainInv
<1>1. CASE UNCHANGED <<serverVars, jointVars>>
  BY <1>1 DEF serverVars, OwnChainInv, SizesAgree
<1>. SUFFICES ASSUME JointNext
              PROVE  /\ ~ mistaken'
                     /\ server'.at = "init" => chain' = FrameOf[current']
                     /\ server'.at # "init" => chain' \in {pointingFrame', NoFrame}
                     /\ worker'.at = "update" => worker'.goal = current'
  BY <1>1
<1>2. ~ overlap /\ (server.at = "idle" \/ worker.at = "idle")
  BY DEF JointNext, NotesOverlap, JointInv, StrayInv
<1>3. tracker' = tracker
  BY DEF JointNext, JointRequest, JointServer, StopTrajectory, JointPreempted, JointAccept, InitChain,
         InitSolvers, StateCallback, ReadState, LookWhetherActive, UpdateWithoutSolvers, UpdateThrows,
         UpdateOverruns, UpdateAndPublish, AbortTracking
<1>4. /\ SizesAgree /\ ~ mistaken
      /\ server.at = "init" => chain = FrameOf[current]
      /\ server.at # "init" => chain \in {pointingFrame, NoFrame}
      /\ worker.at = "update" => worker.goal = current
  BY <1>2, <1>3 DEF OwnChainInv, SizesAgree
<1>5. CASE JointRequest
  BY <1>4, <1>5 DEF JointRequest, RequestGoal, RequestCancel, JointInv, JointTypeOK, ServerTypeOK,
                    ServerGoes
<1>6. CASE StopTrajectory
  BY <1>4, <1>6 DEF StopTrajectory, ServerGoes, JointInv, JointTypeOK, ServerTypeOK
<1>7. CASE JointPreempted
  BY <1>4, <1>7 DEF JointPreempted, SetPreempted, ServerGoes, ServerReturns, JointInv, JointTypeOK,
                    ServerTypeOK
<1>8. CASE JointAccept
  BY <1>2, <1>4, <1>8 DEF JointAccept, AcceptNewGoal, ServerGoes, JointInv, JointTypeOK, ServerTypeOK
<1>9. CASE InitChain
  BY <1>2, <1>4, <1>9 DEF InitChain, InitAborts, SizesAgree, ServerGoes, ServerReturns, JointInv,
                          JointTypeOK, ServerTypeOK
<1>10. CASE InitSolvers
  BY <1>2, <1>4, <1>10 DEF InitSolvers, ServerReturns, JointInv, JointTypeOK, ServerTypeOK
<1>11. CASE UpdateAndPublish
  <2>1. IsActive /\ server.at = "idle" /\ worker.goal = current /\ chain = pointingFrame
    BY <1>2, <1>4, <1>11 DEF UpdateAndPublish, JointInv, StrayInv
  <2>2. chain = FrameOf[worker.goal]
    BY <2>1 DEF JointInv, SolversInv
  <2>. QED
    BY <1>4, <1>11, <2>1, <2>2 DEF UpdateAndPublish
<1>12. CASE LookWhetherActive
  BY <1>4, <1>12 DEF LookWhetherActive, JointInv, JointTypeOK
<1>13. CASE ReadState \/ UpdateWithoutSolvers \/ UpdateThrows \/ UpdateOverruns \/ AbortTracking
  BY <1>4, <1>13 DEF ReadState, UpdateWithoutSolvers, UpdateThrows, UpdateOverruns, AbortTracking,
                     JointInv, JointTypeOK
<1>. QED
  BY <1>5, <1>6, <1>7, <1>8, <1>9, <1>10, <1>11, <1>12, <1>13 DEF JointNext, JointServer, StateCallback

\* SolvedForOwnFrame, with a hypothesis that its counterexample shows to be needed:
\* what is published for a goal was solved for the chain to its own frame (unless a
\* callback ran beside state_cb), if no goal can be refused because its chain has
\* other joints than the controller.  A chain that does not exist leads to a crash
\* and not to a command.
THEOREM SolvedForOwnIfSizesAgree == JointSpec => [](SizesAgree => SolvedForOwnFrame)
<1>1. JointInit => OwnChainInv
  BY DEF JointInit, ServerInit, NothingPointed, OwnChainInv
<1>2. JointInv /\ OwnChainInv /\ [JointNext]_<<serverVars, jointVars>> => OwnChainInv'
  BY OwnChainStep
<1>3. OwnChainInv => (SizesAgree => SolvedForOwnFrame)
  BY DEF OwnChainInv, SolvedForOwnFrame
<1>. QED
  BY <1>1, <1>2, <1>3, JointInvariant, PTL DEF JointSpec

-----------------------------------------------------------------------------
(* The tasks for tools.                                                    *)

\* Where tools are changed the default gripper is used, and is empty when
\* the tool has been placed.
ChangeInv ==
  /\ toolTask.at \in {"place_tool", "placing_tool"} => toolTask.of \in ToolNames
  /\ toolTask.at = "place_tool" => active = toolTask.of
  /\ toolTask.at \in {"placing_tool", "check", "pick_tool"} => active = Default
  /\ toolTask.at = "pick_tool" => toolTask.to \in ToolNames

MountedInv ==
  ~ interrupted =>
    /\ toolTask.at \in {"idle", "place_tool", "pick_screw", "place_screw"} =>
         mounted = {active} \cap ToolNames
    /\ toolTask.at = "placing_tool" => mounted = {toolTask.of}
    /\ toolTask.at \in {"check", "pick_tool"} => mounted = {}

\* The screw that is asked for is the one at the outlet, and another can be
\* generated; only a screw that is on a tool is placed.
ScrewInv ==
  /\ toolTask.at = "pick_screw" \/ toolTask.next # << >> =>
       \E t \in ScrewTypes : toolTask.screw = ScrewId(t) /\ generated[t] < MaxScrews
  /\ toolTask.at = "pick_screw" => active \in ToolNames
  /\ toolTask.at = "place_screw" =>
       toolTask.screw \in Screws /\ screwAt[toolTask.screw] \in ToolNames

\* The screws of the scene are those there are, and at the outlets are those
\* that were generated last.
FeederInv ==
  ~ interrupted =>
    \A t \in ScrewTypes, n \in 1 .. MaxScrews :
      /\ <<t, n>> \in inScene <=> screwAt[<<t, n>>] # Nowhere
      /\ screwAt[<<t, n>>] = "outlet" <=> n = generated[t]

ToolTaskInv == ToolTaskTypeOK /\ ChangeInv /\ MountedInv /\ ScrewInv /\ FeederInv

\* What the goals of the tool tasks are made of
ScrewOf == {<< >>} \cup Screws
NextOf == {<< >>} \cup {<<t>> : t \in ScrewTypes}
ToolTaskGoals ==
  [at : {"idle", "place_tool", "placing_tool", "check", "pick_tool", "pick_screw", "place_screw"},
   of : Grippers, to : Grippers \cup {NoSuchTool}, screw : ScrewOf, next : NextOf,
   cancelled : BOOLEAN]
ToolTaskRest ==
  /\ active \in Grippers
  /\ mounted \subseteq ToolNames
  /\ generated \in [ScrewTypes -> 1 .. MaxScrews]
  /\ screwAt \in [Screws -> {Nowhere, "outlet", "inlet"} \cup ToolNames]
  /\ inScene \subseteq Screws
  /\ interrupted \in BOOLEAN

LEMMA NoToolTaskTyped == NoToolTask \in ToolTaskGoals
<1>1. << >> \in ScrewOf /\ << >> \in NextOf
  BY DEF ScrewOf, NextOf
<1>. QED
  BY <1>1 DEF NoToolTask, ToolTaskGoals, Grippers

LEMMA ToolTaskTypeStep ==
  ASSUME ToolTaskTypeOK, ChangeInv, ScrewInv, ToolTaskNext
  PROVE  ToolTaskTypeOK'
<1>. USE ToolTasksAssumption, NoToolTaskTyped DEF Grippers
<1>a. toolTask \in ToolTaskGoals /\ ToolTaskRest
  BY DEF ToolTaskTypeOK, ToolTaskGoals, ScrewOf, NextOf, ToolTaskRest
<1>b. Screws \subseteq ScrewOf /\ << >> \in ScrewOf /\ << >> \in NextOf
  BY DEF ScrewOf, NextOf
<1>c. \A t \in ScrewTypes : <<t>> \in NextOf /\ ScrewId(t) \in Screws
  BY <1>a DEF NextOf, ScrewId, Screws, ToolTaskRest
<1>1. ASSUME CancelToolTask PROVE toolTask' \in ToolTaskGoals /\ ToolTaskRest'
  <2>1. toolTask' \in ToolTaskGoals
    BY <1>1, <1>a, <1>b, <1>c DEF CancelToolTask, ToolTaskGoals
  <2>2. ToolTaskRest'
    BY <1>1, <1>a, <1>b, <1>c DEF CancelToolTask, ToolTaskRest
  <2>. QED
    BY <2>1, <2>2
<1>2. ASSUME NEW to \in Grippers \cup {NoSuchTool}, RequestTool(to) PROVE toolTask' \in ToolTaskGoals /\ ToolTaskRest'
  <2>1. toolTask' \in ToolTaskGoals
    <3>1. FirstStage \in {"place_tool", "check"} /\ active \in Grippers
      BY <1>a DEF FirstStage, ToolTaskRest
    <3>2. toolTask' = [NoToolTask EXCEPT !.at = FirstStage, !.of = active, !.to = to]
      BY <1>2 DEF RequestTool
    <3>. QED
      BY <1>2, <3>1, <3>2 DEF ToolTaskGoals
  <2>2. ToolTaskRest'
    BY <1>2, <1>a, <1>b, <1>c DEF RequestTool, FirstStage, NoToolTask, ToolTaskRest
  <2>. QED
    BY <2>1, <2>2
<1>3. ASSUME BeginPlaceTool PROVE toolTask' \in ToolTaskGoals /\ ToolTaskRest'
  <2>1. toolTask' \in ToolTaskGoals
    BY <1>3, <1>a, <1>b, <1>c DEF BeginPlaceTool, EndToolTask, MayEnter, ToolTaskGoals
  <2>2. ToolTaskRest'
    BY <1>3, <1>a, <1>b, <1>c DEF BeginPlaceTool, EndToolTask, MayEnter, ToolTaskRest
  <2>. QED
    BY <2>1, <2>2
<1>4. ASSUME PlaceTool PROVE toolTask' \in ToolTaskGoals /\ ToolTaskRest'
  <2>1. toolTask' \in ToolTaskGoals
    BY <1>4, <1>a, <1>b, <1>c DEF PlaceTool, PlaceToolFails, EndToolTask, ToolTaskGoals
  <2>2. ToolTaskRest'
    BY <1>4, <1>a DEF PlaceTool, PlaceToolFails, ToolTaskRest, ToolTaskGoals
  <2>. QED
    BY <2>1, <2>2
<1>5. ASSUME CheckTool PROVE toolTask' \in ToolTaskGoals /\ ToolTaskRest'
  <2>1. toolTask' \in ToolTaskGoals
    BY <1>5, <1>a, <1>b, <1>c DEF CheckTool, EndToolTask, MayEnter, ToolTaskGoals
  <2>2. ToolTaskRest'
    BY <1>5, <1>a, <1>b, <1>c DEF CheckTool, EndToolTask, MayEnter, ToolTaskRest
  <2>. QED
    BY <2>1, <2>2
<1>6. ASSUME PickTool PROVE toolTask' \in ToolTaskGoals /\ ToolTaskRest'
  <2>1. toolTask' \in ToolTaskGoals
    BY <1>6, <1>a, <1>b, <1>c DEF PickTool, ToolChanged, EndToolTask, ToolTaskGoals
  <2>2. ToolTaskRest'
    BY <1>6, <1>a DEF PickTool, ChangeInv, ToolTaskRest
  <2>. QED
    BY <2>1, <2>2
<1>7. ASSUME NEW t \in ScrewTypes, RequestPickScrew(t) PROVE toolTask' \in ToolTaskGoals /\ ToolTaskRest'
  <2>1. toolTask' \in ToolTaskGoals
    <3>. DEFINE asked == [NoToolTask EXCEPT !.of = active, !.to = ScrewTool[t], !.screw = ScrewId(t)]
    <3>1. FirstStage \in {"place_tool", "check"} /\ active \in Grippers
          /\ ScrewTool[t] \in Grippers /\ ScrewId(t) \in ScrewOf
      BY <1>a, <1>b, <1>c, <1>7 DEF FirstStage, ToolTaskRest
    <3>2. asked \in ToolTaskGoals
      BY <3>1 DEF ToolTaskGoals
    <3>3. toolTask' = IF active = ScrewTool[t] THEN [asked EXCEPT !.at = "pick_screw"]
                      ELSE [asked EXCEPT !.at = FirstStage, !.next = <<t>>]
      BY <1>7 DEF RequestPickScrew
    <3>4. <<t>> \in NextOf
      BY <1>c, <1>7
    <3>. HIDE DEF asked
    <3>. QED
      BY <3>1, <3>2, <3>3, <3>4 DEF ToolTaskGoals
  <2>2. ToolTaskRest'
    BY <1>7, <1>a, <1>b, <1>c DEF RequestPickScrew, FirstStage, NoToolTask, ToolTaskRest
  <2>. QED
    BY <2>1, <2>2
<1>8. ASSUME PickScrew PROVE toolTask' \in ToolTaskGoals /\ ToolTaskRest'
  <2>1. toolTask' \in ToolTaskGoals
    BY <1>8, <1>a, <1>b, <1>c DEF PickScrew, GenerateScrew, EndToolTask, ToolTaskGoals
  <2>2. ToolTaskRest'
    <3>1. PICK t \in ScrewTypes : toolTask.screw = ScrewId(t) /\ generated[t] < MaxScrews
      BY <1>8 DEF PickScrew, ScrewInv
    <3>. DEFINE id == <<t, generated[t] + 1>>
                s == ScrewId(t)
                taken == [screwAt EXCEPT ![s] = active]
    <3>2. generated[t] \in 1 .. MaxScrews /\ generated[t] + 1 \in 1 .. MaxScrews
          /\ s[1] = t /\ s \in Screws /\ id \in Screws
      BY <1>a, <1>c, <3>1 DEF ToolTaskRest, Screws, ScrewId
    <3>3. taken \in [Screws -> {Nowhere, "outlet", "inlet"} \cup ToolNames]
      BY <1>8, <1>a DEF PickScrew, ScrewInv, ToolTaskRest
    <3>4. /\ UNCHANGED <<active, mounted>>
          /\ interrupted' \in BOOLEAN
          /\ \/ UNCHANGED <<generated, screwAt, inScene>>
             \/ \E at \in {screwAt, taken} :
                  /\ generated' = [generated EXCEPT ![t] = generated[t] + 1]
                  /\ screwAt' = [at EXCEPT ![id] = "outlet"]
                  /\ inScene' = inScene \cup {id}
      BY <1>8, <1>a, <3>1, <3>2 DEF PickScrew, GenerateScrew, ToolTaskRest
    <3>. HIDE DEF taken, id, s
    <3>. QED
      BY <1>a, <3>2, <3>3, <3>4 DEF ToolTaskRest
  <2>. QED
    BY <2>1, <2>2
<1>9. ASSUME RequestPlaceScrew PROVE toolTask' \in ToolTaskGoals /\ ToolTaskRest'
  <2>1. toolTask' \in ToolTaskGoals
    <3>1. PICK s \in Screws : toolTask' = [NoToolTask EXCEPT !.at = "place_screw", !.screw = s]
      BY <1>9, <1>a DEF RequestPlaceScrew, ScrewsGrasped, ToolTaskRest
    <3>. QED
      BY <1>b, <3>1 DEF ToolTaskGoals
  <2>2. ToolTaskRest'
    BY <1>9, <1>a, <1>b, <1>c DEF RequestPlaceScrew, ScrewsGrasped, NoToolTask, ToolTaskRest
  <2>. QED
    BY <2>1, <2>2
<1>10. ASSUME PlaceScrew PROVE toolTask' \in ToolTaskGoals /\ ToolTaskRest'
  <2>1. toolTask' \in ToolTaskGoals
    BY <1>10, <1>a, <1>b, <1>c DEF PlaceScrew, EndToolTask, ToolTaskGoals
  <2>2. ToolTaskRest'
    BY <1>10, <1>a, <1>b, <1>c DEF PlaceScrew, EndToolTask, ToolTaskRest
  <2>. QED
    BY <2>1, <2>2
<1>11. toolTask' \in ToolTaskGoals /\ ToolTaskRest'
  BY <1>1, <1>2, <1>3, <1>4, <1>5, <1>6, <1>7, <1>8, <1>9, <1>10 DEF ToolTaskNext
<1>. QED
  BY <1>11 DEF ToolTaskTypeOK, ToolTaskGoals, ScrewOf, NextOf, ToolTaskRest

LEMMA ToolTaskInitInv == ToolTaskInit => ToolTaskInv
<1>. SUFFICES ASSUME ToolTaskInit PROVE ToolTaskInv
  OBVIOUS
<1>. USE ToolTasksAssumption DEF ToolTaskInit, NoToolTask, Grippers, Screws, Nowhere
<1>1. ToolTaskTypeOK
  <2>1. toolTask \in ToolTaskGoals
    BY NoToolTaskTyped DEF ToolTaskInit
  <2>2. generated \in [ScrewTypes -> 1 .. MaxScrews]
    OBVIOUS
  <2>3. screwAt \in [Screws -> {Nowhere, "outlet", "inlet"} \cup ToolNames]
    OBVIOUS
  <2>. QED
    BY <2>1, <2>2, <2>3 DEF ToolTaskTypeOK, ToolTaskGoals, ScrewOf, NextOf
<1>2. ChangeInv /\ MountedInv /\ ScrewInv
  BY DEF ChangeInv, MountedInv, ScrewInv
<1>3. FeederInv
  BY DEF FeederInv
<1>. QED
  BY <1>1, <1>2, <1>3 DEF ToolTaskInv

\* Steps that leave the feeders alone.
LEMMA FeederKept ==
  FeederInv /\ UNCHANGED <<generated, screwAt, inScene>> /\ (interrupted => interrupted')
    => FeederInv'
BY DEF FeederInv

LEMMA ToolTaskStepInv == ToolTaskInv /\ [ToolTaskNext]_toolTaskVars => ToolTaskInv'
<1>. SUFFICES ASSUME ToolTaskInv, [ToolTaskNext]_toolTaskVars PROVE ToolTaskInv'
  OBVIOUS
<1>. USE ToolTasksAssumption
     DEF ToolTaskInv, ToolTaskTypeOK, ChangeInv, MountedInv, ScrewInv, FeederInv,
         Grippers, Screws, ScrewId, Nowhere, NoSuchTool
<1>1. CASE CancelToolTask
  <2>1. ToolTaskTypeOK'
    BY <1>1, ToolTaskTypeStep DEF ToolTaskNext
  <2>2. ChangeInv'
    BY <1>1 DEF CancelToolTask
  <2>3. MountedInv'
    BY <1>1 DEF CancelToolTask
  <2>4. ScrewInv'
    BY <1>1 DEF CancelToolTask
  <2>5. FeederInv'
    <3>1. UNCHANGED <<generated, screwAt, inScene>> /\ (interrupted => interrupted')
      BY <1>1 DEF CancelToolTask
    <3>. HIDE DEF FeederInv, ToolTaskTypeOK
    <3>. QED
      BY <3>1, FeederKept
  <2>. QED
    BY <2>1, <2>2, <2>3, <2>4, <2>5
<1>2. ASSUME NEW to \in Grippers \cup {NoSuchTool}, RequestTool(to) PROVE ToolTaskInv'
  <2>1. ToolTaskTypeOK'
    BY <1>2, ToolTaskTypeStep DEF ToolTaskNext
  <2>2. ChangeInv'
    BY <1>2 DEF RequestTool, FirstStage, NoToolTask
  <2>3. MountedInv'
    BY <1>2 DEF RequestTool, FirstStage, NoToolTask
  <2>4. ScrewInv'
    BY <1>2 DEF RequestTool, FirstStage, NoToolTask
  <2>5. FeederInv'
    <3>1. UNCHANGED <<generated, screwAt, inScene>> /\ (interrupted => interrupted')
      BY <1>2 DEF RequestTool, FirstStage, NoToolTask
    <3>. HIDE DEF FeederInv, ToolTaskTypeOK
    <3>. QED
      BY <3>1, FeederKept
  <2>. QED
    BY <2>1, <2>2, <2>3, <2>4, <2>5
<1>3. CASE BeginPlaceTool
  <2>1. ToolTaskTypeOK'
    BY <1>3, ToolTaskTypeStep DEF ToolTaskNext
  <2>2. ChangeInv'
    BY <1>3 DEF BeginPlaceTool, EndToolTask, NoToolTask, MayEnter
  <2>3. MountedInv'
    BY <1>3 DEF BeginPlaceTool, EndToolTask, NoToolTask, MayEnter
  <2>4. ScrewInv'
    BY <1>3 DEF BeginPlaceTool, EndToolTask, NoToolTask, MayEnter
  <2>5. FeederInv'
    <3>1. UNCHANGED <<generated, screwAt, inScene>> /\ (interrupted => interrupted')
      BY <1>3 DEF BeginPlaceTool, EndToolTask, NoToolTask, MayEnter
    <3>. HIDE DEF FeederInv, ToolTaskTypeOK
    <3>. QED
      BY <3>1, FeederKept
  <2>. QED
    BY <2>1, <2>2, <2>3, <2>4, <2>5
<1>4. CASE PlaceTool
  <2>1. ToolTaskTypeOK'
    BY <1>4, ToolTaskTypeStep DEF ToolTaskNext
  <2>2. ChangeInv'
    BY <1>4 DEF PlaceTool, PlaceToolFails, EndToolTask, NoToolTask
  <2>3. MountedInv'
    BY <1>4 DEF PlaceTool, PlaceToolFails, EndToolTask, NoToolTask
  <2>4. ScrewInv'
    BY <1>4 DEF PlaceTool, PlaceToolFails, EndToolTask, NoToolTask
  <2>5. FeederInv'
    <3>1. UNCHANGED <<generated, screwAt, inScene>> /\ (interrupted => interrupted')
      BY <1>4 DEF PlaceTool, PlaceToolFails, EndToolTask, NoToolTask
    <3>. HIDE DEF FeederInv, ToolTaskTypeOK
    <3>. QED
      BY <3>1, FeederKept
  <2>. QED
    BY <2>1, <2>2, <2>3, <2>4, <2>5
<1>5. CASE CheckTool
  <2>1. ToolTaskTypeOK'
    BY <1>5, ToolTaskTypeStep DEF ToolTaskNext
  <2>2. ChangeInv'
    BY <1>5 DEF CheckTool, EndToolTask, NoToolTask, MayEnter
  <2>3. MountedInv'
    BY <1>5 DEF CheckTool, EndToolTask, NoToolTask, MayEnter
  <2>4. ScrewInv'
    BY <1>5 DEF CheckTool, EndToolTask, NoToolTask, MayEnter
  <2>5. FeederInv'
    <3>1. UNCHANGED <<generated, screwAt, inScene>> /\ (interrupted => interrupted')
      BY <1>5 DEF CheckTool, EndToolTask, NoToolTask, MayEnter
    <3>. HIDE DEF FeederInv, ToolTaskTypeOK
    <3>. QED
      BY <3>1, FeederKept
  <2>. QED
    BY <2>1, <2>2, <2>3, <2>4, <2>5
<1>6. CASE PickTool
  <2>1. ToolTaskTypeOK'
    BY <1>6, ToolTaskTypeStep DEF ToolTaskNext
  <2>a. \/ toolTask' = NoToolTask
        \/ /\ toolTask' = [toolTask EXCEPT !.at = "pick_screw", !.next = << >>]
           /\ toolTask.next # << >> /\ active' = toolTask.to
    BY <1>6 DEF PickTool, ToolChanged, EndToolTask
  <2>b. /\ ~ interrupted' => ~ interrupted
        /\ \/ mounted' = mounted \cup {toolTask.to} /\ active' = toolTask.to
           \/ UNCHANGED <<mounted, active>>
           \/ interrupted'
        /\ toolTask.at = "pick_tool" /\ UNCHANGED generated
    BY <1>6 DEF PickTool
  <2>c. toolTask'.at \in {"idle", "pick_screw"} /\ toolTask'.next = << >>
    <3>1. CASE toolTask' = NoToolTask
      BY <3>1 DEF NoToolTask
    <3>2. CASE toolTask' = [toolTask EXCEPT !.at = "pick_screw", !.next = << >>]
      BY <3>2
    <3>. QED
      BY <2>a, <3>1, <3>2
  <2>2. ChangeInv'
    BY <2>c
  <2>3. MountedInv'
    BY <2>b, <2>c
  <2>4. ScrewInv'
    <3>1. CASE toolTask' = NoToolTask
      BY <3>1 DEF NoToolTask
    <3>2. CASE toolTask' = [toolTask EXCEPT !.at = "pick_screw", !.next = << >>]
               /\ toolTask.next # << >> /\ active' = toolTask.to
      BY <2>b, <2>c, <3>2
    <3>. QED
      BY <2>a, <3>1, <3>2
  <2>5. FeederInv'
    <3>1. UNCHANGED <<generated, screwAt, inScene>> /\ (interrupted => interrupted')
      BY <1>6 DEF PickTool, ToolChanged, EndToolTask, NoToolTask
    <3>. HIDE DEF FeederInv, ToolTaskTypeOK
    <3>. QED
      BY <3>1, FeederKept
  <2>. QED
    BY <2>1, <2>2, <2>3, <2>4, <2>5
<1>7. ASSUME NEW t \in ScrewTypes, RequestPickScrew(t) PROVE ToolTaskInv'
  <2>1. ToolTaskTypeOK'
    BY <1>7, ToolTaskTypeStep DEF ToolTaskNext
  <2>2. ChangeInv'
    BY <1>7 DEF RequestPickScrew, FirstStage, NoToolTask
  <2>3. MountedInv'
    BY <1>7 DEF RequestPickScrew, FirstStage, NoToolTask
  <2>4. ScrewInv'
    BY <1>7 DEF RequestPickScrew, FirstStage, NoToolTask
  <2>5. FeederInv'
    <3>1. UNCHANGED <<generated, screwAt, inScene>> /\ (interrupted => interrupted')
      BY <1>7 DEF RequestPickScrew, FirstStage, NoToolTask
    <3>. HIDE DEF FeederInv, ToolTaskTypeOK
    <3>. QED
      BY <3>1, FeederKept
  <2>. QED
    BY <2>1, <2>2, <2>3, <2>4, <2>5
<1>8. CASE PickScrew
  <2>1. ToolTaskTypeOK'
    BY <1>8, ToolTaskTypeStep DEF ToolTaskNext
  <2>2. ChangeInv'
    BY <1>8 DEF PickScrew, GenerateScrew, EndToolTask, NoToolTask
  <2>3. MountedInv'
    BY <1>8 DEF PickScrew, GenerateScrew, EndToolTask, NoToolTask
  <2>4. ScrewInv'
    BY <1>8 DEF PickScrew, GenerateScrew, EndToolTask, NoToolTask
  <2>5. FeederInv'
    <3>. SUFFICES ASSUME ~ interrupted', NEW t \in ScrewTypes, NEW n \in 1 .. MaxScrews
                  PROVE  /\ <<t, n>> \in inScene' <=> screwAt'[<<t, n>>] # Nowhere
                         /\ screwAt'[<<t, n>>] = "outlet" <=> n = generated'[t]
      OBVIOUS
    <3>1. PICK u \in ScrewTypes : toolTask.screw = ScrewId(u) /\ generated[u] < MaxScrews
      BY <1>8 DEF PickScrew
    <3>. DEFINE id == <<u, generated[u] + 1>>
                s == <<u, generated[u]>>
    <3>2. generated[u] \in Nat /\ s \in Screws /\ id \in Screws /\ <<t, n>> \in Screws
      BY <3>1
    <3>3. ~ interrupted
          /\ \/ UNCHANGED <<generated, screwAt, inScene>>
             \/ /\ generated' = [generated EXCEPT ![u] = generated[u] + 1]
                /\ screwAt' = [[screwAt EXCEPT ![s] = active] EXCEPT ![id] = "outlet"]
                /\ inScene' = inScene \cup {id}
      BY <1>8, <3>1 DEF PickScrew, GenerateScrew
    <3>4. active \in ToolNames
      BY <1>8 DEF PickScrew
    <3>5. /\ <<t, n>> \in inScene <=> screwAt[<<t, n>>] # Nowhere
          /\ screwAt[<<t, n>>] = "outlet" <=> n = generated[t]
      BY <3>3
    <3>6. s \in inScene /\ screwAt[s] = "outlet"
      BY <3>1, <3>2, <3>3
    <3>7. <<t, n>> = s <=> t = u /\ n = generated[u]
      OBVIOUS
    <3>8. <<t, n>> = id <=> t = u /\ n = generated[u] + 1
      OBVIOUS
    <3>9. CASE UNCHANGED <<generated, screwAt, inScene>>
      BY <3>5, <3>9
    <3>10. CASE /\ generated' = [generated EXCEPT ![u] = generated[u] + 1]
                /\ screwAt' = [[screwAt EXCEPT ![s] = active] EXCEPT ![id] = "outlet"]
                /\ inScene' = inScene \cup {id}
      <4>1. screwAt'[<<t, n>>] = IF <<t, n>> = id THEN "outlet"
                                 ELSE IF <<t, n>> = s THEN active ELSE screwAt[<<t, n>>]
        BY <3>2, <3>10
      <4>2. generated'[t] = IF t = u THEN generated[u] + 1 ELSE generated[t]
        BY <3>10
      <4>3. <<t, n>> \in inScene' <=> <<t, n>> \in inScene \/ <<t, n>> = id
        BY <3>10
      <4>. HIDE DEF id, s
      <4>. QED
        BY <3>1, <3>2, <3>4, <3>5, <3>6, <3>7, <3>8, <4>1, <4>2, <4>3
    <3>. QED
      BY <3>3, <3>9, <3>10
  <2>. QED
    BY <2>1, <2>2, <2>3, <2>4, <2>5
<1>9. CASE RequestPlaceScrew
  <2>1. ToolTaskTypeOK'
    BY <1>9, ToolTaskTypeStep DEF ToolTaskNext
  <2>2. ChangeInv'
    BY <1>9 DEF RequestPlaceScrew, ScrewsGrasped, NoToolTask
  <2>3. MountedInv'
    BY <1>9 DEF RequestPlaceScrew, ScrewsGrasped, NoToolTask
  <2>4. ScrewInv'
    BY <1>9 DEF RequestPlaceScrew, ScrewsGrasped, NoToolTask
  <2>5. FeederInv'
    <3>1. UNCHANGED <<generated, screwAt, inScene, interrupted>>
      BY <1>9 DEF RequestPlaceScrew
    <3>. QED
      BY <3>1
  <2>. QED
    BY <2>1, <2>2, <2>3, <2>4, <2>5
<1>10. CASE PlaceScrew
  <2>1. ToolTaskTypeOK'
    BY <1>10, ToolTaskTypeStep DEF ToolTaskNext
  <2>2. ChangeInv'
    BY <1>10 DEF PlaceScrew, EndToolTask, NoToolTask
  <2>3. MountedInv'
    BY <1>10 DEF PlaceScrew, EndToolTask, NoToolTask
  <2>4. ScrewInv'
    BY <1>10 DEF PlaceScrew, EndToolTask, NoToolTask
  <2>5. FeederInv'
    <3>. SUFFICES ASSUME ~ interrupted', NEW t \in ScrewTypes, NEW n \in 1 .. MaxScrews
                  PROVE  /\ <<t, n>> \in inScene' <=> screwAt'[<<t, n>>] # Nowhere
                         /\ screwAt'[<<t, n>>] = "outlet" <=> n = generated'[t]
      OBVIOUS
    <3>. DEFINE s == toolTask.screw
    <3>1. /\ UNCHANGED generated /\ ~ interrupted
          /\ s \in Screws /\ screwAt[s] \in ToolNames
          /\ \/ screwAt' = [screwAt EXCEPT ![s] = Nowhere] /\ inScene' = inScene \ {s}
             \/ screwAt' \in {screwAt, [screwAt EXCEPT ![s] = "inlet"]} /\ UNCHANGED inScene
      BY <1>10 DEF PlaceScrew
    <3>2. /\ <<t, n>> \in inScene <=> screwAt[<<t, n>>] # Nowhere
          /\ screwAt[<<t, n>>] = "outlet" <=> n = generated[t]
      BY <3>1
    <3>3. <<t, n>> \in Screws
      OBVIOUS
    <3>. HIDE DEF s
    <3>. QED
      BY <3>1, <3>2, <3>3
  <2>. QED
    BY <2>1, <2>2, <2>3, <2>4, <2>5
<1>11. CASE UNCHANGED toolTaskVars
  BY <1>11 DEF toolTaskVars
<1>. QED
  BY <1>1, <1>2, <1>3, <1>4, <1>5, <1>6, <1>7, <1>8, <1>9, <1>10, <1>11 DEF ToolTaskNext

\* The invariant of the tool tasks holds.
THEOREM ToolTaskInvariant == ToolTaskSpec => []ToolTaskInv
  BY ToolTaskInitInv, ToolTaskStepInv, PTL DEF ToolTaskSpec

\* Every goal for a tool or a screw is in a stage that its server has, and no
\* more screws are generated than there are.
THEOREM ToolTaskTypeCorrect == ToolTaskSpec => []ToolTaskTypeOK
<1>1. ToolTaskInv => ToolTaskTypeOK
  BY DEF ToolTaskInv
<1>. QED
  BY <1>1, ToolTaskInvariant, PTL

\* Until a goal of the pick-or-place task is cancelled, the gripper that is
\* active is the tool that is mounted, and the scene has the screws that there
\* are, with the one that is picked next at its outlet.
THEOREM ToolsStayInStep == ToolTaskSpec => []ToolsInStep
<1>1. ToolTaskInv => ToolsInStep
  <2>. SUFFICES ASSUME ToolTaskInv, ~ interrupted
                PROVE  /\ toolTask.at \in {"idle", "place_tool", "pick_screw", "place_screw"} =>
                            mounted = {active} \cap ToolNames
                       /\ toolTask.at = "pick_tool" => mounted = {}
                       /\ inScene = {s \in Screws : screwAt[s] # Nowhere}
                       /\ \A t \in ScrewTypes :
                            {s \in Screws : s[1] = t /\ screwAt[s] = "outlet"} = {ScrewId(t)}
    BY DEF ToolsInStep
  <2>. USE DEF ToolTaskInv, ToolTaskTypeOK
  <2>1. /\ toolTask.at \in {"idle", "place_tool", "pick_screw", "place_screw"} =>
             mounted = {active} \cap ToolNames
        /\ toolTask.at = "pick_tool" => mounted = {}
    BY DEF MountedInv
  <2>2. inScene = {s \in Screws : screwAt[s] # Nowhere}
    BY DEF FeederInv, Screws
  <2>3. ASSUME NEW t \in ScrewTypes
        PROVE  {s \in Screws : s[1] = t /\ screwAt[s] = "outlet"} = {ScrewId(t)}
    BY DEF FeederInv, Screws, ScrewId
  <2>. QED
    BY <2>1, <2>2, <2>3
<1>. QED
  BY <1>1, ToolTaskInvariant, PTL

-----------------------------------------------------------------------------
(* The task for bins.                                                      *)

\* Poses are tried when they are known, as often as is allowed.
PosesInv ==
  /\ bin.at \in {"pick", "trying"} => bin.known
  /\ bin.at = "trying" => bin.tries < MaxAttempts /\ (bin.fine => bin.tries = 0)

\* A part is in the gripper or on its way only from where it is picked to
\* where its placing has been waited for, unless the goal is cancelled.
PartInv ==
  /\ bin.at \in {"approaching", "search_next", "wait"} => placing # "none"
  /\ ~ leftover =>
       /\ placing # "none" => bin.at \in {"approaching", "search_next", "wait"}
       /\ placing = "done" => ~ holding
       /\ placing = "canceled" => bin.cancelled
       /\ holding => \/ bin.at \in {"place", "approaching", "search_next", "wait"}
                     \/ bin.cancelled /\ bin.at \notin {"trying", "idle"}

\* What is pointed to is taken for the request that it is made for.
PointedInv ==
  /\ pointing.of = "own" => BinAt("request_help")
  /\ pointing.of = "old" => unasked

BinInv == BinTypeOK /\ PosesInv /\ PartInv /\ PointedInv /\ BinGivenUpLast /\ SweptAsPointed

\* What the goals for bins are made of
BinGoals ==
  [at : BinStages, all : BOOLEAN, eye : BOOLEAN, fine : BOOLEAN, known : BOOLEAN,
   poses : SUBSET Places, fails : SUBSET Places, tries : 0 .. MaxAttempts,
   picks : 0 .. MaxPicks, recoveries : 0 .. MaxRecoveries, cancelled : BOOLEAN]
BinRest ==
  /\ {holding, leftover, unasked} \subseteq BOOLEAN
  /\ placing \in {"none", "begun", "approached", "done", "failed", "canceled"}
  /\ pointing \in [of : {"none", "own", "old"}, answers : BOOLEAN]
  /\ swept \in {"none", "own", "old"}

LEMMA NoBinTaskTyped == NoBinTask \in BinGoals
<1>1. 0 \in 0 .. MaxAttempts /\ 0 \in 0 .. MaxPicks /\ 0 \in 0 .. MaxRecoveries
  BY BinTasksAssumption
<1>2. "idle" \in BinStages
  BY DEF BinStages
<1>. QED
  BY <1>1, <1>2 DEF NoBinTask, BinGoals

\* A goal keeps its form when it goes to another stage or looks anew.
LEMMA BinGoes_Typed ==
  ASSUME NEW b \in BinGoals
  PROVE  /\ \A stage \in BinStages : [b EXCEPT !.at = stage] \in BinGoals
         /\ Again(b) \in BinGoals
         /\ \A fine \in BOOLEAN : Anew(b, fine) \in BinGoals
<1>1. "loop" \in BinStages /\ "go_back_home" \in BinStages
  BY DEF BinStages, BinMotions
<1>. QED
  BY <1>1 DEF Again, Anew, BinGoals

\* When a goal ends, whatever has become of the part that it had, the next one can
\* tell.
LEMMA BinEnds ==
  ASSUME BinInv, EndBinTask, UNCHANGED <<holding, pointing, unasked>>,
         swept' \in {swept, "none"}, bin.at # "request_help"
  PROVE  BinInv'
<1>. USE DEF BinInv, BinAt, OnItsWay
<1>1. bin' \in BinGoals /\ bin'.at = "idle"
  BY NoBinTaskTyped DEF EndBinTask, NoBinTask
<1>2. BinRest'
  BY DEF EndBinTask, BinRest, BinTypeOK
<1>3. BinTypeOK'
  BY <1>1, <1>2 DEF BinGoals, BinRest, BinTypeOK
<1>4. PosesInv' /\ BinGivenUpLast'
  BY <1>1 DEF PosesInv, BinGivenUpLast
<1>5. PartInv'
  BY <1>1 DEF PartInv, EndBinTask, BinTypeOK
<1>6. PointedInv' /\ SweptAsPointed'
  BY DEF PointedInv, SweptAsPointed, BinTypeOK
<1>. QED
  BY <1>3, <1>4, <1>5, <1>6

\* With the other parameters, nothing is known.
LEMMA AnewKeeps ==
  ASSUME BinInv, bin.at = "trying", NEW fine \in BOOLEAN, NEW b \in BinGoals,
         b.at \in {"loop", "go_to_sweep_ready"} \/ (b.at = "go_back_home" /\ ~ bin.all),
         b.all = bin.all, b.cancelled = bin.cancelled, b.known = FALSE,
         bin' = b,
         UNCHANGED <<holding, placing, pointing, swept, leftover, unasked>>
  PROVE  BinInv'
<1>. USE DEF BinInv, BinAt, OnItsWay
<1>1. BinRest'
  BY DEF BinRest, BinTypeOK
<1>2. BinTypeOK'
  BY <1>1 DEF BinGoals, BinRest, BinTypeOK
<1>3. bin.at = "trying" /\ bin'.at \notin {"trying", "idle", "pick", "approaching", "search_next", "wait", "place"}
  OBVIOUS
<1>4. PosesInv' /\ BinGivenUpLast'
  BY <1>3 DEF PosesInv, BinGivenUpLast
<1>5. PartInv'
  BY <1>3 DEF PartInv
<1>6. PointedInv' /\ SweptAsPointed'
  BY <1>3 DEF PointedInv, SweptAsPointed, BinTypeOK
<1>. QED
  BY <1>2, <1>4, <1>5, <1>6

LEMMA UseFineKeeps ==
  ASSUME BinInv, bin.at = "trying", UseFine, UNCHANGED <<holding, pointing, swept, unasked>>
  PROVE  BinInv'
<1>1. bin \in BinGoals
  BY DEF BinInv, BinTypeOK, BinGoals
<1>. DEFINE b == Again(Anew(bin, TRUE))
<1>2. b \in BinGoals
  BY <1>1, BinGoes_Typed
<1>3. /\ b.at = IF bin.all THEN "loop" ELSE "go_back_home"
      /\ b.all = bin.all /\ b.cancelled = bin.cancelled /\ b.known = FALSE
  BY <1>1 DEF Again, Anew, BinGoals
<1>4. bin' = b /\ UNCHANGED <<placing, leftover>>
  BY DEF UseFine
<1>. HIDE DEF b
<1>. QED
  BY <1>2, <1>3, <1>4, AnewKeeps

LEMMA PickAbortedKeeps ==
  ASSUME BinInv, bin.at = "trying", NEW stage, PickAborted(stage),
         UNCHANGED <<holding, pointing, swept, unasked>>
  PROVE  BinInv'
<1>1. CASE UseFine
  BY <1>1, UseFineKeeps
<1>2. CASE EndBinTask
  BY <1>2, BinEnds
<1>3. CASE /\ bin.recoveries < MaxRecoveries
           /\ bin' = [Anew(bin, FALSE) EXCEPT !.at = "go_to_sweep_ready", !.recoveries = @ + 1]
           /\ UNCHANGED <<placing, leftover>>
  <2>. DEFINE b == [Anew(bin, FALSE) EXCEPT !.at = "go_to_sweep_ready", !.recoveries = @ + 1]
  <2>1. bin \in BinGoals
    BY DEF BinInv, BinTypeOK, BinGoals
  <2>2. Anew(bin, FALSE) \in BinGoals /\ Anew(bin, FALSE).recoveries = bin.recoveries
    BY <2>1, BinGoes_Typed DEF Anew, BinGoals
  <2>3. bin.recoveries + 1 \in 0 .. MaxRecoveries /\ "go_to_sweep_ready" \in BinStages
    BY <1>3, <2>1, BinTasksAssumption DEF BinGoals, BinStages, BinMotions
  <2>4. b \in BinGoals
    BY <2>2, <2>3 DEF BinGoals
  <2>5. /\ b.at = "go_to_sweep_ready"
        /\ b.all = bin.all /\ b.cancelled = bin.cancelled /\ b.known = FALSE
    BY <2>1 DEF Anew, BinGoals
  <2>6. bin' = b /\ UNCHANGED <<placing, leftover>>
    BY <1>3
  <2>. HIDE DEF b
  <2>. QED
    BY <2>4, <2>5, <2>6, AnewKeeps
<1>. QED
  BY <1>1, <1>2, <1>3 DEF PickAborted

LEMMA BinInitInv == BinInit => BinInv
<1>. SUFFICES ASSUME BinInit PROVE BinInv
  OBVIOUS
<1>. USE DEF BinInit
<1>1. BinTypeOK
  <2>1. bin \in BinGoals /\ BinRest
    BY NoBinTaskTyped DEF BinRest
  <2>. QED
    BY <2>1 DEF BinGoals, BinRest, BinTypeOK
<1>2. PosesInv /\ PartInv /\ PointedInv /\ BinGivenUpLast /\ SweptAsPointed
  BY DEF PosesInv, PartInv, PointedInv, BinGivenUpLast, SweptAsPointed, BinAt, NoBinTask
<1>. QED
  BY <1>1, <1>2 DEF BinInv

LEMMA BinStepInv == BinInv /\ [BinNext]_binVars => BinInv'
<1>. SUFFICES ASSUME BinInv, [BinNext]_binVars PROVE BinInv'
  OBVIOUS
<1>. USE BinTasksAssumption
     DEF BinInv, PosesInv, PartInv, PointedInv, BinGivenUpLast, SweptAsPointed,
         BinAt, BinGoes, OnItsWay
<1>a. bin \in BinGoals /\ BinRest
  BY DEF BinTypeOK, BinGoals, BinRest
<1>b. \A stage \in BinStages : [bin EXCEPT !.at = stage] \in BinGoals
  BY <1>a, BinGoes_Typed
<1>c. BinGoals' = BinGoals /\ (bin' \in BinGoals /\ BinRest' => BinTypeOK')
  BY DEF BinTypeOK, BinGoals, BinRest
<1>1. CASE RequestBin
  <2>0. bin.at = "idle" /\ UNCHANGED <<holding, placing, pointing, swept, leftover, unasked>>
        /\ \E stage \in {"pick_tool", "go_home"}, all, eye \in BOOLEAN :
             bin' = [NoBinTask EXCEPT !.at = stage, !.all = all, !.eye = eye]
    BY <1>1, <1>a DEF RequestBin
  <2>1. BinTypeOK'
    <3>1. bin' \in BinGoals
      BY <2>0, NoBinTaskTyped DEF BinGoals, BinStages, BinMotions
    <3>2. BinRest'
      BY <1>a, <2>0 DEF BinRest
    <3>. QED
      BY <1>c, <3>1, <3>2
  <2>2. PosesInv'
    BY <1>a, <2>0 DEF BinGoals, BinRest
  <2>3. PartInv'
    BY <1>a, <2>0 DEF BinGoals, BinRest
  <2>4. PointedInv' /\ SweptAsPointed'
    BY <1>a, <2>0 DEF BinGoals, BinRest
  <2>5. BinGivenUpLast'
    BY <1>a, <2>0 DEF BinGoals, BinRest
  <2>. QED
    BY <2>1, <2>2, <2>3, <2>4, <2>5
<1>2. CASE CancelBin
  <2>0. /\ bin.at # "idle" /\ bin.at # "request_help" /\ bin' = [bin EXCEPT !.cancelled = TRUE]
        /\ UNCHANGED <<pointing, swept, leftover, unasked>>
        /\ \/ /\ placing \in {"begun", "approached"} /\ placing' = "canceled"
              /\ holding' \in {holding, FALSE}
           \/ placing \notin {"begun", "approached"} /\ UNCHANGED <<placing, holding>>
    BY <1>2, <1>a DEF CancelBin
  <2>1. BinTypeOK'
    <3>1. bin' \in BinGoals
      BY <1>a, <1>b, <2>0 DEF BinGoals, BinStages, BinMotions
    <3>2. BinRest'
      BY <1>a, <2>0 DEF BinRest
    <3>. QED
      BY <1>c, <3>1, <3>2
  <2>2. PosesInv'
    BY <1>a, <2>0 DEF BinGoals, BinRest
  <2>3. PartInv'
    <3>1. bin'.at = bin.at /\ bin'.cancelled
      BY <1>a, <2>0 DEF BinGoals
    <3>2. CASE placing \in {"begun", "approached"} /\ placing' = "canceled" /\ holding' \in {holding, FALSE}
      BY <1>a, <2>0, <3>1, <3>2 DEF BinRest
    <3>3. CASE placing \notin {"begun", "approached"} /\ UNCHANGED <<placing, holding>>
      BY <1>a, <2>0, <3>1, <3>3 DEF BinRest
    <3>. QED
      BY <2>0, <3>2, <3>3
  <2>4. PointedInv' /\ SweptAsPointed'
    BY <1>a, <2>0 DEF BinGoals, BinRest
  <2>5. BinGivenUpLast'
    BY <1>a, <2>0 DEF BinGoals, BinRest
  <2>. QED
    BY <2>1, <2>2, <2>3, <2>4, <2>5
<1>3. CASE Stage("pick_tool", "go_home")
  <2>1. CASE bin.at = "pick_tool" /\ bin' = [bin EXCEPT !.at = "go_home"]
           /\ UNCHANGED <<holding, placing, pointing, swept, leftover, unasked>>
    <3>1. BinTypeOK'
      <4>1. bin' \in BinGoals
        BY <1>a, <1>b, <2>1 DEF BinGoals, BinStages, BinMotions
      <4>2. BinRest'
        BY <1>a, <2>1 DEF BinRest
      <4>. QED
        BY <1>c, <4>1, <4>2
    <3>2. PosesInv'
      BY <1>a, <2>1 DEF BinGoals, BinRest
    <3>3. PartInv'
      BY <1>a, <2>1 DEF BinGoals, BinRest
    <3>4. PointedInv' /\ SweptAsPointed'
      BY <1>a, <2>1 DEF BinGoals, BinRest
    <3>5. BinGivenUpLast'
      BY <1>a, <2>1 DEF BinGoals, BinRest
    <3>. QED
      BY <3>1, <3>2, <3>3, <3>4, <3>5
  <2>2. CASE EndBinTask
    BY <1>3, <2>2, BinEnds DEF Stage
  <2>. QED
    BY <1>3, <2>1, <2>2 DEF Stage
<1>4. CASE Stage("go_home", "loop")
  <2>1. CASE bin.at = "go_home" /\ bin' = [bin EXCEPT !.at = "loop"]
           /\ UNCHANGED <<holding, placing, pointing, swept, leftover, unasked>>
    <3>1. BinTypeOK'
      <4>1. bin' \in BinGoals
        BY <1>a, <1>b, <2>1 DEF BinGoals, BinStages, BinMotions
      <4>2. BinRest'
        BY <1>a, <2>1 DEF BinRest
      <4>. QED
        BY <1>c, <4>1, <4>2
    <3>2. PosesInv'
      BY <1>a, <2>1 DEF BinGoals, BinRest
    <3>3. PartInv'
      BY <1>a, <2>1 DEF BinGoals, BinRest
    <3>4. PointedInv' /\ SweptAsPointed'
      BY <1>a, <2>1 DEF BinGoals, BinRest
    <3>5. BinGivenUpLast'
      BY <1>a, <2>1 DEF BinGoals, BinRest
    <3>. QED
      BY <3>1, <3>2, <3>3, <3>4, <3>5
  <2>2. CASE EndBinTask
    BY <1>4, <2>2, BinEnds DEF Stage
  <2>. QED
    BY <1>4, <2>1, <2>2 DEF Stage
<1>5. CASE Stage("move_camera", "search")
  <2>1. CASE bin.at = "move_camera" /\ bin' = [bin EXCEPT !.at = "search"]
           /\ UNCHANGED <<holding, placing, pointing, swept, leftover, unasked>>
    <3>1. BinTypeOK'
      <4>1. bin' \in BinGoals
        BY <1>a, <1>b, <2>1 DEF BinGoals, BinStages, BinMotions
      <4>2. BinRest'
        BY <1>a, <2>1 DEF BinRest
      <4>. QED
        BY <1>c, <4>1, <4>2
    <3>2. PosesInv'
      BY <1>a, <2>1 DEF BinGoals, BinRest
    <3>3. PartInv'
      BY <1>a, <2>1 DEF BinGoals, BinRest
    <3>4. PointedInv' /\ SweptAsPointed'
      BY <1>a, <2>1 DEF BinGoals, BinRest
    <3>5. BinGivenUpLast'
      BY <1>a, <2>1 DEF BinGoals, BinRest
    <3>. QED
      BY <3>1, <3>2, <3>3, <3>4, <3>5
  <2>2. CASE EndBinTask
    BY <1>5, <2>2, BinEnds DEF Stage
  <2>. QED
    BY <1>5, <2>1, <2>2 DEF Stage
<1>6. CASE AtLoop
  <2>0. bin.at = "loop" /\ UNCHANGED <<holding, placing, pointing, swept, leftover, unasked>>
        /\ bin' = [bin EXCEPT !.at = IF bin.known THEN "pick" ELSE IF bin.eye THEN "move_camera" ELSE "search"]
    BY <1>6, <1>a DEF AtLoop
  <2>1. BinTypeOK'
    <3>1. bin' \in BinGoals
      BY <1>a, <1>b, <2>0 DEF BinGoals, BinStages, BinMotions
    <3>2. BinRest'
      BY <1>a, <2>0 DEF BinRest
    <3>. QED
      BY <1>c, <3>1, <3>2
  <2>2. PosesInv'
    BY <1>a, <2>0 DEF BinGoals, BinRest
  <2>3. PartInv'
    BY <1>a, <2>0 DEF BinGoals, BinRest
  <2>4. PointedInv' /\ SweptAsPointed'
    BY <1>a, <2>0 DEF BinGoals, BinRest
  <2>5. BinGivenUpLast'
    BY <1>a, <2>0 DEF BinGoals, BinRest
  <2>. QED
    BY <2>1, <2>2, <2>3, <2>4, <2>5
<1>7. CASE Search("search", "pick")
  <2>1. CASE /\ bin.at = "search"
           /\ \E found \in SUBSET Places :
                bin' = [bin EXCEPT !.at = "pick", !.known = TRUE, !.poses = found]
           /\ UNCHANGED <<holding, placing, pointing, swept, leftover, unasked>>
    <3>1. BinTypeOK'
      <4>1. bin' \in BinGoals
        <5>1. PICK found \in SUBSET Places :
                bin' = [bin EXCEPT !.at = "pick", !.known = TRUE, !.poses = found]
          BY <2>1
        <5>2. "pick" \in BinStages
          BY DEF BinStages, BinMotions
        <5>. QED
          BY <1>a, <5>1, <5>2 DEF BinGoals
      <4>2. BinRest'
        BY <1>a, <2>1 DEF BinRest
      <4>. QED
        BY <1>c, <4>1, <4>2
    <3>2. PosesInv'
      BY <1>a, <2>1 DEF BinGoals, BinRest
    <3>3. PartInv'
      BY <1>a, <2>1 DEF BinGoals, BinRest
    <3>4. PointedInv' /\ SweptAsPointed'
      BY <1>a, <2>1 DEF BinGoals, BinRest
    <3>5. BinGivenUpLast'
      BY <1>a, <2>1 DEF BinGoals, BinRest
    <3>. QED
      BY <3>1, <3>2, <3>3, <3>4, <3>5
  <2>2. CASE EndBinTask
    BY <1>7, <2>2, BinEnds DEF Search
  <2>. QED
    BY <1>7, <2>1, <2>2 DEF Search
<1>8. CASE Search("search_next", "wait")
  <2>1. CASE /\ bin.at = "search_next"
           /\ \E found \in SUBSET Places :
                bin' = [bin EXCEPT !.at = "wait", !.known = TRUE, !.poses = found]
           /\ UNCHANGED <<holding, placing, pointing, swept, leftover, unasked>>
    <3>1. BinTypeOK'
      <4>1. bin' \in BinGoals
        <5>1. PICK found \in SUBSET Places :
                bin' = [bin EXCEPT !.at = "wait", !.known = TRUE, !.poses = found]
          BY <2>1
        <5>2. "wait" \in BinStages
          BY DEF BinStages, BinMotions
        <5>. QED
          BY <1>a, <5>1, <5>2 DEF BinGoals
      <4>2. BinRest'
        BY <1>a, <2>1 DEF BinRest
      <4>. QED
        BY <1>c, <4>1, <4>2
    <3>2. PosesInv'
      BY <1>a, <2>1 DEF BinGoals, BinRest
    <3>3. PartInv'
      BY <1>a, <2>1 DEF BinGoals, BinRest
    <3>4. PointedInv' /\ SweptAsPointed'
      BY <1>a, <2>1 DEF BinGoals, BinRest
    <3>5. BinGivenUpLast'
      BY <1>a, <2>1 DEF BinGoals, BinRest
    <3>. QED
      BY <3>1, <3>2, <3>3, <3>4, <3>5
  <2>2. CASE EndBinTask
    BY <1>8, <2>2, BinEnds DEF Search
  <2>. QED
    BY <1>8, <2>1, <2>2 DEF Search
<1>9. CASE EnterPick
  <2>1. CASE /\ bin.at = "pick" /\ ~ bin.cancelled
           /\ bin' = [bin EXCEPT !.at = "trying", !.tries = 0]
           /\ UNCHANGED <<holding, placing, pointing, swept, leftover, unasked>>
    <3>1. BinTypeOK'
      <4>1. bin' \in BinGoals
        <5>1. "trying" \in BinStages /\ 0 \in 0 .. MaxAttempts
          BY DEF BinStages, BinMotions
        <5>. QED
          BY <1>a, <2>1, <5>1 DEF BinGoals
      <4>2. BinRest'
        BY <1>a, <2>1 DEF BinRest
      <4>. QED
        BY <1>c, <4>1, <4>2
    <3>2. PosesInv'
      BY <1>a, <2>1 DEF BinGoals, BinRest
    <3>3. PartInv'
      BY <1>a, <2>1 DEF BinGoals, BinRest
    <3>4. PointedInv' /\ SweptAsPointed'
      BY <1>a, <2>1 DEF BinGoals, BinRest
    <3>5. BinGivenUpLast'
      BY <1>a, <2>1 DEF BinGoals, BinRest
    <3>. QED
      BY <3>1, <3>2, <3>3, <3>4, <3>5
  <2>2. CASE EndBinTask
    BY <1>9, <2>2, BinEnds DEF EnterPick
  <2>. QED
    BY <1>9, <2>1, <2>2 DEF EnterPick
<1>10. ASSUME NEW p \in Places, TryPose(p) PROVE BinInv'
  <2>1. CASE /\ bin.at = "trying" /\ bin.picks < MaxPicks /\ holding' = TRUE
           /\ bin' = [bin EXCEPT !.at = "place", !.picks = @ + 1]
           /\ UNCHANGED <<placing, leftover, pointing, swept, unasked>>
    <3>1. BinTypeOK'
      <4>1. bin' \in BinGoals
        <5>1. "place" \in BinStages /\ bin.picks + 1 \in 0 .. MaxPicks
          BY <1>a, <2>1 DEF BinGoals, BinStages, BinMotions
        <5>. QED
          BY <1>a, <2>1, <5>1 DEF BinGoals
      <4>2. BinRest'
        BY <1>a, <2>1 DEF BinRest
      <4>. QED
        BY <1>c, <4>1, <4>2
    <3>2. PosesInv'
      BY <1>a, <2>1 DEF BinGoals, BinRest
    <3>3. PartInv'
      BY <1>a, <2>1 DEF BinGoals, BinRest
    <3>4. PointedInv' /\ SweptAsPointed'
      BY <1>a, <2>1 DEF BinGoals, BinRest
    <3>5. BinGivenUpLast'
      BY <1>a, <2>1 DEF BinGoals, BinRest
    <3>. QED
      BY <3>1, <3>2, <3>3, <3>4, <3>5
  <2>2. CASE /\ bin.at = "trying" /\ bin' = [bin EXCEPT !.fails = @ \cup {p}]
           /\ UNCHANGED <<holding, placing, pointing, swept, leftover, unasked>>
    <3>1. BinTypeOK'
      <4>1. bin' \in BinGoals
        <5>1. bin.fails \cup {p} \in SUBSET Places
          BY <1>a, <1>10 DEF BinGoals
        <5>. QED
          BY <1>a, <2>2, <5>1 DEF BinGoals
      <4>2. BinRest'
        BY <1>a, <2>2 DEF BinRest
      <4>. QED
        BY <1>c, <4>1, <4>2
    <3>2. PosesInv'
      BY <1>a, <2>2 DEF BinGoals, BinRest
    <3>3. PartInv'
      BY <1>a, <2>2 DEF BinGoals, BinRest
    <3>4. PointedInv' /\ SweptAsPointed'
      BY <1>a, <2>2 DEF BinGoals, BinRest
    <3>5. BinGivenUpLast'
      BY <1>a, <2>2 DEF BinGoals, BinRest
    <3>. QED
      BY <3>1, <3>2, <3>3, <3>4, <3>5
  <2>3. CASE PickAborted("depart") /\ UNCHANGED holding
    BY <1>10, <2>3, PickAbortedKeeps DEF TryPose
  <2>4. CASE PickAborted("verify") /\ UNCHANGED holding
    BY <1>10, <2>4, PickAbortedKeeps DEF TryPose
  <2>5. CASE /\ bin.at = "trying" /\ bin.tries + 1 # (IF bin.fine THEN 1 ELSE MaxAttempts)
           /\ bin' = [bin EXCEPT !.fails = @ \cup {p}, !.tries = @ + 1]
           /\ UNCHANGED <<holding, placing, pointing, swept, leftover, unasked>>
    <3>1. BinTypeOK'
      <4>1. bin' \in BinGoals
        <5>1. bin.fails \cup {p} \in SUBSET Places
          BY <1>a, <1>10 DEF BinGoals
        <5>2. bin.tries + 1 \in 0 .. MaxAttempts
          BY <1>a, <2>5 DEF BinGoals
        <5>. QED
          BY <1>a, <2>5, <5>1, <5>2 DEF BinGoals
      <4>2. BinRest'
        BY <1>a, <2>5 DEF BinRest
      <4>. QED
        BY <1>c, <4>1, <4>2
    <3>2. PosesInv'
      BY <1>a, <2>5 DEF BinGoals, BinRest
    <3>3. PartInv'
      BY <1>a, <2>5 DEF BinGoals, BinRest
    <3>4. PointedInv' /\ SweptAsPointed'
      BY <1>a, <2>5 DEF BinGoals, BinRest
    <3>5. BinGivenUpLast'
      BY <1>a, <2>5 DEF BinGoals, BinRest
    <3>. QED
      BY <3>1, <3>2, <3>3, <3>4, <3>5
  <2>6. CASE /\ bin.at = "trying" /\ bin.cancelled /\ holding' \in BOOLEAN
           /\ bin' = NoBinTask /\ leftover' = (leftover \/ holding')
           /\ UNCHANGED <<placing, pointing, swept, unasked>>
    <3>1. BinTypeOK'
      <4>1. bin' \in BinGoals
        BY <2>6, NoBinTaskTyped
      <4>2. BinRest'
        BY <1>a, <2>6 DEF BinRest
      <4>. QED
        BY <1>c, <4>1, <4>2
    <3>2. PosesInv'
      BY <1>a, <2>6 DEF NoBinTask, BinRest
    <3>3. PartInv'
      BY <1>a, <2>6 DEF NoBinTask, BinRest
    <3>4. PointedInv' /\ SweptAsPointed'
      BY <1>a, <2>6 DEF NoBinTask, BinRest
    <3>5. BinGivenUpLast'
      BY <1>a, <2>6 DEF NoBinTask, BinRest
    <3>. QED
      BY <3>1, <3>2, <3>3, <3>4, <3>5
  <2>. QED
    BY <1>10, <2>1, <2>2, <2>3, <2>4, <2>5, <2>6 DEF TryPose
<1>11. CASE NoPoseLeft
  <2>1. CASE /\ bin.at = "trying" /\ bin.fine /\ bin.poses \subseteq bin.fails
           /\ bin' = [bin EXCEPT !.at = "go_back_home"]
           /\ UNCHANGED <<holding, placing, pointing, swept, leftover, unasked>>
    <3>1. BinTypeOK'
      <4>1. bin' \in BinGoals
        BY <1>a, <1>b, <2>1 DEF BinGoals, BinStages, BinMotions
      <4>2. BinRest'
        BY <1>a, <2>1 DEF BinRest
      <4>. QED
        BY <1>c, <4>1, <4>2
    <3>2. PosesInv'
      BY <1>a, <2>1 DEF BinGoals, BinRest
    <3>3. PartInv'
      BY <1>a, <2>1 DEF BinGoals, BinRest
    <3>4. PointedInv' /\ SweptAsPointed'
      BY <1>a, <2>1 DEF BinGoals, BinRest
    <3>5. BinGivenUpLast'
      BY <1>a, <2>1 DEF BinGoals, BinRest
    <3>. QED
      BY <3>1, <3>2, <3>3, <3>4, <3>5
  <2>2. CASE UseFine
    BY <1>11, <2>2, UseFineKeeps DEF NoPoseLeft
  <2>. QED
    BY <1>11, <2>1, <2>2 DEF NoPoseLeft
<1>12. CASE BeginPlace
  <2>1. CASE /\ bin.at = "place" /\ ~ bin.cancelled /\ placing' = "begun"
           /\ bin' = [bin EXCEPT !.at = IF bin.eye THEN "wait" ELSE "approaching"]
           /\ UNCHANGED <<holding, pointing, swept, leftover, unasked>>
    <3>1. BinTypeOK'
      <4>1. bin' \in BinGoals
        BY <1>a, <1>b, <2>1 DEF BinGoals, BinStages, BinMotions
      <4>2. BinRest'
        BY <1>a, <2>1 DEF BinRest
      <4>. QED
        BY <1>c, <4>1, <4>2
    <3>2. PosesInv'
      BY <1>a, <2>1 DEF BinGoals, BinRest
    <3>3. PartInv'
      BY <1>a, <2>1 DEF BinGoals, BinRest
    <3>4. PointedInv' /\ SweptAsPointed'
      BY <1>a, <2>1 DEF BinGoals, BinRest
    <3>5. BinGivenUpLast'
      BY <1>a, <2>1 DEF BinGoals, BinRest
    <3>. QED
      BY <3>1, <3>2, <3>3, <3>4, <3>5
  <2>2. CASE EndBinTask
    BY <1>12, <2>2, BinEnds DEF BeginPlace
  <2>. QED
    BY <1>12, <2>1, <2>2 DEF BeginPlace
<1>13. CASE PlaceApproaches
  <2>0. bin.at = "approaching" /\ placing # "begun"
        /\ bin' = [bin EXCEPT !.at = "search_next"] /\ UNCHANGED <<holding, placing, pointing, swept, leftover, unasked>>
    BY <1>13, <1>a DEF PlaceApproaches
  <2>1. BinTypeOK'
    <3>1. bin' \in BinGoals
      BY <1>a, <1>b, <2>0 DEF BinGoals, BinStages, BinMotions
    <3>2. BinRest'
      BY <1>a, <2>0 DEF BinRest
    <3>. QED
      BY <1>c, <3>1, <3>2
  <2>2. PosesInv'
    BY <1>a, <2>0 DEF BinGoals, BinRest
  <2>3. PartInv'
    BY <1>a, <2>0 DEF BinGoals, BinRest
  <2>4. PointedInv' /\ SweptAsPointed'
    BY <1>a, <2>0 DEF BinGoals, BinRest
  <2>5. BinGivenUpLast'
    BY <1>a, <2>0 DEF BinGoals, BinRest
  <2>. QED
    BY <2>1, <2>2, <2>3, <2>4, <2>5
<1>14. CASE AwaitPlace
  <2>1. CASE /\ bin.at = "wait" /\ placing \notin {"begun", "approached", "failed"}
           /\ placing' = "none"
           /\ bin' = [[bin EXCEPT !.known = ~ bin.eye /\ @]
                        EXCEPT !.at = IF bin.all THEN "loop" ELSE "go_back_home"]
           /\ UNCHANGED <<holding, pointing, swept, leftover, unasked>>
    <3>1. BinTypeOK'
      <4>1. bin' \in BinGoals
        BY <1>a, <1>b, <2>1 DEF BinGoals, BinStages, BinMotions
      <4>2. BinRest'
        BY <1>a, <2>1 DEF BinRest
      <4>. QED
        BY <1>c, <4>1, <4>2
    <3>2. PosesInv'
      BY <1>a, <2>1 DEF BinGoals, BinRest
    <3>3. PartInv'
      BY <1>a, <2>1 DEF BinGoals, BinRest
    <3>4. PointedInv' /\ SweptAsPointed'
      BY <1>a, <2>1 DEF BinGoals, BinRest
    <3>5. BinGivenUpLast'
      BY <1>a, <2>1 DEF BinGoals, BinRest
    <3>. QED
      BY <3>1, <3>2, <3>3, <3>4, <3>5
  <2>2. CASE EndBinTask
    BY <1>14, <2>2, BinEnds DEF AwaitPlace, Again
  <2>. QED
    BY <1>14, <2>1, <2>2 DEF AwaitPlace, Again
<1>15. CASE ReadyToSweep
  <2>1. CASE /\ bin.at = "go_to_sweep_ready"
           /\ bin' = [bin EXCEPT !.at = "request_help"]
           /\ pointing' = [pointing EXCEPT !.of = IF @ = "own" THEN "old" ELSE @]
           /\ UNCHANGED <<holding, placing, swept, leftover, unasked>>
    <3>1. BinTypeOK'
      <4>1. bin' \in BinGoals
        BY <1>a, <1>b, <2>1 DEF BinGoals, BinStages, BinMotions
      <4>2. BinRest'
        BY <1>a, <2>1 DEF BinRest
      <4>. QED
        BY <1>c, <4>1, <4>2
    <3>2. PosesInv'
      BY <1>a, <2>1 DEF BinGoals, BinRest
    <3>3. PartInv'
      BY <1>a, <2>1 DEF BinGoals, BinRest
    <3>4. PointedInv' /\ SweptAsPointed'
      BY <1>a, <2>1 DEF BinGoals, BinRest
    <3>5. BinGivenUpLast'
      BY <1>a, <2>1 DEF BinGoals, BinRest
    <3>. QED
      BY <3>1, <3>2, <3>3, <3>4, <3>5
  <2>2. CASE EndBinTask /\ UNCHANGED pointing
    BY <1>15, <2>2, BinEnds DEF ReadyToSweep
  <2>. QED
    BY <1>15, <2>1, <2>2 DEF ReadyToSweep
<1>16. CASE Answered
  <2>0. /\ bin.at = "request_help" /\ pointing.of # "none"
        /\ pointing' = [of |-> "none", answers |-> FALSE]
        /\ \/ bin' = [bin EXCEPT !.at = "sweep"] /\ swept' = pointing.of
           \/ UNCHANGED <<bin, swept>>
        /\ UNCHANGED <<holding, placing, leftover, unasked>>
    BY <1>16, <1>a DEF Answered
  <2>1. BinTypeOK'
    <3>1. bin' \in BinGoals
      BY <1>a, <1>b, <2>0 DEF BinGoals, BinStages, BinMotions
    <3>2. BinRest'
      BY <1>a, <2>0 DEF BinRest
    <3>. QED
      BY <1>c, <3>1, <3>2
  <2>2. PosesInv'
    BY <1>a, <2>0 DEF BinGoals, BinRest
  <2>3. PartInv'
    BY <1>a, <2>0 DEF BinGoals, BinRest
  <2>4. PointedInv' /\ SweptAsPointed'
    BY <1>a, <2>0 DEF BinGoals, BinRest
  <2>5. BinGivenUpLast'
    BY <1>a, <2>0 DEF BinGoals, BinRest
  <2>. QED
    BY <2>1, <2>2, <2>3, <2>4, <2>5
<1>17. CASE Sweep
  <2>1. CASE /\ bin.at = "sweep" /\ swept' = "none"
           /\ bin' = [bin EXCEPT !.at = IF bin.all THEN "loop" ELSE "go_back_home"]
           /\ UNCHANGED <<holding, placing, pointing, leftover, unasked>>
    <3>1. BinTypeOK'
      <4>1. bin' \in BinGoals
        BY <1>a, <1>b, <2>1 DEF BinGoals, BinStages, BinMotions
      <4>2. BinRest'
        BY <1>a, <2>1 DEF BinRest
      <4>. QED
        BY <1>c, <4>1, <4>2
    <3>2. PosesInv'
      BY <1>a, <2>1 DEF BinGoals, BinRest
    <3>3. PartInv'
      BY <1>a, <2>1 DEF BinGoals, BinRest
    <3>4. PointedInv' /\ SweptAsPointed'
      BY <1>a, <2>1 DEF BinGoals, BinRest
    <3>5. BinGivenUpLast'
      BY <1>a, <2>1 DEF BinGoals, BinRest
    <3>. QED
      BY <3>1, <3>2, <3>3, <3>4, <3>5
  <2>2. CASE EndBinTask
    BY <1>17, <2>2, BinEnds DEF Sweep, Again
  <2>. QED
    BY <1>17, <2>1, <2>2 DEF Sweep, Again
<1>18. CASE GoBackHome
  BY <1>18, BinEnds DEF GoBackHome
<1>19. CASE PlaceGoesOn
  <2>0. /\ UNCHANGED <<bin, pointing, swept, leftover, unasked>>
        /\ placing \in {"begun", "approached"}
        /\ \/ placing = "begun" /\ placing' = "approached" /\ UNCHANGED holding
           \/ placing = "approached" /\ placing' = "done" /\ holding' = FALSE
           \/ placing' = "failed" /\ holding' \in {holding, FALSE}
    BY <1>19, <1>a DEF PlaceGoesOn
  <2>1. BinTypeOK'
    <3>1. bin' \in BinGoals
      BY <1>a, <1>b, <2>0 DEF BinGoals, BinStages, BinMotions
    <3>2. BinRest'
      BY <1>a, <2>0 DEF BinRest
    <3>. QED
      BY <1>c, <3>1, <3>2
  <2>2. PosesInv'
    BY <1>a, <2>0 DEF BinGoals, BinRest
  <2>3. PartInv'
    BY <1>a, <2>0 DEF BinGoals, BinRest
  <2>4. PointedInv' /\ SweptAsPointed'
    BY <1>a, <2>0 DEF BinGoals, BinRest
  <2>5. BinGivenUpLast'
    BY <1>a, <2>0 DEF BinGoals, BinRest
  <2>. QED
    BY <2>1, <2>2, <2>3, <2>4, <2>5
<1>20. ASSUME NEW answers \in BOOLEAN, Point(answers) PROVE BinInv'
  <2>0. /\ pointing' = [of |-> IF bin.at = "request_help" THEN "own" ELSE "old", answers |-> answers]
        /\ unasked' = (unasked \/ ~ bin.at = "request_help")
        /\ UNCHANGED <<bin, holding, placing, swept, leftover>>
    BY <1>20, <1>a DEF Point
  <2>1. BinTypeOK'
    <3>1. bin' \in BinGoals
      BY <1>a, <1>b, <2>0 DEF BinGoals, BinStages, BinMotions
    <3>2. BinRest'
      BY <1>a, <2>0 DEF BinRest
    <3>. QED
      BY <1>c, <3>1, <3>2
  <2>2. PosesInv'
    BY <1>a, <2>0 DEF BinGoals, BinRest
  <2>3. PartInv'
    BY <1>a, <2>0 DEF BinGoals, BinRest
  <2>4. PointedInv' /\ SweptAsPointed'
    BY <1>a, <2>0 DEF BinGoals, BinRest
  <2>5. BinGivenUpLast'
    BY <1>a, <2>0 DEF BinGoals, BinRest
  <2>. QED
    BY <2>1, <2>2, <2>3, <2>4, <2>5
<1>21. CASE UNCHANGED binVars
  BY <1>21 DEF binVars, BinTypeOK
<1>. QED
  BY <1>1, <1>2, <1>3, <1>4, <1>5, <1>6, <1>7, <1>8, <1>9, <1>10, <1>11, <1>12, <1>13, <1>14, <1>15, <1>16, <1>17, <1>18, <1>19, <1>20, <1>21 DEF BinNext, BinStep

\* The invariant of the task for bins holds.
THEOREM BinInvariant == BinSpec => []BinInv
  BY BinInitInv, BinStepInv, PTL DEF BinSpec

\* A goal for a bin is in a stage that its server has, with no more attempts than
\* are allowed.
THEOREM BinTypeCorrect == BinSpec => []BinTypeOK
<1>1. BinInv => BinTypeOK
  BY DEF BinInv
<1>. QED
  BY <1>1, BinInvariant, PTL

\* A goal to empty a bin succeeds only if the last search was one with fine
\* parameters and none of the poses that it found could be reached.
THEOREM FineIsTriedLast == BinSpec => []BinGivenUpLast
<1>1. BinInv => BinGivenUpLast
  BY DEF BinInv
<1>. QED
  BY <1>1, BinInvariant, PTL

\* Unless an earlier goal left a part, the robot is moved only when no part is on
\* its way, and picks with an empty gripper.
THEOREM RobotIsFree == BinSpec => []RobotFree
<1>1. BinInv => RobotFree
  BY DEF BinInv, BinTypeOK, PartInv, RobotFree, BinAt, OnItsWay, BinMotions
<1>. QED
  BY <1>1, BinInvariant, PTL

\* A part is swept in the direction that was pointed out for it, unless the
\* operator points when nothing is asked.
THEOREM SweepsFollowAnswers == BinSpec => []SweptAsPointed
<1>1. BinInv => SweptAsPointed
  BY DEF BinInv
<1>. QED
  BY <1>1, BinInvariant, PTL

-----------------------------------------------------------------------------
(* The goals of the nodes, as their clients see them.                      *)

\* A goal that is pending waits, and the callback that stops what is done for
\* a goal is on its way to cancel it.
ClientStatus(g) ==
  CASE status[g] = "pending" -> "executing"
    [] status[g] = "active" ->
         IF g = current /\ server.at = "stopped" THEN "canceling" ELSE "executing"
    [] status[g] = "preempted" -> "canceled"
    [] OTHER -> status[g]
Pursued == IF IsActive THEN current ELSE NoGoal
Pending == IF server.goal # NoGoal /\ status[server.goal] = "pending" THEN server.goal ELSE NoGoal

Served == INSTANCE ActionGoals WITH
  status <- [g \in Goals |-> ClientStatus(g)], current <- Pursued, waiting <- Pending

\* Where the callback for a goal is before and after it accepts it
ServedInv(before, after) ==
  /\ server.at = "idle" => server.goal = NoGoal
  /\ server.at \in {"preempt", "stopped"} => IsActive
  /\ server.at \in before => ~ IsActive /\ server.goal # NoGoal
  /\ server.at \in after => server.goal = current /\ IsActive
  /\ server.at \notin after /\ server.goal # NoGoal => status[server.goal] = "pending"
  /\ current # NoGoal => status[current] \notin {"none", "pending"}

\* What the callbacks do, and the worker when it sets a result
Serves(before, after) ==
  \/ \E g \in Goals : RequestGoal(g)
  \/ RequestCancel
  \/ ServerGoes("preempt", "stopped") /\ UNCHANGED <<status, current>>
  \/ SetPreempted("stopped")
  \/ \E here, there \in before : ServerGoes(here, there) /\ UNCHANGED <<status, current>>
  \/ \E here \in before : AcceptNewGoal(here)
  \/ \E here, there \in after : ServerGoes(here, there) /\ UNCHANGED <<status, current>>
  \/ \E here \in after : /\ ServerReturns(here)
                         /\ UNCHANGED status \/ End(current, "aborted")
                         /\ UNCHANGED current
  \/ \E how \in {"succeeded", "aborted"} : SetResult(how) /\ UNCHANGED <<current, server>>
  \/ UNCHANGED <<status, current, server>>

\* Every step of the server is one of the abstract goals or not seen by clients.
LEMMA ServesGoals ==
  ASSUME NEW before, NEW after, ServerTypeOK, ServedInv(before, after),
         "goal" \in before, "accepted" \in after, before \cap after = {},
         before \cup after \subseteq {"goal", "init", "accepted"},
         Serves(before, after)
  PROVE  ServedInv(before, after)' /\ [Served!GoalsNext]_(Served!goalVars)
<1>. DEFINE Seen == [g \in Goals |-> ClientStatus(g)]
<1>1. /\ status \in [Goals -> {"none", "pending", "active", "succeeded", "aborted", "preempted"}]
      /\ current \in Goals \cup {NoGoal} /\ NoGoal \notin Goals
      /\ server \in [at : {"idle", "preempt", "stopped", "goal", "accepted", "init"},
                     goal : Goals \cup {NoGoal}]
  BY ServerAssumption DEF ServerTypeOK
<1>2. SUFFICES ServedInv(before, after)'
               /\ (Served!GoalsNext \/ (Seen' = Seen /\ Pursued' = Pursued /\ Pending' = Pending))
  BY DEF Served!goalVars
<1>3. CASE \E g \in Goals : RequestGoal(g)
  <2>1. PICK g \in Goals : RequestGoal(g)
    BY <1>3
  <2>2. /\ server.at = "idle" /\ server.goal = NoGoal /\ status[g] = "none"
        /\ status' = [status EXCEPT ![g] = "pending"] /\ current' = current /\ g # current
        /\ server' = [at |-> IF IsActive THEN "preempt" ELSE "goal", goal |-> g]
    BY <1>1, <2>1 DEF RequestGoal, End, ServedInv
  <2>3. IsActive' = IsActive
    BY <1>1, <2>2 DEF IsActive
  <2>4. ServedInv(before, after)'
    BY <1>1, <2>2, <2>3 DEF ServedInv
  <2>5. Seen' = [Seen EXCEPT ![g] = "executing"] /\ Seen[g] = "none"
    BY <1>1, <2>2 DEF ClientStatus
  <2>6. Pursued' = Pursued /\ Pending = NoGoal /\ Pending' = g
    BY <1>1, <2>2, <2>3 DEF Pursued, Pending
  <2>. QED
    BY <2>4, <2>5, <2>6 DEF Served!GoalsNext, Served!Accept
<1>4. CASE RequestCancel
  <2>1. /\ IsActive /\ server.at = "idle" /\ server' = [server EXCEPT !.at = "preempt"]
        /\ status' = status /\ current' = current
    BY <1>4 DEF RequestCancel, ServerGoes
  <2>2. ServedInv(before, after)'
    BY <1>1, <2>1 DEF ServedInv, IsActive
  <2>3. Seen' = Seen /\ Pursued' = Pursued /\ Pending' = Pending
    BY <1>1, <2>1 DEF ClientStatus, Pursued, Pending, IsActive
  <2>. QED
    BY <2>2, <2>3
<1>5. CASE ServerGoes("preempt", "stopped") /\ UNCHANGED <<status, current>>
  <2>1. /\ IsActive /\ server.at = "preempt" /\ server' = [server EXCEPT !.at = "stopped"]
        /\ status' = status /\ current' = current
    BY <1>5 DEF ServerGoes, ServedInv
  <2>2. ServedInv(before, after)'
    BY <1>1, <2>1 DEF ServedInv, IsActive
  <2>3. Seen' = [Seen EXCEPT ![current] = "canceling"] /\ Seen[current] = "executing"
    BY <1>1, <2>1 DEF ClientStatus, IsActive
  <2>4. Pursued' = Pursued /\ Pending' = Pending /\ current \in Goals
    BY <1>1, <2>1 DEF Pursued, Pending, IsActive
  <2>. QED
    BY <2>2, <2>3, <2>4 DEF Served!GoalsNext, Served!Cancel
<1>6. CASE SetPreempted("stopped")
  <2>1. /\ IsActive /\ server.at = "stopped" /\ current' = current
        /\ status' = [status EXCEPT ![current] = "preempted"]
        /\ server' = [at |-> IF server.goal = NoGoal THEN "idle" ELSE "goal", goal |-> server.goal]
    BY <1>1, <1>6 DEF SetPreempted, ServerGoes, ServerReturns, End, ServedInv
  <2>2. current \in Goals /\ status[current] = "active" /\ server.goal # current /\ ~ IsActive'
    BY <1>1, <2>1 DEF IsActive, ServedInv
  <2>3. ServedInv(before, after)'
    BY <1>1, <2>1, <2>2 DEF ServedInv
  <2>4. Seen' = [Seen EXCEPT ![current] = "canceled"] /\ Seen[current] = "canceling"
    BY <1>1, <2>1, <2>2 DEF ClientStatus
  <2>5. Pursued = current /\ Pursued' = NoGoal /\ Pending' = Pending
    BY <1>1, <2>1, <2>2 DEF Pursued, Pending
  <2>. QED
    BY <1>1, <2>2, <2>3, <2>4, <2>5
    DEF Served!GoalsNext, Served!Finish, Served!Ended, Served!Active
<1>7. CASE \E here \in before : AcceptNewGoal(here)
  <2>1. /\ server.at \in before /\ current' = server.goal
        /\ status' = [status EXCEPT ![server.goal] = "active"]
        /\ server' = [server EXCEPT !.at = "accepted"]
    BY <1>7 DEF AcceptNewGoal, ServerGoes, End
  <2>2. /\ ~ IsActive /\ server.goal \in Goals /\ status[server.goal] = "pending"
        /\ server.at \notin {"preempt", "stopped", "accepted"}
    BY <1>1, <2>1 DEF ServedInv
  <2>3. IsActive'
    BY <1>1, <2>1, <2>2 DEF IsActive
  <2>4. ServedInv(before, after)'
    BY <1>1, <2>1, <2>2, <2>3 DEF ServedInv
  <2>5. Seen' = Seen
    BY <1>1, <2>1, <2>2 DEF ClientStatus
  <2>6. Pursued = NoGoal /\ Pursued' = server.goal /\ Pending = server.goal /\ Pending' = NoGoal
    BY <1>1, <2>1, <2>2, <2>3 DEF Pursued, Pending
  <2>. QED
    BY <1>1, <2>2, <2>4, <2>5, <2>6 DEF Served!GoalsNext, Served!Start
<1>8. CASE \E here \in after : /\ ServerReturns(here)
                               /\ End(current, "aborted")
                               /\ UNCHANGED current
  <2>1. /\ IsActive /\ server.at \in after /\ server.goal = current /\ current' = current
        /\ status' = [status EXCEPT ![current] = "aborted"]
        /\ server' = [at |-> "idle", goal |-> NoGoal]
    BY <1>8 DEF ServerReturns, End, ServedInv
  <2>2. current \in Goals /\ status[current] = "active" /\ ~ IsActive' /\ server.at # "stopped"
    BY <1>1, <2>1 DEF IsActive
  <2>3. ServedInv(before, after)'
    BY <1>1, <2>1, <2>2 DEF ServedInv
  <2>4. Seen' = [Seen EXCEPT ![current] = "aborted"] /\ Seen[current] = "executing"
    BY <1>1, <2>1, <2>2 DEF ClientStatus
  <2>5. Pursued = current /\ Pursued' = NoGoal /\ Pending' = Pending
    BY <1>1, <2>1, <2>2 DEF Pursued, Pending
  <2>. QED
    BY <1>1, <2>2, <2>3, <2>4, <2>5
    DEF Served!GoalsNext, Served!Finish, Served!Ended, Served!Active
<1>9. CASE \E how \in {"succeeded", "aborted"} :
             SetResult(how) /\ IsActive /\ UNCHANGED <<current, server>>
  <2>1. PICK how \in {"succeeded", "aborted"} :
          /\ IsActive /\ server.at = "idle" /\ current' = current /\ server' = server
          /\ status' = [status EXCEPT ![current] = how]
    BY <1>9 DEF SetResult, End
  <2>2. current \in Goals /\ status[current] = "active" /\ ~ IsActive' /\ server.goal = NoGoal
    BY <1>1, <2>1 DEF IsActive, ServedInv
  <2>3. ServedInv(before, after)'
    BY <1>1, <2>1, <2>2 DEF ServedInv
  <2>4. Seen' = [Seen EXCEPT ![current] = how] /\ Seen[current] = "executing"
    BY <1>1, <2>1, <2>2 DEF ClientStatus
  <2>5. Pursued = current /\ Pursued' = NoGoal /\ Pending' = Pending
    BY <1>1, <2>1, <2>2 DEF Pursued, Pending
  <2>. QED
    BY <1>1, <2>2, <2>3, <2>4, <2>5
    DEF Served!GoalsNext, Served!Finish, Served!Ended, Served!Active
<1>10. CASE UNCHANGED <<status, current>> /\ \/ \E here, there \in before : ServerGoes(here, there)
                                             \/ \E here, there \in after : ServerGoes(here, there)
                                             \/ \E here \in after : ServerReturns(here)
                                             \/ UNCHANGED server
  <2>1. /\ status' = status /\ current' = current /\ IsActive' = IsActive
        /\ \/ server.at \in before /\ \E there \in before : server' = [server EXCEPT !.at = there]
           \/ server.at \in after /\ \E there \in after : server' = [server EXCEPT !.at = there]
           \/ server.at \in after /\ server' = [at |-> "idle", goal |-> NoGoal]
           \/ server' = server
    BY <1>10 DEF ServerGoes, ServerReturns, IsActive
  <2>2. ServedInv(before, after)'
    BY <1>1, <2>1 DEF ServedInv
  <2>3. Seen' = Seen
    <3>1. server'.at = "stopped" <=> server.at = "stopped"
      BY <1>1, <2>1
    <3>. QED
      BY <1>1, <2>1, <3>1 DEF ClientStatus
  <2>4. Pending' = Pending
    BY <1>1, <2>1 DEF Pending, ServedInv, IsActive
  <2>5. Pursued' = Pursued
    BY <2>1 DEF Pursued
  <2>. QED
    BY <2>2, <2>3, <2>4, <2>5
<1>11. CASE \E how \in {"succeeded", "aborted"} :
              SetResult(how) /\ ~ IsActive /\ UNCHANGED <<current, server>>
  BY <1>10, <1>11 DEF SetResult
<1>. QED
  BY <1>3, <1>4, <1>5, <1>6, <1>7, <1>8, <1>9, <1>10, <1>11 DEF Serves

LEMMA ServerServes ==
  ASSUME NEW before, NEW after, ServerInit, "goal" \in before, "accepted" \in after,
         before \cup after \subseteq {"goal", "init", "accepted"}
  PROVE  ServedInv(before, after) /\ Served!GoalsInit
<1>1. ServedInv(before, after)
  BY ServerAssumption DEF ServerInit, ServedInv, IsActive
<1>2. Served!GoalsInit
  BY ServerAssumption DEF ServerInit, Served!GoalsInit, ClientStatus, Pursued, Pending, IsActive
<1>. QED
  BY <1>1, <1>2

\* What the clients of the pose tracking servo see of their goals is what
\* ActionGoals promises: a goal waits for the one before it to end, and ends
\* once, as canceled only if it was preempted.
THEOREM TrackingImplementsGoals == TrackingSpec => Served!GoalsSpec
<1>. DEFINE Inv == ServedInv({"goal", "init"}, {"accepted"})
<1>1. TrackingInit => Inv /\ Served!GoalsInit
  BY ServerServes DEF TrackingInit
<1>2. TrackingTypeOK /\ Inv /\ [TrackingNext]_trackingVars
        => Inv' /\ [Served!GoalsNext]_(Served!goalVars)
  <2>. SUFFICES ASSUME TrackingTypeOK, Inv, [TrackingNext]_trackingVars
                PROVE  Serves({"goal", "init"}, {"accepted"})
    BY ServesGoals DEF TrackingTypeOK
  <2>1. CASE TrackRequest
    BY <2>1 DEF TrackRequest, Serves
  <2>2. CASE TrackServer
    BY <2>2 DEF TrackServer, PreemptStop, TrackPreempted, ResetForGoal, AcceptGoal,
                GoalCallbackReturns, Serves
  <2>3. CASE Tick
    <3>1. CASE TickFinish
      <4>1. /\ \E how \in {"succeeded", "aborted"} : SetResult(how)
            /\ UNCHANGED <<current, server>>
        BY <3>1 DEF TickFinish
      <4>. QED
        BY <4>1 DEF Serves
    <3>2. CASE ~ TickFinish
      <4>1. UNCHANGED <<status, current, server>>
        BY <2>3, <3>2 DEF Tick, TickBegin, CheckStatus, LookAtInput, ComputeError, CountFrame,
                          CheckFrames, Command, TickStop
      <4>. QED
        BY <4>1 DEF Serves
    <3>. QED
      BY <3>1, <3>2
  <2>4. CASE Outside \/ UNCHANGED trackingVars
    BY <2>4 DEF Outside, trackingVars, serverVars, Serves
  <2>. QED
    BY <2>1, <2>2, <2>3, <2>4 DEF TrackingNext
<1>. QED
  BY <1>1, <1>2, TrackingTypeCorrect, PTL DEF TrackingSpec, Served!GoalsSpec

\* The same of the trackers of joints, which abort a goal that they cannot
\* initialise, too.
THEOREM JointImplementsGoals == JointSpec => Served!GoalsSpec
<1>. DEFINE Inv == ServedInv({"goal"}, {"accepted", "init"})
<1>1. JointInit => Inv /\ Served!GoalsInit
  BY ServerServes DEF JointInit
<1>2. JointTypeOK /\ Inv /\ [JointNext]_<<serverVars, jointVars>>
        => Inv' /\ [Served!GoalsNext]_(Served!goalVars)
  <2>. SUFFICES ASSUME JointTypeOK, Inv, [JointNext]_<<serverVars, jointVars>>
                PROVE  Serves({"goal"}, {"accepted", "init"})
    BY ServesGoals DEF JointTypeOK
  <2>1. CASE JointRequest
    BY <2>1 DEF JointRequest, Serves
  <2>2. CASE JointServer
    BY <2>2 DEF JointServer, StopTrajectory, JointPreempted, JointAccept, InitChain, InitAborts,
                InitSolvers, Serves
  <2>3. CASE StateCallback
    BY <2>3 DEF StateCallback, ReadState, LookWhetherActive, UpdateWithoutSolvers, UpdateThrows,
                UpdateOverruns, UpdateAndPublish, AbortTracking, Serves
  <2>4. CASE UNCHANGED <<serverVars, jointVars>>
    BY <2>4 DEF serverVars, Serves
  <2>. QED
    BY <2>1, <2>2, <2>3, <2>4 DEF JointNext
<1>. QED
  BY <1>1, <1>2, JointTypeCorrect, PTL DEF JointSpec, Served!GoalsSpec

\* No goal is forgotten and none is left over: what a client is told to be going
\* on is pursued, or waits for the goal before it.
NoneForgotten ==
  \A g \in Goals : ClientStatus(g) \in {"executing", "canceling"} <=> g \in {Pursued, Pending}
PursuedAlone == Pursued # NoGoal => Pursued # Pending

LEMMA GoalsAreKept ==
  /\ Served!GoalsInit => NoneForgotten /\ PursuedAlone
  /\ NoneForgotten /\ PursuedAlone /\ [Served!GoalsNext]_(Served!goalVars)
       => NoneForgotten' /\ PursuedAlone'
<1>1. PICK S, T : S = [g \in Goals |-> ClientStatus(g)] /\ T = [g \in Goals |-> ClientStatus(g)]'
  OBVIOUS
<1>2. /\ NoneForgotten <=>
           \A g \in Goals : S[g] \in {"executing", "canceling"} <=> g \in {Pursued, Pending}
      /\ NoneForgotten' <=>
           \A g \in Goals : T[g] \in {"executing", "canceling"} <=> g \in {Pursued', Pending'}
      /\ PursuedAlone' <=> (Pursued' # NoGoal => Pursued' # Pending')
  BY <1>1 DEF NoneForgotten, PursuedAlone
<1>3. Served!GoalsInit => NoneForgotten /\ PursuedAlone
  BY <1>1, <1>2, ServerAssumption DEF Served!GoalsInit, PursuedAlone
<1>. SUFFICES ASSUME NoneForgotten, PursuedAlone, [Served!GoalsNext]_(Served!goalVars)
              PROVE  NoneForgotten' /\ PursuedAlone'
  BY <1>3
<1>4. CASE \E g \in Goals : Served!Accept(g)
  <2>1. PICK g \in Goals : S[g] = "none" /\ Pending = NoGoal /\ T = [S EXCEPT ![g] = "executing"]
                           /\ Pending' = g /\ Pursued' = Pursued
    BY <1>1, <1>4 DEF Served!Accept
  <2>2. g \notin {Pursued, Pending}
    BY <1>2, <2>1
  <2>3. PursuedAlone'
    BY <1>2, <2>1, <2>2 DEF PursuedAlone
  <2>4. ASSUME NEW h \in Goals
        PROVE  T[h] \in {"executing", "canceling"} <=> h \in {Pursued', Pending'}
    <3>1. CASE h = g
      BY <1>1, <2>1, <3>1
    <3>2. CASE h # g
      <4>1. T[h] = S[h] /\ h # NoGoal
        BY <1>1, <2>1, <3>2, ServerAssumption
      <4>. QED
        BY <1>2, <2>1, <3>2, <4>1
    <3>. QED
      BY <3>1, <3>2
  <2>. QED
    BY <1>2, <2>3, <2>4
<1>5. CASE \E g \in Goals : Served!Cancel(g)
  <2>1. PICK g \in Goals : S[g] = "executing" /\ T = [S EXCEPT ![g] = "canceling"]
                           /\ Pending' = Pending /\ Pursued' = Pursued
    BY <1>1, <1>5 DEF Served!Cancel
  <2>2. PursuedAlone'
    BY <1>2, <2>1 DEF PursuedAlone
  <2>3. ASSUME NEW h \in Goals
        PROVE  T[h] \in {"executing", "canceling"} <=> S[h] \in {"executing", "canceling"}
    BY <1>1, <2>1
  <2>. QED
    BY <1>2, <2>1, <2>2, <2>3
<1>6. CASE Served!Start
  <2>1. T = S /\ Pursued = NoGoal /\ Pursued' = Pending /\ Pending' = NoGoal
    BY <1>1, <1>6 DEF Served!Start
  <2>. QED
    BY <1>2, <2>1, ServerAssumption
<1>7. CASE Served!Refuse
  <2>1. /\ T = [S EXCEPT ![Pending] = "aborted"] /\ Pursued = NoGoal /\ Pending # NoGoal
        /\ Pursued' = Pursued /\ Pending' = NoGoal
    BY <1>1, <1>7 DEF Served!Refuse
  <2>. QED
    BY <1>1, <1>2, <2>1, ServerAssumption
<1>8. CASE \E how \in Served!Ended : Served!Finish(how)
  <2>1. PICK how \in {"succeeded", "aborted", "canceled"} :
          /\ T = [S EXCEPT ![Pursued] = how] /\ Pursued # NoGoal
          /\ Pursued' = NoGoal /\ Pending' = Pending
    BY <1>1, <1>8 DEF Served!Finish, Served!Ended
  <2>. QED
    BY <1>1, <1>2, <2>1, ServerAssumption DEF PursuedAlone
<1>9. CASE UNCHANGED Served!goalVars
  BY <1>1, <1>2, <1>9 DEF Served!goalVars, PursuedAlone
<1>. QED
  BY <1>4, <1>5, <1>6, <1>7, <1>8, <1>9 DEF Served!GoalsNext

\* In the servo and in the trackers of joints alike, every goal whose client is
\* waiting for a result is the one that is pursued or the one that comes next.
THEOREM NoGoalIsForgotten == TrackingSpec \/ JointSpec => []NoneForgotten
BY TrackingImplementsGoals, JointImplementsGoals, GoalsAreKept, PTL DEF Served!GoalsSpec

-----------------------------------------------------------------------------
(* The nodes and the tasks together.                                       *)

\* What one of them does leaves the others, and which it is, as they were.
LEMMA PartsAlone ==
  ASSUME [Next]_vars
  PROVE  /\ part' = part
         /\ part = "pose" => [TrackingNext]_trackingVars
         /\ part = "joint" => [JointNext]_<<serverVars, jointVars>>
         /\ part = "tools" => [ToolTaskNext]_toolTaskVars
         /\ part = "bin" => [BinNext]_binVars
<1>1. CASE Next
  BY <1>1 DEF Next, Tasks
<1>2. CASE UNCHANGED vars
  BY <1>2 DEF vars, trackingVars
<1>. QED
  BY <1>1, <1>2

\* A behaviour of the nodes and the tasks is one of the node or the task that
\* it is about, which is what the theorems above speak of: what they say of
\* each is true of all together, here that every part keeps its kinds
\* (ArmTypesOK).
THEOREM ArmTypesHold == Spec => []ArmTypesOK
<1>1. Init => /\ part = "pose" \/ part = "joint" \/ part = "tools" \/ part = "bin"
              /\ part = "pose" => TrackingInit
              /\ part = "joint" => JointInit
              /\ ToolTaskInit
              /\ BinInit
  BY DEF Init, TrackingInit, JointInit
<1>2. Spec /\ part = "pose" => []ArmTypesOK
  <2>1. part = "pose" /\ [Next]_vars => (part = "pose")' /\ [TrackingNext]_trackingVars
    BY PartsAlone
  <2>2. part = "pose" /\ TrackingTypeOK => ArmTypesOK
    BY DEF ArmTypesOK
  <2>. QED
    BY <1>1, <2>1, <2>2, TrackingTypeCorrect, PTL DEF Spec, TrackingSpec
<1>3. Spec /\ part = "joint" => []ArmTypesOK
  <2>1. part = "joint" /\ [Next]_vars => (part = "joint")' /\ [JointNext]_<<serverVars, jointVars>>
    BY PartsAlone
  <2>2. part = "joint" /\ JointTypeOK => ArmTypesOK
    BY DEF ArmTypesOK
  <2>. QED
    BY <1>1, <2>1, <2>2, JointTypeCorrect, PTL DEF Spec, JointSpec
<1>4. Spec /\ part = "tools" => []ArmTypesOK
  <2>1. part = "tools" /\ [Next]_vars => (part = "tools")' /\ [ToolTaskNext]_toolTaskVars
    BY PartsAlone
  <2>2. part = "tools" /\ ToolTaskTypeOK => ArmTypesOK
    BY DEF ArmTypesOK
  <2>. QED
    BY <1>1, <2>1, <2>2, ToolTaskTypeCorrect, PTL DEF Spec, ToolTaskSpec
<1>5. Spec /\ part = "bin" => []ArmTypesOK
  <2>1. part = "bin" /\ [Next]_vars => (part = "bin")' /\ [BinNext]_binVars
    BY PartsAlone
  <2>2. part = "bin" /\ BinTypeOK => ArmTypesOK
    BY DEF ArmTypesOK
  <2>. QED
    BY <1>1, <2>1, <2>2, BinTypeCorrect, PTL DEF Spec, BinSpec
<1>. QED
  BY <1>1, <1>2, <1>3, <1>4, <1>5, PTL DEF Spec
=============================================================================
