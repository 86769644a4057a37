--------------------------- MODULE ScrewToolProofs ---------------------------
(***************************************************************************)
(* Theorems about the screw tool controller, for any goals: the motor      *)
(* stops when no goal is left, and clients see what ActionGoals promises.  *)
(***************************************************************************)
EXTENDS ScrewToolController, TLAPS

\* What a callback that is under way relies on: the current goal is active,
\* it is there while dynamixel_states_cb holds the mutex and gone while
\* handle_accepted_cb talks to the motor for its successor.
GoalInv ==
  /\ handle # NoGoal => status[handle] \in Active
  /\ states.at \in StatesLocked => handle # NoGoal
  /\ action.at \in ActionLocked => handle = NoGoal
  /\ action.at # "idle" => action.goal \in Goals
  /\ action.at \in {"accept"} \cup ActionLocked =>
       status[action.goal] = "executing" /\ action.goal # handle

\* Where the torque is off as long as no command has failed.
MotorInv ==
  ~ failed =>
    /\ handle = NoGoal /\ action.at \notin ActionLocked => ~ motor.torque
    /\ handle # NoGoal /\ status[handle] = "canceling" => ~ motor.torque
    /\ action.at = "canceling" => ~ motor.torque

ScrewInv == ScrewTypeOK /\ GoalInv /\ MotorInv

-----------------------------------------------------------------------------
\* Initially nothing is under way and the motor is off.
LEMMA InitInv == ScrewInit => ScrewInv
<1>. SUFFICES ASSUME ScrewInit PROVE ScrewInv
  OBVIOUS
<1>1. ScrewTypeOK
  BY DEF ScrewInit, ScrewTypeOK, Statuses, Stages, Speeds, ActionLocked, StatesLocked
<1>2. GoalInv
  BY DEF ScrewInit, GoalInv, ActionLocked, StatesLocked
<1>3. MotorInv
  BY DEF ScrewInit, MotorInv
<1>. QED
  BY <1>1, <1>2, <1>3 DEF ScrewInv

\* What a command to the motor leaves behind: a motor of the same type,
\* with the torque it had or the one that was asked for.
LEMMA SendFacts ==
  ASSUME NEW g \in Goals, NEW m \in [speed : Speeds, torque : BOOLEAN],
         NEW ok \in BOOLEAN, ScrewTypeOK, Send(g, m, ok)
  PROVE  /\ motor' \in [speed : Speeds, torque : BOOLEAN]
         /\ failed' \in BOOLEAN
         /\ turned' \in [Goals -> SUBSET Speeds]
         /\ ~ failed' => ~ failed /\ ok /\ motor' = m
<1>1. motor' \in [speed : Speeds, torque : BOOLEAN]
  BY DEF Send, ScrewTypeOK
<1>2. Turning(motor') \in Speeds
  BY <1>1 DEF Turning, Speeds
<1>3. turned' \in [Goals -> SUBSET Speeds]
  BY <1>2 DEF Send, ScrewTypeOK
<1>4. failed' \in BOOLEAN /\ (~ failed' => ~ failed /\ ok /\ motor' = m)
  BY DEF Send, ScrewTypeOK
<1>. QED
  BY <1>1, <1>3, <1>4

\* The commands that are sent.
LEMMA CommandTypes ==
  ASSUME ScrewTypeOK
  PROVE  /\ \A s \in Speeds : /\ MovingSpeed(s) \in [speed : Speeds, torque : BOOLEAN]
                              /\ MovingSpeed(s).torque = motor.torque
         /\ \A on \in BOOLEAN : /\ TorqueEnable(on) \in [speed : Speeds, torque : BOOLEAN]
                                /\ TorqueEnable(on).torque = on
         /\ \A g \in Goals : SpeedOf(g) \in Speeds
BY DEF ScrewTypeOK, MovingSpeed, TorqueEnable, SpeedOf, Speeds

\* Every step keeps the invariant.
LEMMA StepInv == ScrewInv /\ [ScrewNext]_vars => ScrewInv'
<1>. SUFFICES ASSUME ScrewInv, [ScrewNext]_vars PROVE ScrewInv'
  OBVIOUS
<1>. USE ScrewAssumption
     DEF ScrewInv, goalVars, history, ActionIs, ActionAt, ActionDone,
         StatesAt, Statuses, Stages, Active, ActionLocked, StatesLocked
<1>1. ASSUME NEW g \in Goals, RequestGoal(g) PROVE ScrewInv'
  <2>1. ScrewTypeOK'
    BY <1>1 DEF RequestGoal, ScrewTypeOK, GoalInv
  <2>2. GoalInv'
    BY <1>1 DEF RequestGoal, ScrewTypeOK, GoalInv
  <2>3. MotorInv'
    BY <1>1 DEF RequestGoal, ScrewTypeOK, GoalInv, MotorInv
  <2>. QED
    BY <2>1, <2>2, <2>3
<1>2. ASSUME LockToAccept PROVE ScrewInv'
  <2>1. ScrewTypeOK'
    BY <1>2 DEF LockToAccept, ScrewTypeOK, GoalInv
  <2>2. GoalInv'
    BY <1>2 DEF LockToAccept, ScrewTypeOK, GoalInv
  <2>3. MotorInv'
    BY <1>2 DEF LockToAccept, ScrewTypeOK, GoalInv, MotorInv
  <2>. QED
    BY <2>1, <2>2, <2>3
<1>3. ASSUME TorqueOn PROVE ScrewInv'
  <2>1. PICK ok \in BOOLEAN : Send(action.goal, TorqueEnable(TRUE), ok)
    BY <1>3 DEF TorqueOn, AbortAccepted
  <2>2. action.goal \in Goals
    BY <1>3 DEF TorqueOn, AbortAccepted, ScrewTypeOK, GoalInv
  <2>3. TorqueEnable(TRUE) \in [speed : Speeds, torque : BOOLEAN]
    BY <2>2, CommandTypes DEF Speeds
  <2>4. /\ motor' \in [speed : Speeds, torque : BOOLEAN]
        /\ failed' \in BOOLEAN
        /\ turned' \in [Goals -> SUBSET Speeds]
    BY <2>1, <2>2, <2>3, SendFacts
  <2>. /\ action.at = "torque" /\ Up
       /\ \/ ActionAt("torque", "speed") /\ UNCHANGED <<goalVars, mutex, stage, elapsed>>
          \/ AbortAccepted
       /\ UNCHANGED <<states, asked>>
    BY <1>3 DEF TorqueOn
  <2>5. ScrewTypeOK'
    BY <2>2, <2>4 DEF AbortAccepted, ScrewTypeOK
  <2>6. GoalInv'
    BY <2>2 DEF AbortAccepted, ScrewTypeOK, GoalInv
  <2>7. MotorInv'
    BY <1>3 DEF TorqueOn, AbortAccepted, ScrewTypeOK,
               GoalInv, MotorInv, Send, MovingSpeed, TorqueEnable
  <2>. QED
    BY <2>5, <2>6, <2>7
<1>4. ASSUME SetSpeed PROVE ScrewInv'
  <2>1. PICK ok \in BOOLEAN : Send(action.goal, MovingSpeed(SpeedOf(action.goal)), ok)
    BY <1>4 DEF SetSpeed, AbortAccepted
  <2>2. action.goal \in Goals
    BY <1>4 DEF SetSpeed, AbortAccepted, ScrewTypeOK, GoalInv
  <2>3. MovingSpeed(SpeedOf(action.goal)) \in [speed : Speeds, torque : BOOLEAN]
    BY <2>2, CommandTypes DEF Speeds
  <2>4. /\ motor' \in [speed : Speeds, torque : BOOLEAN]
        /\ failed' \in BOOLEAN
        /\ turned' \in [Goals -> SUBSET Speeds]
    BY <2>1, <2>2, <2>3, SendFacts
  <2>. /\ action.at = "speed" /\ Up
       /\ \/ /\ handle' = action.goal /\ stage' = "ACTIVE" /\ elapsed' = FALSE
             /\ mutex' = "free" /\ ActionDone /\ UNCHANGED status
          \/ AbortAccepted
       /\ UNCHANGED <<states, asked>>
    BY <1>4 DEF SetSpeed
  <2>5. ScrewTypeOK'
    <3>1. CASE AbortAccepted
      BY <3>1, <2>2, <2>4 DEF AbortAccepted, ScrewTypeOK
    <3>2. CASE ActionDone /\ mutex' = "free" /\ UNCHANGED status
      BY <3>2, <2>2, <2>4 DEF AbortAccepted, ScrewTypeOK
    <3>. QED
      BY <3>1, <3>2
  <2>6. GoalInv'
    BY <2>2 DEF AbortAccepted, ScrewTypeOK, GoalInv
  <2>7. MotorInv'
    BY <1>4 DEF SetSpeed, AbortAccepted, ScrewTypeOK,
               GoalInv, MotorInv, Send, MovingSpeed, TorqueEnable
  <2>. QED
    BY <2>5, <2>6, <2>7
<1>5. ASSUME NEW g \in Goals, RequestCancel(g) PROVE ScrewInv'
  <2>1. ScrewTypeOK'
    BY <1>5 DEF RequestCancel, ScrewTypeOK, GoalInv
  <2>2. GoalInv'
    BY <1>5 DEF RequestCancel, ScrewTypeOK, GoalInv
  <2>3. MotorInv'
    BY <1>5 DEF RequestCancel, ScrewTypeOK, GoalInv, MotorInv
  <2>. QED
    BY <2>1, <2>2, <2>3
<1>6. ASSUME StopToCancel PROVE ScrewInv'
  <2>1. PICK ok \in BOOLEAN : Send(action.goal, MovingSpeed("stop"), ok)
    BY <1>6 DEF StopToCancel, CancelCommand
  <2>2. action.goal \in Goals
    BY <1>6 DEF StopToCancel, CancelCommand, ScrewTypeOK, GoalInv
  <2>3. MovingSpeed("stop") \in [speed : Speeds, torque : BOOLEAN]
    BY <2>2, CommandTypes DEF Speeds
  <2>4. /\ motor' \in [speed : Speeds, torque : BOOLEAN]
        /\ failed' \in BOOLEAN
        /\ turned' \in [Goals -> SUBSET Speeds]
    BY <2>1, <2>2, <2>3, SendFacts
  <2>. /\ action.at = "cancel" /\ Up
       /\ ActionAt("cancel", "loose") \/ ActionDone
       /\ UNCHANGED <<goalVars, mutex, stage, elapsed, states, asked>>
    BY <1>6 DEF StopToCancel, CancelCommand
  <2>5. ScrewTypeOK'
    BY <2>2, <2>4 DEF ScrewTypeOK
  <2>6. GoalInv'
    BY <2>2 DEF ScrewTypeOK, GoalInv
  <2>7. MotorInv'
    BY <1>6 DEF StopToCancel, CancelCommand, ScrewTypeOK,
               GoalInv, MotorInv, Send, MovingSpeed, TorqueEnable
  <2>. QED
    BY <2>5, <2>6, <2>7
<1>7. ASSUME TorqueOffToCancel PROVE ScrewInv'
  <2>1. PICK ok \in BOOLEAN : Send(action.goal, TorqueEnable(FALSE), ok)
    BY <1>7 DEF TorqueOffToCancel, CancelCommand
  <2>2. action.goal \in Goals
    BY <1>7 DEF TorqueOffToCancel, CancelCommand, ScrewTypeOK, GoalInv
  <2>3. TorqueEnable(FALSE) \in [speed : Speeds, torque : BOOLEAN]
    BY <2>2, CommandTypes DEF Speeds
  <2>4. /\ motor' \in [speed : Speeds, torque : BOOLEAN]
        /\ failed' \in BOOLEAN
        /\ turned' \in [Goals -> SUBSET Speeds]
    BY <2>1, <2>2, <2>3, SendFacts
  <2>. /\ action.at = "loose" /\ Up
       /\ ActionAt("loose", "canceling") \/ ActionDone
       /\ UNCHANGED <<goalVars, mutex, stage, elapsed, states, asked>>
    BY <1>7 DEF TorqueOffToCancel, CancelCommand
  <2>5. ScrewTypeOK'
    BY <2>2, <2>4 DEF ScrewTypeOK
  <2>6. GoalInv'
    BY <2>2 DEF ScrewTypeOK, GoalInv
  <2>7. MotorInv'
    BY <1>7 DEF TorqueOffToCancel, CancelCommand, ScrewTypeOK,
               GoalInv, MotorInv, Send, MovingSpeed, TorqueEnable
  <2>. QED
    BY <2>5, <2>6, <2>7
<1>8. ASSUME EnterCanceling PROVE ScrewInv'
  <2>1. ScrewTypeOK'
    BY <1>8 DEF EnterCanceling, ScrewTypeOK, GoalInv
  <2>2. GoalInv'
    BY <1>8 DEF EnterCanceling, ScrewTypeOK, GoalInv
  <2>3. MotorInv'
    BY <1>8 DEF EnterCanceling, ScrewTypeOK, GoalInv, MotorInv
  <2>. QED
    BY <2>1, <2>2, <2>3
<1>9. ASSUME Receive PROVE ScrewInv'
  <2>1. ScrewTypeOK'
    BY <1>9 DEF Receive, ScrewTypeOK, GoalInv
  <2>2. GoalInv'
    BY <1>9 DEF Receive, ScrewTypeOK, GoalInv
  <2>3. MotorInv'
    BY <1>9 DEF Receive, ScrewTypeOK, GoalInv, MotorInv
  <2>. QED
    BY <2>1, <2>2, <2>3
<1>10. ASSUME Enter PROVE ScrewInv'
  <2>1. ScrewTypeOK'
    BY <1>10 DEF Enter, ScrewTypeOK, GoalInv
  <2>2. GoalInv'
    BY <1>10 DEF Enter, ScrewTypeOK, GoalInv
  <2>3. MotorInv'
    BY <1>10 DEF Enter, ScrewTypeOK, GoalInv, MotorInv
  <2>. QED
    BY <2>1, <2>2, <2>3
<1>11. ASSUME Judge PROVE ScrewInv'
  <2>1. ScrewTypeOK'
    BY <1>11 DEF Judge, ScrewTypeOK, GoalInv
  <2>2. GoalInv'
    BY <1>11 DEF Judge, ScrewTypeOK, GoalInv
  <2>3. MotorInv'
    BY <1>11 DEF Judge, ScrewTypeOK, GoalInv, MotorInv
  <2>. QED
    BY <2>1, <2>2, <2>3
<1>12. ASSUME StopToTurn PROVE ScrewInv'
  <2>1. PICK ok \in BOOLEAN : Send(handle, MovingSpeed("stop"), ok)
    BY <1>12 DEF StopToTurn
  <2>2. handle \in Goals
    BY <1>12 DEF StopToTurn, ScrewTypeOK, GoalInv
  <2>3. MovingSpeed("stop") \in [speed : Speeds, torque : BOOLEAN]
    BY <2>2, CommandTypes DEF Speeds
  <2>4. /\ motor' \in [speed : Speeds, torque : BOOLEAN]
        /\ failed' \in BOOLEAN
        /\ turned' \in [Goals -> SUBSET Speeds]
    BY <2>1, <2>2, <2>3, SendFacts
  <2>5. ScrewTypeOK'
    BY <1>12, <2>2, <2>4 DEF StopToTurn, ScrewTypeOK
  <2>6. GoalInv'
    BY <1>12, <2>2 DEF StopToTurn, ScrewTypeOK, GoalInv
  <2>7. MotorInv'
    BY <1>12 DEF StopToTurn, ScrewTypeOK,
               GoalInv, MotorInv, Send, MovingSpeed, TorqueEnable
  <2>. QED
    BY <2>5, <2>6, <2>7
<1>13. ASSUME TurnRound PROVE ScrewInv'
  <2>1. PICK ok \in BOOLEAN :
          Send(handle, MovingSpeed(IF stage = "ACTIVE" THEN "backward" ELSE "forward"), ok)
    BY <1>13 DEF TurnRound
  <2>2. handle \in Goals
    BY <1>13 DEF TurnRound, ScrewTypeOK, GoalInv
  <2>3. MovingSpeed(IF stage = "ACTIVE" THEN "backward" ELSE "forward")
          \in [speed : Speeds, torque : BOOLEAN]
    BY <2>2, CommandTypes DEF Speeds
  <2>4. /\ motor' \in [speed : Speeds, torque : BOOLEAN]
        /\ failed' \in BOOLEAN
        /\ turned' \in [Goals -> SUBSET Speeds]
    BY <2>1, <2>2, <2>3, SendFacts
  <2>5. ScrewTypeOK'
    BY <1>13, <2>2, <2>4 DEF TurnRound, ScrewTypeOK
  <2>6. GoalInv'
    BY <1>13, <2>2 DEF TurnRound, ScrewTypeOK, GoalInv
  <2>7. MotorInv'
    BY <1>13 DEF TurnRound, ScrewTypeOK,
               GoalInv, MotorInv, Send, MovingSpeed, TorqueEnable
  <2>. QED
    BY <2>5, <2>6, <2>7
<1>14. ASSUME StopWhenDone PROVE ScrewInv'
  <2>1. PICK ok \in BOOLEAN : Send(handle, MovingSpeed("stop"), ok)
    BY <1>14 DEF StopWhenDone
  <2>2. handle \in Goals
    BY <1>14 DEF StopWhenDone, ScrewTypeOK, GoalInv
  <2>3. MovingSpeed("stop") \in [speed : Speeds, torque : BOOLEAN]
    BY <2>2, CommandTypes DEF Speeds
  <2>4. /\ motor' \in [speed : Speeds, torque : BOOLEAN]
        /\ failed' \in BOOLEAN
        /\ turned' \in [Goals -> SUBSET Speeds]
    BY <2>1, <2>2, <2>3, SendFacts
  <2>5. ScrewTypeOK'
    BY <1>14, <2>2, <2>4 DEF StopWhenDone, ScrewTypeOK
  <2>6. GoalInv'
    BY <1>14, <2>2 DEF StopWhenDone, ScrewTypeOK, GoalInv
  <2>7. MotorInv'
    BY <1>14 DEF StopWhenDone, ScrewTypeOK,
               GoalInv, MotorInv, Send, MovingSpeed, TorqueEnable
  <2>. QED
    BY <2>5, <2>6, <2>7
<1>15. ASSUME Succeed PROVE ScrewInv'
  <2>1. PICK ok \in BOOLEAN : Send(handle, TorqueEnable(FALSE), ok)
    BY <1>15 DEF Succeed
  <2>2. handle \in Goals
    BY <1>15 DEF Succeed, ScrewTypeOK, GoalInv
  <2>3. TorqueEnable(FALSE) \in [speed : Speeds, torque : BOOLEAN]
    BY <2>2, CommandTypes DEF Speeds
  <2>4. /\ motor' \in [speed : Speeds, torque : BOOLEAN]
        /\ failed' \in BOOLEAN
        /\ turned' \in [Goals -> SUBSET Speeds]
    BY <2>1, <2>2, <2>3, SendFacts
  <2>5. ScrewTypeOK'
    BY <1>15, <2>2, <2>4 DEF Succeed, ScrewTypeOK
  <2>6. GoalInv'
    BY <1>15, <2>2 DEF Succeed, ScrewTypeOK, GoalInv
  <2>7. MotorInv'
    BY <1>15 DEF Succeed, ScrewTypeOK,
               GoalInv, MotorInv, Send, MovingSpeed, TorqueEnable
  <2>. QED
    BY <2>5, <2>6, <2>7
<1>16. ASSUME Tick PROVE ScrewInv'
  <2>1. ScrewTypeOK'
    BY <1>16 DEF Tick, ScrewTypeOK, GoalInv
  <2>2. GoalInv'
    BY <1>16 DEF Tick, ScrewTypeOK, GoalInv
  <2>3. MotorInv'
    BY <1>16 DEF Tick, ScrewTypeOK, GoalInv, MotorInv
  <2>. QED
    BY <2>1, <2>2, <2>3
<1>17. CASE UNCHANGED vars
  BY <1>17 DEF vars, ScrewTypeOK, GoalInv, MotorInv
<1>. QED
  BY <1>1, <1>2, <1>3, <1>4, <1>5, <1>6, <1>7, <1>8, <1>9,
     <1>10, <1>11, <1>12, <1>13, <1>14, <1>15, <1>16, <1>17
     DEF ScrewNext, ActionStep, StatesStep

-----------------------------------------------------------------------------
\* The inductive invariant: types, what a callback under way relies on, and
\* where the torque is off.
THEOREM ScrewInvariant == ScrewSpec => []ScrewInv
<1>1. ScrewSafe => []ScrewInv
  BY InitInv, StepInv, PTL DEF ScrewSafe
<1>. QED
  BY <1>1, PTL DEF ScrewSpec

\* The variables keep their types, and the mutex is held exactly while one
\* of the callbacks is in its critical section.
THEOREM ScrewTypeCorrect == ScrewSpec => []ScrewTypeOK
<1>1. ScrewInv => ScrewTypeOK
  BY DEF ScrewInv
<1>. QED
  BY <1>1, ScrewInvariant, PTL

\* When no goal is left, the motor does not turn unless a command was lost,
\* whatever goals are sent, preempted and cancelled and however the
\* callbacks interleave.
THEOREM MotorStopsWhenIdle == ScrewSpec => []StopsWhenIdle
<1>1. ScrewInv => StopsWhenIdle
  BY DEF ScrewInv, MotorInv, ActionLocked, StopsWhenIdle, Turning
<1>. QED
  BY <1>1, ScrewInvariant, PTL

\* The controller implements ActionGoals: the goals that its clients see are
\* accepted, carried out one after the other, refused and ended as promised.
THEOREM ScrewImplementsGoals == ScrewSpec => GoalsSpec
<1>1. ScrewInit => ClientView!GoalsInit
  BY DEF ScrewInit, ClientView!GoalsInit, ActionLocked
<1>2. ScrewInv /\ [ScrewNext]_vars => [ClientView!GoalsNext]_(ClientView!goalVars)
  <2>. SUFFICES ASSUME ScrewInv, [ScrewNext]_vars
                PROVE  ClientView!GoalsNext \/ UNCHANGED ClientView!goalVars
    OBVIOUS
  <2>. USE ScrewAssumption
       DEF ScrewInv, ScrewTypeOK, GoalInv, goalVars, history, ActionIs, ActionAt, ActionDone,
           StatesAt, Active, ActionLocked, StatesLocked, ClientView!goalVars,
           ClientView!Active, ClientView!Ended
  <2>1. ASSUME NEW g \in Goals, RequestGoal(g) PROVE ClientView!Accept(g)
    BY <2>1 DEF RequestGoal, ClientView!Accept
  <2>2. CASE LockToAccept
    <3>1. CASE handle = NoGoal
      BY <2>2, <3>1 DEF LockToAccept
    <3>2. CASE handle # NoGoal
      <4>. ClientView!Finish("aborted")
        BY <2>2, <3>2 DEF LockToAccept, ClientView!Finish
      <4>. QED
        BY DEF ClientView!GoalsNext
    <3>. QED
      BY <3>1, <3>2
  <2>3. CASE TorqueOn
    <3>1. CASE AbortAccepted
      BY <2>3, <3>1 DEF TorqueOn, AbortAccepted, ClientView!Refuse, ClientView!GoalsNext
    <3>2. CASE ActionAt("torque", "speed") /\ UNCHANGED goalVars
      BY <2>3, <3>2 DEF TorqueOn
    <3>. QED
      BY <2>3, <3>1, <3>2 DEF TorqueOn
  <2>4. CASE SetSpeed
    <3>1. CASE AbortAccepted
      BY <2>4, <3>1 DEF SetSpeed, AbortAccepted, ClientView!Refuse, ClientView!GoalsNext
    <3>2. CASE handle' = action.goal /\ ActionDone /\ UNCHANGED status
      BY <2>4, <3>2 DEF SetSpeed, ClientView!Start, ClientView!GoalsNext
    <3>. QED
      BY <2>4, <3>1, <3>2 DEF SetSpeed
  <2>5. ASSUME NEW g \in Goals, RequestCancel(g) PROVE UNCHANGED ClientView!goalVars
    BY <2>5 DEF RequestCancel
  <2>6. CASE StopToCancel
    <3>. /\ action.at = "cancel" /\ UNCHANGED goalVars
         /\ ActionAt("cancel", "loose") \/ ActionDone
      BY <2>6 DEF StopToCancel, CancelCommand
    <3>. QED
      OBVIOUS
  <2>7. CASE TorqueOffToCancel
    <3>. /\ action.at = "loose" /\ UNCHANGED goalVars
         /\ ActionAt("loose", "canceling") \/ ActionDone
      BY <2>7 DEF TorqueOffToCancel, CancelCommand
    <3>. QED
      OBVIOUS
  <2>8. CASE EnterCanceling
    <3>1. CASE status[action.goal] = "executing"
      <4>. ClientView!Cancel(action.goal) /\ action.goal \in Goals
        BY <2>8, <3>1 DEF EnterCanceling, ClientView!Cancel
      <4>. QED
        BY DEF ClientView!GoalsNext
    <3>2. CASE status[action.goal] # "executing"
      BY <2>8, <3>2 DEF EnterCanceling
    <3>. QED
      BY <3>1, <3>2
  <2>9. CASE Enter
    <3>1. CASE handle # NoGoal /\ status[handle] = "canceling"
      <4>. ClientView!Finish("canceled")
        BY <2>9, <3>1 DEF Enter, ClientView!Finish
      <4>. QED
        BY DEF ClientView!GoalsNext
    <3>2. CASE ~ (handle # NoGoal /\ status[handle] = "canceling")
      BY <2>9, <3>2 DEF Enter
    <3>. QED
      BY <3>1, <3>2
  <2>10. CASE Succeed
    <3>. ClientView!Finish("succeeded")
      BY <2>10 DEF Succeed, ClientView!Finish
    <3>. QED
      BY DEF ClientView!GoalsNext
  <2>11. CASE Receive \/ Judge \/ StopToTurn \/ TurnRound \/ StopWhenDone \/ Tick
    BY <2>11 DEF Receive, Judge, StopToTurn, TurnRound, StopWhenDone, Tick
  <2>12. CASE UNCHANGED vars
    BY <2>12 DEF vars
  <2>. QED
    BY <2>1, <2>2, <2>3, <2>4, <2>5, <2>6, <2>7, <2>8, <2>9, <2>10, <2>11, <2>12
       DEF ScrewNext, ActionStep, StatesStep, ClientView!GoalsNext
<1>. QED
  BY <1>1, <1>2, ScrewInvariant, PTL
     DEF ScrewSpec, ScrewSafe, GoalsSpec, ClientView!GoalsSpec

-----------------------------------------------------------------------------
\* An active goal is the current one or the one that is being accepted.
OneActive ==
  \A g \in Goals : status[g] \in Active =>
    g = handle \/ (action.at \in {"accept"} \cup ActionLocked /\ g = action.goal)

\* What a goal that retightens has made the motor do by the time it is in
\* a stage; it rests on the torque staying on until somebody cancels.
TurnInv ==
  /\ OneActive
  /\ action.at \in {"cancel", "loose", "canceling"} =>
       action.goal \in asked /\ handle \in {NoGoal, action.goal}
  /\ states.at \in {"halt", "relax"} => stage = "DONE"
  /\ ~ failed /\ action.at = "speed" => motor.torque
  /\ ~ failed /\ handle # NoGoal /\ handle \notin asked => motor.torque
  /\ ~ failed /\ handle \in Tighten \cap Retighten /\ handle \notin asked =>
       /\ "forward" \in turned[handle]
       /\ stage # "ACTIVE" => "backward" \in turned[handle]

\* Every step keeps it, and RetightensBeforeSuccess with it.
LEMMA StepTurn ==
  ScrewInv /\ TurnInv /\ RetightensBeforeSuccess /\ [ScrewNext]_vars
    => TurnInv' /\ RetightensBeforeSuccess'
<1>. SUFFICES ASSUME ScrewInv, TurnInv, RetightensBeforeSuccess, [ScrewNext]_vars
              PROVE  TurnInv' /\ RetightensBeforeSuccess'
  OBVIOUS
<1>. USE ScrewAssumption
     DEF ScrewInv, ScrewTypeOK, GoalInv, goalVars, history, ActionIs, ActionAt,
         ActionDone, StatesAt, Active, ActionLocked, StatesLocked
<1>1. ASSUME NEW g \in Goals, RequestGoal(g) PROVE TurnInv' /\ RetightensBeforeSuccess'
  <2>3. OneActive'
    BY <1>1 DEF OneActive, TurnInv, RequestGoal
  <2>1. TurnInv'
    BY <1>1, <2>3 DEF TurnInv, RequestGoal
  <2>2. RetightensBeforeSuccess'
    BY <1>1 DEF RetightensBeforeSuccess, RequestGoal
  <2>. QED
    BY <2>1, <2>2
<1>2. ASSUME LockToAccept PROVE TurnInv' /\ RetightensBeforeSuccess'
  <2>3. OneActive'
    BY <1>2 DEF OneActive, TurnInv, LockToAccept
  <2>1. TurnInv'
    BY <1>2, <2>3 DEF TurnInv, LockToAccept
  <2>2. RetightensBeforeSuccess'
    BY <1>2 DEF RetightensBeforeSuccess, LockToAccept
  <2>. QED
    BY <2>1, <2>2
<1>3. ASSUME TorqueOn PROVE TurnInv' /\ RetightensBeforeSuccess'
  <2>3. OneActive'
    BY <1>3 DEF OneActive, TurnInv, TorqueOn, AbortAccepted
  <2>1. TurnInv'
    BY <1>3, <2>3 DEF TurnInv, TorqueOn, AbortAccepted, Send, MovingSpeed, TorqueEnable, Turning
  <2>2. RetightensBeforeSuccess'
    <3>1. UNCHANGED asked /\ (\A x \in Goals : status'[x] = "succeeded" => status[x] = "succeeded")
      BY <1>3 DEF TorqueOn, AbortAccepted
    <3>2. PICK ok \in BOOLEAN : Send(action.goal, TorqueEnable(TRUE), ok)
      BY <1>3 DEF TorqueOn, AbortAccepted
    <3>3. (~ failed' => ~ failed) /\ \A x \in Goals : turned[x] \subseteq turned'[x]
      BY <3>2 DEF Send
    <3>. QED
      BY <3>1, <3>3 DEF RetightensBeforeSuccess
  <2>. QED
    BY <2>1, <2>2
<1>4. ASSUME SetSpeed PROVE TurnInv' /\ RetightensBeforeSuccess'
  <2>3. OneActive'
    BY <1>4 DEF OneActive, TurnInv, SetSpeed, AbortAccepted, SpeedOf
  <2>1. TurnInv'
    BY <1>4, <2>3 DEF TurnInv, SetSpeed, AbortAccepted, SpeedOf, Send, MovingSpeed, TorqueEnable, Turning
  <2>2. RetightensBeforeSuccess'
    BY <1>4 DEF RetightensBeforeSuccess, SetSpeed, AbortAccepted, SpeedOf, Send
  <2>. QED
    BY <2>1, <2>2
<1>5. ASSUME NEW g \in Goals, RequestCancel(g) PROVE TurnInv' /\ RetightensBeforeSuccess'
  <2>3. OneActive'
    BY <1>5 DEF OneActive, TurnInv, RequestCancel
  <2>1. TurnInv'
    BY <1>5, <2>3 DEF TurnInv, OneActive, RequestCancel
  <2>2. RetightensBeforeSuccess'
    BY <1>5 DEF RetightensBeforeSuccess, RequestCancel
  <2>. QED
    BY <2>1, <2>2
<1>6. ASSUME StopToCancel PROVE TurnInv' /\ RetightensBeforeSuccess'
  <2>3. OneActive'
    BY <1>6 DEF OneActive, TurnInv, StopToCancel, CancelCommand
  <2>1. TurnInv'
    BY <1>6, <2>3 DEF TurnInv, StopToCancel, CancelCommand, Send, MovingSpeed, TorqueEnable, Turning
  <2>2. RetightensBeforeSuccess'
    BY <1>6 DEF RetightensBeforeSuccess, StopToCancel, CancelCommand, Send
  <2>. QED
    BY <2>1, <2>2
<1>7. ASSUME TorqueOffToCancel PROVE TurnInv' /\ RetightensBeforeSuccess'
  <2>3. OneActive'
    BY <1>7 DEF OneActive, TurnInv, TorqueOffToCancel, CancelCommand
  <2>1. TurnInv'
    BY <1>7, <2>3 DEF TurnInv, TorqueOffToCancel, CancelCommand, Send, MovingSpeed, TorqueEnable, Turning
  <2>2. RetightensBeforeSuccess'
    <3>1. UNCHANGED asked /\ (\A x \in Goals : status'[x] = "succeeded" => status[x] = "succeeded")
      BY <1>7 DEF TorqueOffToCancel, CancelCommand
    <3>2. PICK ok \in BOOLEAN : Send(action.goal, TorqueEnable(FALSE), ok)
      BY <1>7 DEF TorqueOffToCancel, CancelCommand
    <3>3. (~ failed' => ~ failed) /\ \A x \in Goals : turned[x] \subseteq turned'[x]
      BY <3>2 DEF Send
    <3>. QED
      BY <3>1, <3>3 DEF RetightensBeforeSuccess
  <2>. QED
    BY <2>1, <2>2
<1>8. ASSUME EnterCanceling PROVE TurnInv' /\ RetightensBeforeSuccess'
  <2>3. OneActive'
    BY <1>8 DEF OneActive, TurnInv, EnterCanceling
  <2>1. TurnInv'
    BY <1>8, <2>3 DEF TurnInv, EnterCanceling
  <2>2. RetightensBeforeSuccess'
    BY <1>8 DEF RetightensBeforeSuccess, EnterCanceling
  <2>. QED
    BY <2>1, <2>2
<1>9. ASSUME Receive PROVE TurnInv' /\ RetightensBeforeSuccess'
  <2>3. OneActive'
    BY <1>9 DEF OneActive, TurnInv, Receive
  <2>1. TurnInv'
    BY <1>9, <2>3 DEF TurnInv, Receive
  <2>2. RetightensBeforeSuccess'
    BY <1>9 DEF RetightensBeforeSuccess, Receive
  <2>. QED
    BY <2>1, <2>2
<1>10. ASSUME Enter PROVE TurnInv' /\ RetightensBeforeSuccess'
  <2>3. OneActive'
    BY <1>10 DEF OneActive, TurnInv, Enter
  <2>1. TurnInv'
    BY <1>10, <2>3 DEF TurnInv, Enter
  <2>2. RetightensBeforeSuccess'
    BY <1>10 DEF RetightensBeforeSuccess, Enter
  <2>. QED
    BY <2>1, <2>2
<1>11. ASSUME Judge PROVE TurnInv' /\ RetightensBeforeSuccess'
  <2>3. OneActive'
    BY <1>11 DEF OneActive, TurnInv, Judge, GoalReached
  <2>1. TurnInv'
    BY <1>11, <2>3 DEF TurnInv, Judge, GoalReached
  <2>2. RetightensBeforeSuccess'
    BY <1>11 DEF RetightensBeforeSuccess, Judge, GoalReached
  <2>. QED
    BY <2>1, <2>2
<1>12. ASSUME StopToTurn PROVE TurnInv' /\ RetightensBeforeSuccess'
  <2>3. OneActive'
    BY <1>12 DEF OneActive, TurnInv, StopToTurn
  <2>1. TurnInv'
    BY <1>12, <2>3 DEF TurnInv, StopToTurn, Send, MovingSpeed, TorqueEnable, Turning
  <2>2. RetightensBeforeSuccess'
    BY <1>12 DEF RetightensBeforeSuccess, StopToTurn, Send
  <2>. QED
    BY <2>1, <2>2
<1>13. ASSUME TurnRound PROVE TurnInv' /\ RetightensBeforeSuccess'
  <2>3. OneActive'
    BY <1>13 DEF OneActive, TurnInv, TurnRound
  <2>1. TurnInv'
    BY <1>13, <2>3 DEF TurnInv, TurnRound, Send, MovingSpeed, TorqueEnable, Turning
  <2>2. RetightensBeforeSuccess'
    BY <1>13 DEF RetightensBeforeSuccess, TurnRound, Send
  <2>. QED
    BY <2>1, <2>2
<1>14. ASSUME StopWhenDone PROVE TurnInv' /\ RetightensBeforeSuccess'
  <2>3. OneActive'
    BY <1>14 DEF OneActive, TurnInv, StopWhenDone
  <2>1. TurnInv'
    BY <1>14, <2>3 DEF TurnInv, StopWhenDone, Send, MovingSpeed, TorqueEnable, Turning
  <2>2. RetightensBeforeSuccess'
    BY <1>14 DEF RetightensBeforeSuccess, StopWhenDone, Send
  <2>. QED
    BY <2>1, <2>2
<1>15. ASSUME Succeed PROVE TurnInv' /\ RetightensBeforeSuccess'
  <2>3. OneActive'
    BY <1>15 DEF OneActive, TurnInv, Succeed
  <2>1. TurnInv'
    BY <1>15, <2>3 DEF TurnInv, Succeed, Send, MovingSpeed, TorqueEnable, Turning
  <2>2. RetightensBeforeSuccess'
    BY <1>15 DEF TurnInv, RetightensBeforeSuccess, Succeed, Send
  <2>. QED
    BY <2>1, <2>2
<1>16. ASSUME Tick PROVE TurnInv' /\ RetightensBeforeSuccess'
  <2>3. OneActive'
    BY <1>16 DEF OneActive, TurnInv, Tick
  <2>1. TurnInv'
    BY <1>16, <2>3 DEF TurnInv, Tick
  <2>2. RetightensBeforeSuccess'
    BY <1>16 DEF RetightensBeforeSuccess, Tick
  <2>. QED
    BY <2>1, <2>2
<1>17. CASE UNCHANGED vars
  BY <1>17 DEF vars, TurnInv, OneActive, RetightensBeforeSuccess
<1>. QED
  BY <1>1, <1>2, <1>3, <1>4, <1>5, <1>6, <1>7, <1>8, <1>9,
     <1>10, <1>11, <1>12, <1>13, <1>14, <1>15, <1>16, <1>17
     DEF ScrewNext, ActionStep, StatesStep

\* A goal that asks for it has been retightened when it succeeds, unless a
\* command was lost or somebody tried to cancel the goal.
THEOREM RetightensFirst == ScrewSpec => []RetightensBeforeSuccess
<1>1. ScrewInit => TurnInv /\ RetightensBeforeSuccess
  BY ScrewAssumption DEF ScrewInit, TurnInv, OneActive, Active, RetightensBeforeSuccess
<1>. QED
  BY <1>1, StepTurn, ScrewInvariant, PTL DEF ScrewSpec, ScrewSafe

=============================================================================
