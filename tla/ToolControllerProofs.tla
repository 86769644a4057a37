------------------------- MODULE ToolControllerProofs -------------------------
(***************************************************************************)
(* Theorems about the controllers of suction and precision tools, for any  *)
(* goals: clients see what ActionGoals promises, the valves of a suction   *)
(* tool are as its last goal has left them, and a goal succeeds on what    *)
(* the device did for it.  What both share is proved once, of GoalServer.  *)
(***************************************************************************)
EXTENDS SuctionToolController, PrecisionToolController, TLAPS

-----------------------------------------------------------------------------
(* The server.                                                             *)

\* What the threads rely on: the current goal is active; it is there while
\* the states callback has the mutex and gone while handle_accepted_cb has
\* it; the goal that is being accepted is not the current one.
CurrentInv ==
  /\ handle # NoGoal => status[handle] \in Active
  /\ mutex = "states" => handle # NoGoal
  /\ mutex = "action" => handle = NoGoal
  /\ action.at # "idle" => action.goal \in Goals
  /\ action.at \in {"accept"} \cup Commanding =>
       status[action.goal] = "executing" /\ action.goal # handle

ServerInv == ServerTypeOK /\ CurrentInv

\* What the thread of the states callback does to the goals and the mutex.
TakeMutex ==
  /\ handle # NoGoal
  /\ mutex = "free"
  /\ mutex' = "states"
  /\ UNCHANGED <<goalVars, action>>

GoOn ==
  /\ mutex = "states" => mutex' \in {"free", "states"}
  /\ mutex # "states" => UNCHANGED mutex
  /\ UNCHANGED <<goalVars, action>>

FinishCurrent(how) ==
  /\ mutex = "states"
  /\ how = "canceled" => status[handle] = "canceling"
  /\ End(handle, how)
  /\ handle' = NoGoal
  /\ mutex' = "free"
  /\ UNCHANGED action

\* The steps of a server, whatever its device is.
ServerNext ==
  \/ \E g \in Goals : RequestGoal(g) \/ RequestCancel(g)
  \/ LockToAccept \/ EnterCanceling
  \/ ActionIs("first") /\ (SecondCommand \/ AbortAccepted)
  \/ ActionIs("second") /\ (StartGoal \/ AbortAccepted)
  \/ TakeMutex \/ GoOn
  \/ \E how \in Ended : FinishCurrent(how)

\* Every step of a server keeps its invariant.
LEMMA ServerStepInv ==
  ASSUME ServerInv, ServerNext, failed' \in BOOLEAN
  PROVE  ServerInv'
<1>. USE GoalAssumption
     DEF ServerInv, ServerTypeOK, CurrentInv, goalVars, ActionIs, ActionDone, ActionGoes,
         Active, Ended, Statuses, Commanding, End, IsActive
<1>1. ASSUME NEW g \in Goals, RequestGoal(g) PROVE ServerInv'
  <2>1. ServerTypeOK'
    BY <1>1 DEF RequestGoal
  <2>2. CurrentInv'
    BY <1>1 DEF RequestGoal
  <2>. QED
    BY <2>1, <2>2
<1>2. ASSUME NEW g \in Goals, RequestCancel(g) PROVE ServerInv'
  BY <1>2 DEF RequestCancel
<1>3. CASE LockToAccept
  <2>1. ServerTypeOK'
    BY <1>3 DEF LockToAccept
  <2>2. CurrentInv'
    BY <1>3 DEF LockToAccept
  <2>. QED
    BY <2>1, <2>2
<1>4. CASE EnterCanceling
  <2>1. ServerTypeOK'
    BY <1>4 DEF EnterCanceling
  <2>2. CurrentInv'
    BY <1>4 DEF EnterCanceling
  <2>. QED
    BY <2>1, <2>2
<1>5. CASE (ActionIs("first") \/ ActionIs("second")) /\ AbortAccepted
  <2>1. ServerTypeOK'
    BY <1>5 DEF AbortAccepted
  <2>2. CurrentInv'
    BY <1>5 DEF AbortAccepted
  <2>. QED
    BY <2>1, <2>2
<1>6. CASE ActionIs("first") /\ SecondCommand
  BY <1>6 DEF SecondCommand
<1>7. CASE ActionIs("second") /\ StartGoal
  BY <1>7 DEF StartGoal
<1>8. CASE TakeMutex
  BY <1>8 DEF TakeMutex
<1>9. CASE GoOn
  BY <1>9 DEF GoOn
<1>10. ASSUME NEW how \in Ended, FinishCurrent(how) PROVE ServerInv'
  <2>1. ServerTypeOK'
    BY <1>10 DEF FinishCurrent
  <2>2. CurrentInv'
    BY <1>10 DEF FinishCurrent
  <2>. QED
    BY <2>1, <2>2
<1>. QED
  BY <1>1, <1>2, <1>3, <1>4, <1>5, <1>6, <1>7, <1>8, <1>9, <1>10 DEF ServerNext

\* A server that is started has no goals.
LEMMA ServerInitInv ==
  ASSUME ServerInit
  PROVE  ServerInv /\ ClientView!GoalsInit
<1>1. ServerTypeOK
  BY DEF ServerInit, ServerTypeOK, Statuses, Commanding
<1>2. CurrentInv
  BY DEF ServerInit, CurrentInv, Commanding
<1>3. ClientView!GoalsInit
  BY DEF ServerInit, ClientView!GoalsInit, Commanding
<1>. QED
  BY <1>1, <1>2, <1>3 DEF ServerInv

\* Every step of a server is one that its clients expect, or they see none.
LEMMA ServerStepsGoals ==
  ASSUME ServerInv, ServerNext
  PROVE  [ClientView!GoalsNext]_(ClientView!goalVars)
<1>. SUFFICES ClientView!GoalsNext \/ UNCHANGED ClientView!goalVars
  OBVIOUS
<1>. USE GoalAssumption
     DEF ServerInv, ServerTypeOK, CurrentInv, goalVars, ActionIs, ActionDone, ActionGoes,
         Active, Ended, Commanding, End, IsActive,
         ClientView!goalVars, ClientView!Active, ClientView!Ended
<1>1. ASSUME NEW g \in Goals, RequestGoal(g) PROVE ClientView!Accept(g)
  BY <1>1 DEF RequestGoal, ClientView!Accept
<1>2. ASSUME NEW g \in Goals, RequestCancel(g) PROVE UNCHANGED ClientView!goalVars
  BY <1>2 DEF RequestCancel
<1>3. CASE LockToAccept
  <2>1. CASE handle = NoGoal
    BY <1>3, <2>1 DEF LockToAccept
  <2>2. CASE handle # NoGoal
    <3>. ClientView!Finish("aborted")
      BY <1>3, <2>2 DEF LockToAccept, ClientView!Finish
    <3>. QED
      BY DEF ClientView!GoalsNext
  <2>. QED
    BY <2>1, <2>2
<1>4. CASE EnterCanceling
  <2>1. CASE status[action.goal] = "executing"
    <3>. ClientView!Cancel(action.goal) /\ action.goal \in Goals
      BY <1>4, <2>1 DEF EnterCanceling, ClientView!Cancel
    <3>. QED
      BY DEF ClientView!GoalsNext
  <2>2. CASE status[action.goal] # "executing"
    BY <1>4, <2>2 DEF EnterCanceling
  <2>. QED
    BY <2>1, <2>2
<1>5. CASE (ActionIs("first") \/ ActionIs("second")) /\ AbortAccepted
  BY <1>5 DEF AbortAccepted, ClientView!Refuse, ClientView!GoalsNext
<1>6. CASE ActionIs("first") /\ SecondCommand
  BY <1>6 DEF SecondCommand
<1>7. CASE ActionIs("second") /\ StartGoal
  BY <1>7 DEF StartGoal, ClientView!Start, ClientView!GoalsNext
<1>8. CASE TakeMutex \/ GoOn
  BY <1>8 DEF TakeMutex, GoOn
<1>9. ASSUME NEW how \in Ended, FinishCurrent(how) PROVE ClientView!GoalsNext
  <2>. ClientView!Finish(how)
    BY <1>9 DEF FinishCurrent, ClientView!Finish
  <2>. QED
    BY DEF ClientView!GoalsNext
<1>. QED
  BY <1>1, <1>2, <1>3, <1>4, <1>5, <1>6, <1>7, <1>8, <1>9
     DEF ServerNext, ClientView!GoalsNext

-----------------------------------------------------------------------------
(* The suction tool.                                                       *)

\* The valves, as long as no command has failed: as the current goal wants
\* them, until they are switched off because it has ended; and as the last
\* goal has left them, while the next one does not have the mutex.
ValvesInv ==
  ~ failed =>
    /\ handle # NoGoal => commanded = handle
    /\ handle # NoGoal /\ states \notin {"suckOff", "blowOff"} =>
         /\ valves.suck <=> handle \in Suck
         /\ valves.blow <=> handle \notin Suck
    /\ states = "blowOff" =>
         (valves.suck <=> handle \in Suck /\ io.how = "succeeded")
    /\ handle = NoGoal /\ action.at \notin Commanding =>
         /\ ~ valves.blow
         /\ valves.suck <=> commanded \in Suck /\ status[commanded] = "succeeded"
    /\ action.at = "second" =>
         /\ commanded = action.goal
         /\ valves.suck <=> action.goal \in Suck

\* The callback ends a goal as its state allows; what succeeds is kept.
HowInv ==
  /\ states = "suckOff" => io.how # "succeeded"
  /\ states \in {"suckOff", "blowOff"} /\ io.how = "canceled" => status[handle] = "canceling"

\* A reading that is old enough is one of the current goal, and so the goal
\* that is about to succeed has one of its own, unless it asks for none.
ReadingInv ==
  /\ io.elapsed => io.own
  /\ states = "blowOff" /\ io.how = "succeeded" => handle \in Immediate \/ (io.own /\ Agrees)
  /\ SuctionConfirmed

SuctionInv == SuctionTypeOK /\ ServerInv /\ ValvesInv /\ HowInv /\ ReadingInv

\* Initially nothing is set.
LEMMA SuctionInitInv ==
  ASSUME SuctionInit
  PROVE  SuctionInv
<1>1. ServerInv
  BY ServerInitInv DEF SuctionInit
<1>2. SuctionTypeOK
  BY <1>1 DEF SuctionInit, SuctionTypeOK, ServerInv, ServerInit, Nothing, Ended
<1>3. ValvesInv
  BY GoalAssumption, SuctionAssumption DEF SuctionInit, ServerInit, ValvesInv
<1>4. HowInv /\ ReadingInv
  BY DEF SuctionInit, ServerInit, Nothing, HowInv, ReadingInv, SuctionConfirmed
<1>. QED
  BY <1>1, <1>2, <1>3, <1>4 DEF SuctionInv

\* A step of the suction tool is one of its server.
LEMMA SuctionIsServer ==
  ASSUME SuctionTypeOK, ServerInv, HowInv, [SuctionNext]_suctionAll
  PROVE  ServerNext /\ failed' \in BOOLEAN
<1>. USE DEF SuctionTypeOK, ServerInv, ServerTypeOK, CurrentInv, goalVars, ServerNext
<1>1. ASSUME NEW g \in Goals, RequestGoal(g) \/ RequestCancel(g)
      PROVE  ServerNext /\ failed' \in BOOLEAN
  BY <1>1 DEF RequestGoal, RequestCancel
<1>2. CASE LockToAccept \/ EnterCanceling
  BY <1>2 DEF LockToAccept, EnterCanceling
<1>3. CASE SetSuckPort
  BY <1>3 DEF SetSuckPort, SecondCommand, AbortAccepted
<1>4. CASE SetBlowPort
  BY <1>4 DEF SetBlowPort, StartGoal, AbortAccepted
<1>5. CASE ReceiveIO \/ LookAtGoal \/ CancelCurrent
  BY <1>5 DEF ReceiveIO, LookAtGoal, CancelCurrent, GoOn
<1>6. CASE EnterIO
  BY <1>6 DEF EnterIO, LockStates, GoOn, TakeMutex
<1>7. CASE Judge
  BY <1>7 DEF Judge, Release, GoOn
<1>8. CASE SuckOff
  BY <1>8 DEF SuckOff, GoOn
<1>9. CASE BlowOff
  <2>1. FinishCurrent(io.how)
    BY <1>9 DEF BlowOff, Release, FinishCurrent, HowInv
  <2>2. failed' \in BOOLEAN
    BY <1>9 DEF BlowOff
  <2>. QED
    BY <2>1, <2>2
<1>10. CASE PeriodPasses \/ TimeIsUp \/ UNCHANGED suctionAll
  BY <1>10 DEF PeriodPasses, TimeIsUp, suctionAll, serverVars, GoOn
<1>. QED
  BY <1>1, <1>2, <1>3, <1>4, <1>5, <1>6, <1>7, <1>8, <1>9, <1>10
     DEF SuctionNext, SuctionActionStep, SuctionStatesStep

\* A command to a valve leaves two valves, whether it fails or not.
LEMMA SetOutPortType ==
  ASSUME NEW port \in {"suck", "blow"}, NEW on \in BOOLEAN, NEW ok \in BOOLEAN,
         SuctionTypeOK, SetOutPort(port, on, ok)
  PROVE  valves' \in [suck : BOOLEAN, blow : BOOLEAN]
BY DEF SuctionTypeOK, SetOutPort

\* Every step keeps the invariant.
LEMMA SuctionStepInv == SuctionInv /\ [SuctionNext]_suctionAll => SuctionInv'
<1>. SUFFICES ASSUME SuctionInv, [SuctionNext]_suctionAll PROVE SuctionInv'
  OBVIOUS
<1>. USE GoalAssumption, SuctionAssumption
     DEF SuctionInv, SuctionTypeOK, ServerInv, ServerTypeOK, CurrentInv, goalVars,
         suctionVars, ActionIs, ActionDone, ActionGoes, StatesGo, Active, Ended, Commanding, End,
         IsActive, Release, SuctionConfirmed
<1>0. ServerInv'
  BY SuctionIsServer, ServerStepInv
<1>1. ASSUME NEW g \in Goals, RequestGoal(g), UNCHANGED suctionVars PROVE SuctionInv'
  <2>1. SuctionTypeOK'
    BY <1>0, <1>1 DEF RequestGoal
  <2>2. ValvesInv'
    BY <1>1 DEF ValvesInv, RequestGoal
  <2>3. HowInv'
    BY <1>1 DEF HowInv, RequestGoal
  <2>4. ReadingInv'
    BY <1>1 DEF ReadingInv, Agrees, RequestGoal
  <2>. QED
    BY <1>0, <2>1, <2>2, <2>3, <2>4
<1>2. ASSUME NEW g \in Goals, RequestCancel(g), UNCHANGED suctionVars PROVE SuctionInv'
  <2>1. SuctionTypeOK'
    BY <1>0, <1>2 DEF RequestCancel
  <2>2. ValvesInv'
    BY <1>2 DEF ValvesInv, RequestCancel
  <2>3. HowInv'
    BY <1>2 DEF HowInv, RequestCancel
  <2>4. ReadingInv'
    BY <1>2 DEF ReadingInv, Agrees, RequestCancel
  <2>. QED
    BY <1>0, <2>1, <2>2, <2>3, <2>4
<1>3. ASSUME LockToAccept, UNCHANGED suctionVars PROVE SuctionInv'
  <2>1. SuctionTypeOK'
    BY <1>0, <1>3 DEF LockToAccept
  <2>2. ValvesInv'
    BY <1>3 DEF ValvesInv, LockToAccept
  <2>3. HowInv'
    BY <1>3 DEF HowInv, LockToAccept
  <2>4. ReadingInv'
    BY <1>3 DEF ReadingInv, Agrees, LockToAccept
  <2>. QED
    BY <1>0, <2>1, <2>2, <2>3, <2>4
<1>4. ASSUME EnterCanceling, UNCHANGED suctionVars PROVE SuctionInv'
  <2>1. SuctionTypeOK'
    BY <1>0, <1>4 DEF EnterCanceling
  <2>2. ValvesInv'
    BY <1>4 DEF ValvesInv, EnterCanceling
  <2>3. HowInv'
    BY <1>4 DEF HowInv, EnterCanceling
  <2>4. ReadingInv'
    BY <1>4 DEF ReadingInv, Agrees, EnterCanceling
  <2>. QED
    BY <1>0, <2>1, <2>2, <2>3, <2>4
<1>5. ASSUME SetSuckPort PROVE SuctionInv'
  <2>1. SuctionTypeOK'
    <3>1. PICK ok \in BOOLEAN : SetOutPort("suck", action.goal \in Suck, ok)
      BY <1>5 DEF SetSuckPort
    <3>2. valves' \in [suck : BOOLEAN, blow : BOOLEAN]
      BY <3>1, SetOutPortType, (action.goal \in Suck) \in BOOLEAN
    <3>. QED
      BY <1>0, <1>5, <3>2 DEF SetSuckPort, SecondCommand, AbortAccepted
  <2>2. ValvesInv'
    BY <1>5 DEF ValvesInv, SetSuckPort, SetOutPort, SecondCommand, AbortAccepted
  <2>3. HowInv'
    BY <1>5 DEF HowInv, SetSuckPort, SecondCommand, AbortAccepted
  <2>4. ReadingInv'
    BY <1>5 DEF ReadingInv, Agrees, SetSuckPort, SecondCommand, AbortAccepted
  <2>. QED
    BY <1>0, <2>1, <2>2, <2>3, <2>4
<1>6. ASSUME SetBlowPort PROVE SuctionInv'
  <2>1. SuctionTypeOK'
    <3>1. PICK ok \in BOOLEAN : SetOutPort("blow", action.goal \notin Suck, ok)
      BY <1>6 DEF SetBlowPort
    <3>2. valves' \in [suck : BOOLEAN, blow : BOOLEAN]
      BY <3>1, SetOutPortType, (action.goal \notin Suck) \in BOOLEAN
    <3>. QED
      BY <1>0, <1>6, <3>2 DEF SetBlowPort, StartGoal, AbortAccepted
  <2>2. ValvesInv'
    <3>1. CASE failed'
      BY <3>1 DEF ValvesInv
    <3>2. CASE ~ failed'
      <4>1. StartGoal /\ SetOutPort("blow", action.goal \notin Suck, TRUE)
        BY <1>6, <3>2 DEF SetBlowPort, AbortAccepted
      <4>. QED
        BY <4>1, <1>6, <3>2 DEF ValvesInv, SetOutPort, StartGoal, SetBlowPort
    <3>. QED
      BY <3>1, <3>2
  <2>3. HowInv'
    BY <1>6 DEF HowInv, SetBlowPort, StartGoal, AbortAccepted
  <2>4. ReadingInv'
    BY <1>6 DEF ReadingInv, Agrees, SetBlowPort, StartGoal, AbortAccepted
  <2>. QED
    BY <1>0, <2>1, <2>2, <2>3, <2>4
<1>7. ASSUME ReceiveIO PROVE SuctionInv'
  <2>1. SuctionTypeOK'
    BY <1>0, <1>7 DEF ReceiveIO
  <2>2. ValvesInv'
    BY <1>7 DEF ValvesInv, ReceiveIO
  <2>3. HowInv'
    BY <1>7 DEF HowInv, ReceiveIO
  <2>4. ReadingInv'
    BY <1>7 DEF ReadingInv, Agrees, ReceiveIO
  <2>. QED
    BY <1>0, <2>1, <2>2, <2>3, <2>4
<1>8. ASSUME LookAtGoal PROVE SuctionInv'
  <2>1. SuctionTypeOK'
    BY <1>0, <1>8 DEF LookAtGoal
  <2>2. ValvesInv'
    BY <1>8 DEF ValvesInv, LookAtGoal
  <2>3. HowInv'
    BY <1>8 DEF HowInv, LookAtGoal
  <2>4. ReadingInv'
    BY <1>8 DEF ReadingInv, Agrees, LookAtGoal
  <2>. QED
    BY <1>0, <2>1, <2>2, <2>3, <2>4
<1>9. ASSUME EnterIO PROVE SuctionInv'
  <2>1. SuctionTypeOK'
    BY <1>0, <1>9 DEF EnterIO, LockStates
  <2>2. ValvesInv'
    BY <1>9 DEF ValvesInv, EnterIO, LockStates
  <2>3. HowInv'
    BY <1>9 DEF HowInv, EnterIO, LockStates
  <2>4. ReadingInv'
    BY <1>9 DEF ReadingInv, Agrees, EnterIO, LockStates
  <2>. QED
    BY <1>0, <2>1, <2>2, <2>3, <2>4
<1>10. ASSUME CancelCurrent PROVE SuctionInv'
  <2>1. SuctionTypeOK'
    BY <1>0, <1>10 DEF CancelCurrent, Finishing
  <2>2. ValvesInv'
    BY <1>10 DEF ValvesInv, CancelCurrent, Finishing
  <2>3. HowInv'
    BY <1>10 DEF HowInv, CancelCurrent, Finishing
  <2>4. ReadingInv'
    BY <1>10 DEF ReadingInv, Agrees, CancelCurrent, Finishing
  <2>. QED
    BY <1>0, <2>1, <2>2, <2>3, <2>4
<1>11. ASSUME Judge PROVE SuctionInv'
  <2>1. SuctionTypeOK'
    BY <1>0, <1>11 DEF Judge, Finishing, LongEnough, TimedOut
  <2>2. ValvesInv'
    BY <1>11 DEF ValvesInv, Judge, Finishing, LongEnough, TimedOut
  <2>3. HowInv'
    BY <1>11 DEF HowInv, Judge, Finishing, LongEnough, TimedOut
  <2>4. ReadingInv'
    BY <1>11 DEF ReadingInv, Agrees, Judge, Finishing, LongEnough, TimedOut
  <2>. QED
    BY <1>0, <2>1, <2>2, <2>3, <2>4
<1>12. ASSUME SuckOff PROVE SuctionInv'
  <2>1. SuctionTypeOK'
    BY <1>0, <1>12 DEF SuckOff, SetOutPort
  <2>2. ValvesInv'
    BY <1>12 DEF ValvesInv, HowInv, SuckOff, SetOutPort
  <2>. states = "suckOff" /\ states' = "blowOff" /\ UNCHANGED <<status, handle, io, unconfirmed>>
    BY <1>12 DEF SuckOff
  <2>3. HowInv'
    BY DEF HowInv
  <2>4. ReadingInv'
    BY DEF HowInv, ReadingInv, Agrees
  <2>. QED
    BY <1>0, <2>1, <2>2, <2>3, <2>4
<1>13. ASSUME BlowOff PROVE SuctionInv'
  <2>1. SuctionTypeOK'
    BY <1>0, <1>13 DEF BlowOff, SetOutPort
  <2>2. ValvesInv'
    BY <1>13 DEF ValvesInv, BlowOff, SetOutPort
  <2>3. HowInv'
    BY <1>13 DEF HowInv, BlowOff, SetOutPort
  <2>4. ReadingInv'
    BY <1>13 DEF ReadingInv, Agrees, BlowOff, SetOutPort
  <2>. QED
    BY <1>0, <2>1, <2>2, <2>3, <2>4
<1>14. ASSUME PeriodPasses PROVE SuctionInv'
  <2>1. SuctionTypeOK'
    BY <1>0, <1>14 DEF PeriodPasses, serverVars
  <2>2. ValvesInv'
    BY <1>14 DEF ValvesInv, PeriodPasses, serverVars
  <2>3. HowInv'
    BY <1>14 DEF HowInv, PeriodPasses, serverVars
  <2>4. ReadingInv'
    BY <1>14 DEF ReadingInv, Agrees, PeriodPasses, serverVars
  <2>. QED
    BY <1>0, <2>1, <2>2, <2>3, <2>4
<1>15. ASSUME TimeIsUp PROVE SuctionInv'
  <2>1. SuctionTypeOK'
    BY <1>0, <1>15 DEF TimeIsUp, serverVars
  <2>2. ValvesInv'
    BY <1>15 DEF ValvesInv, TimeIsUp, serverVars
  <2>3. HowInv'
    BY <1>15 DEF HowInv, TimeIsUp, serverVars
  <2>4. ReadingInv'
    BY <1>15 DEF ReadingInv, Agrees, TimeIsUp, serverVars
  <2>. QED
    BY <1>0, <2>1, <2>2, <2>3, <2>4
<1>16. CASE UNCHANGED suctionAll
  BY <1>0, <1>16 DEF suctionAll, serverVars, ValvesInv, HowInv, ReadingInv, Agrees
<1>. QED
  BY <1>1, <1>2, <1>3, <1>4, <1>5, <1>6, <1>7, <1>8, <1>9, <1>10, <1>11, <1>12, <1>13, <1>14, <1>15, <1>16
     DEF SuctionNext, SuctionActionStep, SuctionStatesStep

\* The inductive invariant: types, what the threads rely on, the valves, and
\* how old a reading is.
THEOREM SuctionInvariant == SuctionSpec => []SuctionInv
BY SuctionInitInv, SuctionStepInv, PTL DEF SuctionSpec

\* The variables keep their types, and the mutex is held exactly by the
\* thread that is in its critical section.
THEOREM SuctionTypeCorrect == SuctionSpec => []SuctionTypeOK
<1>1. SuctionInv => SuctionTypeOK
  BY DEF SuctionInv
<1>. QED
  BY <1>1, SuctionInvariant, PTL

\* No vacuum is left behind by a goal that did not succeed, none is lost by
\* one that did, and nothing blows for ever, whatever goals are sent,
\* preempted and cancelled, unless a command has failed.
THEOREM ValvesFollowGoals == SuctionSpec => []ValvesMatchLastGoal
<1>1. SuctionInv => ValvesMatchLastGoal
  BY DEF SuctionInv, ValvesInv, ValvesMatchLastGoal, Commanding
<1>. QED
  BY <1>1, SuctionInvariant, PTL

\* A goal with a period never succeeds on a reading of the goal before.
THEOREM SuctionIsConfirmed == SuctionSpec => []SuctionConfirmed
<1>1. SuctionInv => SuctionConfirmed
  BY DEF SuctionInv, ReadingInv
<1>. QED
  BY <1>1, SuctionInvariant, PTL

\* The suction tool implements ActionGoals.
THEOREM SuctionImplementsGoals == SuctionSpec => ToolGoalsSpec
<1>1. SuctionInit => ClientView!GoalsInit
  BY ServerInitInv DEF SuctionInit
<1>2. SuctionInv /\ [SuctionNext]_suctionAll => [ClientView!GoalsNext]_(ClientView!goalVars)
  BY SuctionIsServer, ServerStepsGoals DEF SuctionInv
<1>. QED
  BY <1>1, <1>2, SuctionInvariant, PTL DEF SuctionSpec, ToolGoalsSpec, ClientView!GoalsSpec

-----------------------------------------------------------------------------
(* The precision tool.                                                     *)

\* As long as no command takes stall_timeout, the motor has not rested that
\* long when a goal starts, nor while a reading from before it waits.
RestInv ==
  ~ slow =>
    /\ action.at \in Commanding => ~ rested
    /\ states \in {"enter", "judge"} /\ ~ dxl.own => ~ rested
    /\ unseen = {}

PrecisionInv == PrecisionTypeOK /\ ServerInv /\ RestInv

\* Initially nothing has moved.
LEMMA PrecisionInitInv ==
  ASSUME PrecisionInit
  PROVE  PrecisionInv
<1>1. ServerInv
  BY ServerInitInv DEF PrecisionInit
<1>2. PrecisionTypeOK
  BY <1>1 DEF PrecisionInit, PrecisionTypeOK, ServerInv, ServerInit
<1>3. RestInv
  BY DEF PrecisionInit, ServerInit, RestInv
<1>. QED
  BY <1>1, <1>2, <1>3 DEF PrecisionInv

\* A step of the precision tool is one of its server.
LEMMA PrecisionIsServer ==
  ASSUME PrecisionTypeOK, ServerInv, [PrecisionNext]_precisionAll
  PROVE  ServerNext /\ failed' \in BOOLEAN
<1>. USE DEF PrecisionTypeOK, ServerInv, ServerTypeOK, CurrentInv, goalVars, ServerNext
<1>1. ASSUME NEW g \in Goals, RequestGoal(g) \/ RequestCancel(g)
      PROVE  ServerNext /\ failed' \in BOOLEAN
  BY <1>1 DEF RequestGoal, RequestCancel
<1>2. CASE AcceptMove \/ EnterCanceling
  BY <1>2 DEF AcceptMove, LockToAccept, EnterCanceling
<1>3. CASE SetGoalCurrent \/ SetGoalPosition
  BY <1>3 DEF SetGoalCurrent, SetGoalPosition, SecondCommand, StartGoal, AbortAccepted
<1>4. CASE ReceiveMotor
  BY <1>4 DEF ReceiveMotor, GoOn
<1>5. CASE EnterMotor
  BY <1>5 DEF EnterMotor, LockStates, TakeMutex, GoOn
<1>6. CASE CancelMove
  <2>. FinishCurrent("canceled") /\ UNCHANGED failed
    BY <1>6 DEF CancelMove, EndCurrent, Release, FinishCurrent
  <2>. QED
    BY DEF Ended
<1>7. CASE StillMoving
  BY <1>7 DEF StillMoving, Release, GoOn
<1>8. CASE AtRest
  <2>1. CASE Reached \/ Stalled
    <3>. FinishCurrent("succeeded") /\ UNCHANGED failed
      BY <1>8, <2>1 DEF AtRest, EndCurrent, Release, FinishCurrent
    <3>. QED
      BY DEF Ended
  <2>2. CASE ~ (Reached \/ Stalled)
    BY <1>8, <2>2 DEF AtRest, Release, GoOn
  <2>. QED
    BY <2>1, <2>2
<1>9. CASE StallTimePasses \/ UNCHANGED precisionAll
  BY <1>9 DEF StallTimePasses, precisionAll, serverVars, GoOn
<1>. QED
  BY <1>1, <1>2, <1>3, <1>4, <1>5, <1>6, <1>7, <1>8, <1>9
     DEF PrecisionNext, PrecisionActionStep, PrecisionStatesStep

\* Every step keeps the invariant.
LEMMA PrecisionStepInv == PrecisionInv /\ [PrecisionNext]_precisionAll => PrecisionInv'
<1>. SUFFICES ASSUME PrecisionInv, [PrecisionNext]_precisionAll PROVE PrecisionInv'
  OBVIOUS
<1>. USE GoalAssumption
     DEF PrecisionInv, PrecisionTypeOK, ServerInv, ServerTypeOK, CurrentInv, goalVars,
         precisionVars, ActionIs, ActionDone, ActionGoes, StatesGo, Commanding, IsActive, Release
<1>0. ServerInv'
  BY PrecisionIsServer, ServerStepInv
<1>1. ASSUME NEW g \in Goals, RequestGoal(g), UNCHANGED precisionVars PROVE PrecisionInv'
  <2>1. PrecisionTypeOK'
    BY <1>0, <1>1 DEF RequestGoal
  <2>2. RestInv'
    BY <1>1 DEF RestInv, RequestGoal
  <2>. QED
    BY <1>0, <2>1, <2>2
<1>2. ASSUME NEW g \in Goals, RequestCancel(g), UNCHANGED precisionVars PROVE PrecisionInv'
  <2>1. PrecisionTypeOK'
    BY <1>0, <1>2 DEF RequestCancel
  <2>2. RestInv'
    BY <1>2 DEF RestInv, RequestCancel
  <2>. QED
    BY <1>0, <2>1, <2>2
<1>3. ASSUME EnterCanceling, UNCHANGED precisionVars PROVE PrecisionInv'
  <2>1. PrecisionTypeOK'
    BY <1>0, <1>3 DEF EnterCanceling
  <2>2. RestInv'
    BY <1>3 DEF RestInv, EnterCanceling
  <2>. QED
    BY <1>0, <2>1, <2>2
<1>4. ASSUME AcceptMove PROVE PrecisionInv'
  <2>1. PrecisionTypeOK'
    BY <1>0, <1>4 DEF AcceptMove, LockToAccept
  <2>2. RestInv'
    BY <1>4 DEF RestInv, AcceptMove, LockToAccept
  <2>. QED
    BY <1>0, <2>1, <2>2
<1>5. ASSUME SetGoalCurrent PROVE PrecisionInv'
  <2>1. PrecisionTypeOK'
    BY <1>0, <1>5 DEF SetGoalCurrent, SecondCommand, AbortAccepted
  <2>2. RestInv'
    BY <1>5 DEF RestInv, SetGoalCurrent, SecondCommand, AbortAccepted
  <2>. QED
    BY <1>0, <2>1, <2>2
<1>6. ASSUME SetGoalPosition PROVE PrecisionInv'
  <2>1. PrecisionTypeOK'
    BY <1>0, <1>6 DEF SetGoalPosition, StartGoal, AbortAccepted
  <2>2. RestInv'
    BY <1>6 DEF RestInv, SetGoalPosition, StartGoal, AbortAccepted
  <2>. QED
    BY <1>0, <2>1, <2>2
<1>7. ASSUME ReceiveMotor PROVE PrecisionInv'
  <2>1. PrecisionTypeOK'
    BY <1>0, <1>7 DEF ReceiveMotor
  <2>2. RestInv'
    BY <1>7 DEF RestInv, ReceiveMotor
  <2>. QED
    BY <1>0, <2>1, <2>2
<1>8. ASSUME EnterMotor PROVE PrecisionInv'
  <2>1. PrecisionTypeOK'
    BY <1>0, <1>8 DEF EnterMotor, LockStates
  <2>2. RestInv'
    BY <1>8 DEF RestInv, EnterMotor, LockStates
  <2>. QED
    BY <1>0, <2>1, <2>2
<1>9. ASSUME CancelMove PROVE PrecisionInv'
  <2>1. PrecisionTypeOK'
    BY <1>0, <1>9 DEF CancelMove, EndCurrent
  <2>2. RestInv'
    BY <1>9 DEF RestInv, CancelMove, EndCurrent
  <2>. QED
    BY <1>0, <2>1, <2>2
<1>10. ASSUME StillMoving PROVE PrecisionInv'
  <2>1. PrecisionTypeOK'
    BY <1>0, <1>10 DEF StillMoving
  <2>2. RestInv'
    BY <1>10 DEF RestInv, StillMoving
  <2>. QED
    BY <1>0, <2>1, <2>2
<1>11. ASSUME AtRest PROVE PrecisionInv'
  <2>1. PrecisionTypeOK'
    BY <1>0, <1>11 DEF AtRest, EndCurrent, Stalled
  <2>2. RestInv'
    BY <1>11 DEF RestInv, AtRest, EndCurrent, Stalled
  <2>. QED
    BY <1>0, <2>1, <2>2
<1>12. ASSUME StallTimePasses PROVE PrecisionInv'
  <2>1. PrecisionTypeOK'
    BY <1>0, <1>12 DEF StallTimePasses, serverVars
  <2>2. RestInv'
    BY <1>12 DEF RestInv, StallTimePasses, serverVars
  <2>. QED
    BY <1>0, <2>1, <2>2
<1>13. CASE UNCHANGED precisionAll
  BY <1>0, <1>13 DEF precisionAll, serverVars, RestInv
<1>. QED
  BY <1>1, <1>2, <1>3, <1>4, <1>5, <1>6, <1>7, <1>8, <1>9, <1>10, <1>11, <1>12, <1>13
     DEF PrecisionNext, PrecisionActionStep, PrecisionStatesStep

\* The inductive invariant: types, what the threads rely on, and since when
\* the motor can have rested.
THEOREM PrecisionInvariant == PrecisionSpec => []PrecisionInv
BY PrecisionInitInv, PrecisionStepInv, PTL DEF PrecisionSpec

\* The variables keep their types, and the mutex is held exactly by the
\* thread that is in its critical section.
THEOREM PrecisionTypeCorrect == PrecisionSpec => []PrecisionTypeOK
<1>1. PrecisionInv => PrecisionTypeOK
  BY DEF PrecisionInv
<1>. QED
  BY <1>1, PrecisionInvariant, PTL

\* No goal succeeds as stalled because the motor rested before it was told
\* to move, unless a command took as long as stall_timeout.
THEOREM RestIsSeen == PrecisionSpec => []RestSeenBeforeSuccess
<1>1. PrecisionInv => RestSeenBeforeSuccess
  BY DEF PrecisionInv, RestInv, RestSeenBeforeSuccess
<1>. QED
  BY <1>1, PrecisionInvariant, PTL

\* The precision tool implements ActionGoals.
THEOREM PrecisionImplementsGoals == PrecisionSpec => ToolGoalsSpec
<1>1. PrecisionInit => ClientView!GoalsInit
  BY ServerInitInv DEF PrecisionInit
<1>2. PrecisionInv /\ [PrecisionNext]_precisionAll
        => [ClientView!GoalsNext]_(ClientView!goalVars)
  BY PrecisionIsServer, ServerStepsGoals DEF PrecisionInv
<1>. QED
  BY <1>1, <1>2, PrecisionInvariant, PTL DEF PrecisionSpec, ToolGoalsSpec, ClientView!GoalsSpec

=============================================================================
