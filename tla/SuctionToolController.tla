------------------------ MODULE SuctionToolController ------------------------
(***************************************************************************)
(* The controller of a suction tool: two valves, one to suck and one to    *)
(* blow, and a sensor that says whether something is held.  A goal sets    *)
(* the valves; it succeeds when the sensor has agreed with it for the      *)
(* period it asks for, and is aborted when its time is up.                 *)
(*                                                                         *)
(* The valves are set through a service of the driver.  A call that fails  *)
(* may have been carried out nevertheless.                                 *)
(***************************************************************************)
EXTENDS GoalServer

CONSTANTS
  Suck,        \* the goals with suck; the others blow
  Immediate,   \* the goals with min_period = 0
  Timed        \* the goals with timeout > 0

ASSUME SuctionAssumption ==
  /\ Suck \subseteq Goals
  /\ Immediate \subseteq Goals
  /\ Timed \subseteq Goals

VARIABLES
  io,          \* what io_states_cb has read
  valves,      \* state of the two output ports
  elapsed,     \* min_period has passed since _start_time
  expired,     \* _timeout_time has been reached
  commanded,   \* history: the goal that has set the valves last
  unconfirmed  \* history: goals that succeeded without a reading of their own

suctionVars == <<io, valves, elapsed, expired, commanded, unconfirmed>>
suctionAll == <<serverVars, suctionVars>>

SuctionTypeOK ==
  /\ ServerTypeOK
  /\ states \in {"idle", "look", "enter", "judge", "suckOff", "blowOff", "crashed"}
  /\ io \in [suctioned : BOOLEAN,      \* _suctioned
             elapsed : BOOLEAN,        \* min_period had passed at current_time
             expired : BOOLEAN,        \* the goal was out of time at current_time
             own : BOOLEAN,            \* history: read under the current goal
             how : Ended]              \* how the callback ends the goal
  /\ mutex = "states" <=> states \in {"judge", "suckOff", "blowOff"}
  /\ valves \in [suck : BOOLEAN, blow : BOOLEAN]
  /\ elapsed \in BOOLEAN
  /\ expired \in BOOLEAN
  /\ commanded \in Goals \cup {NoGoal}
  /\ unconfirmed \subseteq Goals

Nothing == [suctioned |-> FALSE, elapsed |-> FALSE, expired |-> FALSE,
            own |-> FALSE, how |-> "aborted"]

SuctionInit ==
  /\ ServerInit
  /\ io = Nothing
  /\ valves = [suck |-> FALSE, blow |-> FALSE]
  /\ elapsed = FALSE
  /\ expired = FALSE
  /\ commanded = NoGoal
  /\ unconfirmed = {}

-----------------------------------------------------------------------------
\* set_out_port: whether the call returns true, and the valves after it.
SetOutPort(port, on, ok) ==
  valves' \in {[valves EXCEPT ![port] = on]} \cup (IF ok THEN {} ELSE {valves})

\* The two commands of handle_accepted_cb.
SetSuckPort ==
  /\ ActionIs("first")
  /\ commanded' = action.goal
  /\ \/ SetOutPort("suck", action.goal \in Suck, TRUE) /\ SecondCommand
     \/ SetOutPort("suck", action.goal \in Suck, FALSE) /\ AbortAccepted
  /\ UNCHANGED <<io, elapsed, expired, unconfirmed>>

\* After the second command both times start; a reading that waits for the
\* mutex is older than they are.
SetBlowPort_KeepsTime ==
  /\ ActionIs("second")
  /\ \/ /\ SetOutPort("blow", action.goal \notin Suck, TRUE)
        /\ StartGoal
        /\ io' = [io EXCEPT !.own = FALSE]
        /\ expired' = FALSE
        /\ UNCHANGED elapsed
     \/ /\ SetOutPort("blow", action.goal \notin Suck, FALSE)
        /\ AbortAccepted
        /\ UNCHANGED <<io, elapsed, expired>>
  /\ UNCHANGED <<commanded, unconfirmed>>
SetBlowPort ==
  /\ ActionIs("second")
  /\ \/ /\ SetOutPort("blow", action.goal \notin Suck, TRUE)
        /\ StartGoal
        /\ io' = [io EXCEPT !.elapsed = FALSE, !.expired = FALSE, !.own = FALSE]
        /\ elapsed' = FALSE
        /\ expired' = FALSE
     \/ /\ SetOutPort("blow", action.goal \notin Suck, FALSE)
        /\ AbortAccepted
        /\ UNCHANGED <<io, elapsed, expired>>
  /\ UNCHANGED <<commanded, unconfirmed>>

-----------------------------------------------------------------------------
\* io_states_cb takes the time and the state of the input port, and looks
\* for an active goal.  Without a period the time has always passed.
ReceiveIO ==
  /\ states = "idle"
  /\ IsActive
  /\ \E suctioned \in BOOLEAN :
       io' = [suctioned |-> suctioned, own |-> TRUE, how |-> "aborted",
              elapsed |-> elapsed \/ handle \in Immediate, expired |-> expired]
  /\ StatesGo("look")
  /\ UNCHANGED <<goalVars, mutex, action, failed, valves, elapsed, expired, commanded, unconfirmed>>

\* _cur_pos is set according to the current goal, still without the mutex.
LookAtGoal ==
  /\ states = "look"
  /\ StatesGo(IF handle = NoGoal THEN "crashed" ELSE "enter")
  /\ UNCHANGED <<goalVars, mutex, action, failed, suctionVars>>

EnterIO == LockStates("judge") /\ UNCHANGED suctionVars

Agrees == io.suctioned <=> handle \in Suck

\* min_period has passed between _start_time and current_time.  While the
\* sensor disagrees, _start_time is current_time.
LongEnough == IF Agrees THEN io.elapsed ELSE handle \in Immediate

\* The time of the goal is up, and it has not succeeded yet.
TimedOut_WhileAgreeing == ~ LongEnough /\ io.expired /\ Agrees
TimedOut == ~ LongEnough /\ io.expired

\* How the callback ends: with the commands that switch the valves off.
Finishing(there, how) == StatesGo(there) /\ io' = [io EXCEPT !.how = how]

CancelCurrent_KeepsSucking ==
  /\ states = "judge"
  /\ status[handle] = "canceling"
  /\ Finishing("blowOff", "canceled")
  /\ UNCHANGED <<goalVars, mutex, action, failed, valves, elapsed, expired, commanded, unconfirmed>>
CancelCurrent ==
  /\ states = "judge"
  /\ status[handle] = "canceling"
  /\ Finishing("suckOff", "canceled")
  /\ UNCHANGED <<goalVars, mutex, action, failed, valves, elapsed, expired, commanded, unconfirmed>>

Judge ==
  /\ states = "judge"
  /\ status[handle] # "canceling"
  /\ elapsed' = (elapsed /\ Agrees)
  /\ \/ LongEnough /\ Finishing("blowOff", "succeeded") /\ UNCHANGED mutex
     \/ TimedOut /\ Finishing("suckOff", "aborted") /\ UNCHANGED mutex
     \/ ~ LongEnough /\ ~ TimedOut /\ Release("idle") /\ UNCHANGED io
  /\ UNCHANGED <<goalVars, action, failed, valves, expired, commanded, unconfirmed>>

\* Whether the commands fail is not looked at.
SuckOff ==
  /\ states = "suckOff"
  /\ \E ok \in BOOLEAN : SetOutPort("suck", FALSE, ok) /\ failed' = (failed \/ ~ ok)
  /\ StatesGo("blowOff")
  /\ UNCHANGED <<goalVars, mutex, action, io, elapsed, expired, commanded, unconfirmed>>

BlowOff ==
  /\ states = "blowOff"
  /\ \E ok \in BOOLEAN : SetOutPort("blow", FALSE, ok) /\ failed' = (failed \/ ~ ok)
  /\ End(handle, io.how)
  /\ handle' = NoGoal
  /\ Release("idle")
  /\ unconfirmed' = IF io.how = "succeeded" /\ ~ (io.own /\ Agrees)
                      THEN unconfirmed \cup {handle} ELSE unconfirmed
  /\ UNCHANGED <<action, io, elapsed, expired, commanded>>

-----------------------------------------------------------------------------
\* Time passes.
PeriodPasses ==
  /\ handle # NoGoal /\ ~ elapsed
  /\ elapsed' = TRUE
  /\ UNCHANGED <<serverVars, io, valves, expired, commanded, unconfirmed>>

TimeIsUp ==
  /\ handle \in Timed /\ ~ expired
  /\ expired' = TRUE
  /\ UNCHANGED <<serverVars, io, valves, elapsed, commanded, unconfirmed>>

SuctionActionStep ==
  \/ (LockToAccept \/ EnterCanceling) /\ UNCHANGED suctionVars
  \/ SetSuckPort \/ SetBlowPort

SuctionStatesStep ==
  \/ ReceiveIO \/ LookAtGoal \/ EnterIO \/ CancelCurrent \/ Judge \/ SuckOff \/ BlowOff

SuctionNext ==
  \/ \E g \in Goals : (RequestGoal(g) \/ RequestCancel(g)) /\ UNCHANGED suctionVars
  \/ SuctionActionStep
  \/ SuctionStatesStep
  \/ PeriodPasses
  \/ TimeIsUp

SuctionSpec == SuctionInit /\ [][SuctionNext]_suctionAll

-----------------------------------------------------------------------------
(* Properties.                                                             *)

\* When no goal is left and no callback is at work, nothing blows, and the
\* tool sucks if and only if the last goal was to suck and has succeeded:
\* what was grasped is held, and a grasp that was cancelled, ran out of time
\* or was preempted leaves no vacuum behind (unless a command has failed).
ValvesMatchLastGoal ==
  action.at = "idle" /\ states = "idle" /\ handle = NoGoal /\ ~ failed
    => /\ ~ valves.blow
       /\ valves.suck <=> commanded \in Suck /\ status[commanded] = "succeeded"

\* A goal that asks for a period succeeds on a reading of its own that
\* agrees with it, never on one that io_states_cb had taken before the goal
\* replaced another.
SuctionConfirmed == unconfirmed \subseteq Immediate

\* A goal with a timeout ends, whatever the sensor says and whichever
\* commands fail, if the node stays up.  (Every goal is sent once.)
TimedGoalEnds == [] Up => <>[] \A g \in Timed : status[g] \notin Active
=============================================================================
