----------------------------- MODULE ActionGoals -----------------------------
(***************************************************************************)
(* What a controller of this repository that carries out one action goal   *)
(* at a time promises to its clients.  A goal that has been accepted waits *)
(* until the goal before it has ended; it is then carried out or refused.  *)
(* Every goal ends once, in a way that its state allows.                   *)
(***************************************************************************)
CONSTANTS
  Goals,
  NoGoal

VARIABLES
  status,   \* state of each goal: what its client is told
  current,  \* goal that is being carried out
  waiting   \* goal that has been accepted and is not carried out yet

goalVars == <<status, current, waiting>>

Active == {"executing", "canceling"}
Ended == {"succeeded", "aborted", "canceled"}

GoalsInit ==
  /\ status = [g \in Goals |-> "none"]
  /\ current = NoGoal
  /\ waiting = NoGoal

Accept(g) ==
  /\ status[g] = "none"
  /\ waiting = NoGoal
  /\ status' = [status EXCEPT ![g] = "executing"]
  /\ waiting' = g
  /\ UNCHANGED current

Start ==
  /\ current = NoGoal
  /\ waiting # NoGoal
  /\ current' = waiting
  /\ waiting' = NoGoal
  /\ UNCHANGED status

Refuse ==
  /\ current = NoGoal
  /\ waiting # NoGoal
  /\ status' = [status EXCEPT ![waiting] = "aborted"]
  /\ waiting' = NoGoal
  /\ UNCHANGED current

Cancel(g) ==
  /\ status[g] = "executing"
  /\ status' = [status EXCEPT ![g] = "canceling"]
  /\ UNCHANGED <<current, waiting>>

Finish(how) ==
  /\ current # NoGoal
  /\ status[current] \in Active
  /\ how = "canceled" => status[current] = "canceling"
  /\ status' = [status EXCEPT ![current] = how]
  /\ current' = NoGoal
  /\ UNCHANGED waiting

GoalsNext ==
  \/ \E g \in Goals : Accept(g) \/ Cancel(g)
  \/ Start
  \/ Refuse
  \/ \E how \in Ended : Finish(how)

GoalsSpec == GoalsInit /\ [][GoalsNext]_goalVars

=============================================================================
