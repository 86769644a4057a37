----------------------------- MODULE SimpleServer -----------------------------
(***************************************************************************)
(* The action server of ROS 1 as the trackers use it: one goal at a time,  *)
(* a new one preempts the one before.  Its callbacks hold its lock from    *)
(* the request until they return; whoever else sets a result waits for it. *)
(*                                                                         *)
(* A worker, a timer loop or the callback of a topic, pursues the current  *)
(* goal without holding the lock.                                          *)
(***************************************************************************)
EXTENDS Naturals

CONSTANTS Goals, NoGoal

ASSUME ServerAssumption == NoGoal \notin Goals

VARIABLES
  status,    \* state of each goal
  current,   \* current goal of the server
  server,    \* the callback that runs, and the goal that waits to be accepted
  worker,    \* where the worker is, and what it has read
  overlap    \* history: a callback has run while the worker was at work

serverVars == <<status, current, server, worker, overlap>>

ServerTypeOK ==
  /\ status \in [Goals -> {"none", "pending", "active", "succeeded", "aborted", "preempted"}]
  /\ current \in Goals \cup {NoGoal}
  /\ server \in [at : {"idle", "preempt", "stopped", "goal", "accepted", "init"},
                 goal : Goals \cup {NoGoal}]
  /\ overlap \in BOOLEAN

ServerInit ==
  /\ status = [g \in Goals |-> "none"]
  /\ current = NoGoal
  /\ server = [at |-> "idle", goal |-> NoGoal]
  /\ overlap = FALSE

IsActive == current # NoGoal /\ status[current] = "active"
End(g, how) == status' = [status EXCEPT ![g] = how]

ServerGoes(here, there) == server.at = here /\ server' = [server EXCEPT !.at = there]
ServerReturns(here) == server.at = here /\ server' = [at |-> "idle", goal |-> NoGoal]

\* To be conjoined with every step.
NotesOverlap == overlap' = (overlap \/ (server'.at # "idle" /\ worker'.at # "idle"))

\* A new goal; the preempt callback is called first if a goal is active.
RequestGoal(g) ==
  /\ server.at = "idle"
  /\ status[g] = "none"
  /\ End(g, "pending")
  /\ server' = [at |-> IF IsActive THEN "preempt" ELSE "goal", goal |-> g]
  /\ UNCHANGED <<current, worker>>

RequestCancel ==
  /\ IsActive
  /\ ServerGoes("idle", "preempt")
  /\ UNCHANGED <<status, current, worker>>

SetPreempted(here) ==
  /\ IF server.goal = NoGoal THEN ServerReturns(here) ELSE ServerGoes(here, "goal")
  /\ End(current, "preempted")
  /\ UNCHANGED <<current, worker>>

AcceptNewGoal(here) ==
  /\ ServerGoes(here, "accepted")
  /\ End(server.goal, "active")
  /\ current' = server.goal
  /\ UNCHANGED worker

\* The worker sets the result of whatever goal is current by now.
SetResult(how) ==
  /\ server.at = "idle"
  /\ IF IsActive THEN End(current, how) ELSE UNCHANGED status
=============================================================================
