------------------------- MODULE FTSensorBroadcaster -------------------------
(***************************************************************************)
(* The controller that filters what a force-torque sensor measures,        *)
(* publishes it and is calibrated from samples.  Its services only set     *)
(* flags; the thread that updates the controllers takes the samples when   *)
(* it next comes by.  Neither the flags nor the samples are under a lock.  *)
(*                                                                         *)
(* The services share a callback group, so that one follows the other.     *)
(* Controllers are activated and deactivated between two updates.          *)
(***************************************************************************)
EXTENDS Naturals

CONSTANT MaxSamples   \* bound on the samples requested before they are cleared

ASSUME SamplesAssumption == MaxSamples \in Nat

VARIABLES
  lifecycle,   \* state of the controller
  joints,      \* the positions of all joints of the chain have been received
  doSample, doReset,
  nsamples,
  sums,        \* how many samples are in _k_sum, ..., _mm_sum
  params,      \* whence the mass and the offsets that compensate gravity are
  saved,       \* the parameters in the calibration file, if it has been written
  update,      \* where the thread that updates controllers is
  service,     \* where the thread of the services is
  requested,   \* history: samples requested since they were cleared
  torn         \* history: samples were cleared while one was taken

ftVars == <<lifecycle, joints, doSample, doReset, nsamples, sums, params, saved,
            update, service, requested, torn>>

Parameters == [mass : {"given", "computed"}, offset : {"given", "computed", "reset"}]

FTTypeOK ==
  /\ lifecycle \in {"unloaded", "finalized", "unconfigured", "inactive", "active"}
  /\ nsamples \in Nat /\ sums \in Nat
  /\ params \in Parameters
  /\ saved \subseteq Parameters
  /\ update \in {"idle", "measured", "flags", "sum", "taken", "bias", "publish"}
  /\ service \in {"idle", "clear", "compute"}
  /\ requested \in 0 .. MaxSamples
  /\ {joints, doSample, doReset, torn} \subseteq BOOLEAN
  /\ update # "idle" => lifecycle = "active"

FTInit ==
  /\ lifecycle = "unloaded" /\ joints = FALSE
  /\ doSample = FALSE /\ doReset = FALSE
  /\ nsamples = 0 /\ sums = 0
  /\ params = [mass |-> "given", offset |-> "given"] /\ saved = {}
  /\ update = "idle" /\ service = "idle"
  /\ requested = 0 /\ torn = FALSE

-----------------------------------------------------------------------------
(* The life cycle.  Flags and samples are left as they are.                *)

LifecycleGoes(here, there) ==
  /\ update = "idle"
  /\ lifecycle = here /\ lifecycle' = there
  /\ UNCHANGED <<joints, doSample, doReset, nsamples, sums, params, saved,
                 update, service, requested, torn>>

\* What on_init asks for: the controller is not loaded when some is missing.  Of
\* a chain whose joints are all fixed no position needs to be received.
Needed == {"frame_id", "publish_rate", "robot_description", "tree", "chain"}

OnInit ==
  /\ lifecycle = "unloaded"
  /\ \E found \in SUBSET Needed :
       IF found = Needed
         THEN lifecycle' = "unconfigured" /\ joints' \in BOOLEAN
         ELSE lifecycle' = "finalized" /\ UNCHANGED joints
  /\ UNCHANGED <<doSample, doReset, nsamples, sums, params, saved, update, service, requested, torn>>

\* The services and the subscription are created.
OnConfigure == LifecycleGoes("unconfigured", "inactive")
OnActivate == LifecycleGoes("inactive", "active")
OnDeactivate == LifecycleGoes("active", "inactive")

-----------------------------------------------------------------------------
(* The topic and the services.                                             *)

Serves == lifecycle \in {"inactive", "active"} /\ service = "idle"

\* A message may be about some of the joints only; what was received is kept.
JointStateCB ==
  /\ Serves
  /\ joints' \in {joints, TRUE}
  /\ UNCHANGED <<lifecycle, doSample, doReset, nsamples, sums, params, saved, update, service, requested, torn>>

TakeSampleCB ==
  /\ Serves
  /\ requested < MaxSamples
  /\ requested' = requested + 1
  /\ doSample' = TRUE
  /\ UNCHANGED <<lifecycle, joints, doReset, nsamples, sums, params, saved, update, service, torn>>

ResetBiasCB ==
  /\ Serves
  /\ doReset' = TRUE
  /\ UNCHANGED <<lifecycle, joints, doSample, nsamples, sums, params, saved, update, service, requested, torn>>

\* clear_samples: the counter, then the sums.
ClearSamplesCB ==
  /\ \/ /\ Serves
        /\ service' = "clear"
        /\ nsamples' = 0
        /\ requested' = IF doSample THEN 1 ELSE 0
        /\ UNCHANGED sums
     \/ /\ service = "clear"
        /\ service' = "idle"
        /\ sums' = 0
        /\ UNCHANGED <<nsamples, requested>>
  /\ torn' = (torn \/ update \in {"sum", "taken"})
  /\ UNCHANGED <<lifecycle, joints, doSample, doReset, params, saved, update>>

\* compute_calibration divides by the number of samples throughout.
ComputeCalibrationCB ==
  /\ \/ /\ Serves
        /\ service' = IF nsamples < 3 THEN "idle" ELSE "compute"
        /\ UNCHANGED params
     \/ /\ service = "compute"
        /\ service' = "idle"
        /\ params' = [mass |-> "computed", offset |-> "computed"]
  /\ UNCHANGED <<lifecycle, joints, doSample, doReset, nsamples, sums, saved, update, requested, torn>>

\* save_calibration, unless the file cannot be opened.
SaveCalibrationCB ==
  /\ Serves
  /\ saved' = {params}
  /\ UNCHANGED <<lifecycle, joints, doSample, doReset, nsamples, sums, params,
                 update, service, requested, torn>>

-----------------------------------------------------------------------------
(* update_and_write_commands.                                              *)

Goes(here, there) == update = here /\ update' = there

\* Enough time has passed since it last published, and it measures.
UpdateBegins ==
  /\ lifecycle = "active"
  /\ Goes("idle", "measured")
  /\ UNCHANGED <<lifecycle, joints, doSample, doReset, nsamples, sums, params, saved, service, requested, torn>>

\* get_jnt_pos throws for a joint whose position has never been received.
GetJntPos == IF joints THEN "flags" ELSE "idle"

LookupJoints ==
  /\ Goes("measured", GetJntPos)
  /\ UNCHANGED <<lifecycle, joints, doSample, doReset, nsamples, sums, params, saved, service, requested, torn>>

LookAtFlags ==
  /\ \/ doSample /\ Goes("flags", "sum") /\ nsamples' = nsamples + 1
     \/ ~ doSample /\ Goes("flags", IF doReset THEN "bias" ELSE "publish") /\ UNCHANGED nsamples
  /\ torn' = (torn \/ (doSample /\ service = "clear"))
  /\ UNCHANGED <<lifecycle, joints, doSample, doReset, sums, params, saved, service, requested>>

AddToSums ==
  /\ Goes("sum", "taken")
  /\ sums' = sums + 1
  /\ UNCHANGED <<lifecycle, joints, doSample, doReset, nsamples, params, saved, service, requested, torn>>

SampleTaken_KeepsFlag ==
  /\ Goes("taken", "publish")
  /\ UNCHANGED <<lifecycle, joints, doSample, doReset, nsamples, sums, params, saved, service, requested, torn>>
SampleTaken ==
  /\ Goes("taken", "publish")
  /\ doSample' = FALSE
  /\ UNCHANGED <<lifecycle, joints, doReset, nsamples, sums, params, saved, service, requested, torn>>

ResetBias ==
  /\ Goes("bias", "publish")
  /\ params' = [params EXCEPT !.offset = "reset"]
  /\ doReset' = FALSE
  /\ UNCHANGED <<lifecycle, joints, doSample, nsamples, sums, saved, service, requested, torn>>

PublishWrench ==
  /\ Goes("publish", "idle")
  /\ UNCHANGED <<lifecycle, joints, doSample, doReset, nsamples, sums, params, saved, service, requested, torn>>

FTNext ==
  \/ OnInit \/ OnConfigure \/ OnActivate \/ OnDeactivate \/ JointStateCB
  \/ TakeSampleCB \/ ResetBiasCB \/ ClearSamplesCB
  \/ ComputeCalibrationCB \/ SaveCalibrationCB
  \/ UpdateBegins \/ LookupJoints \/ LookAtFlags \/ AddToSums
  \/ SampleTaken \/ ResetBias \/ PublishWrench

FTSpec == FTInit /\ [][FTNext]_ftVars

-----------------------------------------------------------------------------
\* Unless samples are cleared just when one is taken: every sample was requested
\* after the others were cleared, or was still to be taken then, and the
\* sums, which lag behind by one at most, are over as many as are counted.
\* When all requests have been looked at at least one sample was taken.  A
\* calibration is computed from three samples or more.
SamplesWereAsked ==
  /\ ~ torn =>
       /\ nsamples <= requested
       /\ service # "clear" => nsamples = IF update = "sum" THEN sums + 1 ELSE sums
       /\ requested > 0 /\ ~ doSample => nsamples > 0
  /\ service = "compute" => nsamples >= 3
=============================================================================
