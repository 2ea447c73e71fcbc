---------------------------- MODULE StepSequence ----------------------------
(***************************************************************************)
(* What the step-orchestration engine promises (spec sections 3 and 8),   *)
(* independent of how StepRegistry is built: the NSteps steps are started *)
(* one at a time in build order, each reported with its own 1-based       *)
(* position; a failed step ends the run with Err at once; the run ends    *)
(* with Ok only after every step has succeeded.                           *)
(***************************************************************************)
EXTENDS Naturals, Sequences

CONSTANT NSteps   \* the number of steps of the registry

VARIABLES
  shown,          \* the positions announced so far, in order
  results,        \* the result of each finished step, in order
  status          \* "idle": between steps; "busy": a step is running;
                  \* "ok" / "err": the run has ended with that result

seqVars == <<shown, results, status>>

SInit ==
  /\ shown = << >>
  /\ results = << >>
  /\ status = "idle"

(* The next step is announced with its position and started. *)
Begin ==
  /\ status = "idle"
  /\ Len(shown) < NSteps
  /\ shown' = Append(shown, Len(shown) + 1)
  /\ status' = "busy"
  /\ UNCHANGED results

(* The running step succeeds: the run goes on. *)
Succeeded ==
  /\ status = "busy"
  /\ results' = Append(results, "ok")
  /\ status' = "idle"
  /\ UNCHANGED shown

(* The running step fails: the run ends with Err. *)
Failed ==
  /\ status = "busy"
  /\ results' = Append(results, "err")
  /\ status' = "err"
  /\ UNCHANGED shown

(* Every step has succeeded: the run ends with Ok. *)
Completed ==
  /\ status = "idle"
  /\ Len(shown) = NSteps
  /\ status' = "ok"
  /\ UNCHANGED <<shown, results>>

SNext == Begin \/ Succeeded \/ Failed \/ Completed

SSpec == SInit /\ [][SNext]_seqVars

(* The operator runs the installer again after a run that ended with Err: *)
(* a new registry, with nothing shown yet (spec section 7).              *)
Restart == status = "err" /\ SInit'

RerunSpec == SInit /\ [][SNext \/ Restart]_seqVars

=============================================================================
