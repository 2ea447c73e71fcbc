------------------------------ MODULE Registry ------------------------------
(***************************************************************************)
(* StepRegistry (src/openvair_installer/src/installer.rs): an ordered list *)
(* of boxed InstallerStep objects, built once by add_step, and            *)
(* execute_all, which runs them one at a time against the context.        *)
(*                                                                         *)
(* For each step execute_all logs "[pos/total] name: description", where   *)
(* pos comes from get_current_step_number, awaits step.run(ctx) and, on    *)
(* Ok, logs completion.  The first Err is propagated by `?`: no later step *)
(* runs.  What a step does is abstracted here to its outcome; the module   *)
(* Installer gives the steps of the real registries their bodies.          *)
(***************************************************************************)
EXTENDS Naturals, Sequences, Functions

CONSTANTS
  StepKinds,   \* the unit structs that implement InstallerStep
  Steps        \* the registry as built by the chain of add_step calls

ASSUME StepsAssumption == Steps \in Seq(StepKinds)

VARIABLES
  pc,          \* 1-based index of the step the for loop is at
  phase,       \* "announce": about to log and run step pc; "running": awaiting
               \* step.run; "ok"/"err": execute_all has returned that result
  invoked,     \* history: the indices of the steps whose run was called
  outcomes,    \* history: the result of each finished run, in order
  reported     \* history: the position printed in each "[pos/total]" line

vars == <<pc, phase, invoked, outcomes, reported>>

N == Len(Steps)

Phases == {"announce", "running", "ok", "err"}

(***************************************************************************)
(* get_current_step_number(step): position of the first boxed step for     *)
(* which std::ptr::eq(boxed, step) holds, plus one (unwrap_or(0) + 1).     *)
(* ptr::eq on two &dyn InstallerStep compares data pointer and vtable.     *)
(* Every step type of the installer is a unit struct, so Box::new does not *)
(* allocate and every box holds the same dangling data pointer: boxes of   *)
(* different types differ only by vtable, boxes of the same type may be    *)
(* equal.  Whether two uses of one type share a vtable is not specified by *)
(* Rust (vtables may be duplicated), so the first match is any index j <=  *)
(* i of the same type (i itself always matches).  The 0 fallback is never  *)
(* taken because the step is found at its own index at the latest.         *)
(***************************************************************************)
(* Mutant: the 1-based count gets the + 1 of unwrap_or(0) + 1 again. *)
PositionOutcomesPlusOne(i) ==
  { j + 1 : j \in { k \in 1..i : Steps[k] = Steps[i] } }

PositionOutcomes(i) == { j \in 1..i : Steps[j] = Steps[i] }

Init ==
  /\ pc = 1
  /\ phase = "announce"
  /\ invoked = << >>
  /\ outcomes = << >>
  /\ reported = << >>

(* Loop body up to the await: log the position and call step.run(ctx). *)
Announce ==
  /\ phase = "announce"
  /\ pc <= N
  /\ \E pos \in PositionOutcomes(pc) : reported' = Append(reported, pos)
  /\ invoked' = Append(invoked, pc)
  /\ phase' = "running"
  /\ UNCHANGED <<pc, outcomes>>

(* step.run(ctx).await returned Ok: log completion, go to the next step. *)
StepOk ==
  /\ phase = "running"
  /\ outcomes' = Append(outcomes, "ok")
  /\ pc' = pc + 1
  /\ phase' = "announce"
  /\ UNCHANGED <<invoked, reported>>

(* Mutant: an Err is logged and the loop goes on (no `?`). *)
StepErrContinues ==
  /\ phase = "running"
  /\ outcomes' = Append(outcomes, "err")
  /\ pc' = pc + 1
  /\ phase' = "announce"
  /\ UNCHANGED <<invoked, reported>>

(* step.run(ctx).await returned Err: `?` returns it from execute_all. *)
StepErr ==
  /\ phase = "running"
  /\ outcomes' = Append(outcomes, "err")
  /\ phase' = "err"
  /\ UNCHANGED <<pc, invoked, reported>>

(* Mutant: the loop stops before the last step (an off-by-one bound). *)
FinishEarly ==
  /\ phase = "announce"
  /\ pc = N
  /\ phase' = "ok"
  /\ UNCHANGED <<pc, invoked, outcomes, reported>>

(* The for loop is exhausted: execute_all returns Ok(()). *)
Finish ==
  /\ phase = "announce"
  /\ pc = N + 1
  /\ phase' = "ok"
  /\ UNCHANGED <<pc, invoked, outcomes, reported>>

Next == Announce \/ StepOk \/ StepErr \/ Finish

Spec == Init /\ [][Next]_vars

-----------------------------------------------------------------------------

TypeOK ==
  /\ pc \in 1..N + 1
  /\ phase \in Phases
  /\ invoked \in Seq(1..N)
  /\ outcomes \in Seq({"ok", "err"})
  /\ reported \in Seq(1..N)

(***************************************************************************)
(* Fail-fast sequencing (spec section 8, first property): the steps whose  *)
(* run was called are exactly steps 1..k in build order, each once; every  *)
(* finished run but the last succeeded; execute_all returned Err iff the   *)
(* last run failed, and returned Ok only after all N steps succeeded.      *)
(***************************************************************************)
FailFast ==
  /\ invoked = [k \in 1..Len(invoked) |-> k]
  /\ \A k \in 1..Len(outcomes) : outcomes[k] = "err" => k = Len(outcomes)
  /\ phase = "err" <=> (outcomes # << >> /\ outcomes[Len(outcomes)] = "err")
  /\ phase = "ok" => Len(outcomes) = N

(***************************************************************************)
(* The position printed for the k-th step run is its 1-based index in the  *)
(* registry, whatever identity the step object has (spec section 8,       *)
(* second property).                                                       *)
(***************************************************************************)
PositionCorrect ==
  \A k \in 1..Len(reported) : reported[k] = invoked[k]

-----------------------------------------------------------------------------
(***************************************************************************)
(* The refinement mapping onto StepSequence: the announced positions are  *)
(* the positions printed, the results are the outcomes of the runs, and   *)
(* the loop's phase gives the status.                                     *)
(***************************************************************************)
SeqStatus ==
  CASE phase = "announce" -> "idle"
    [] phase = "running"  -> "busy"
    [] OTHER              -> phase

Abstract == INSTANCE StepSequence
              WITH NSteps <- N, shown <- reported, results <- outcomes,
                   status <- SeqStatus

(***************************************************************************)
(* execute_all implements the engine's contract (spec sections 3 and 8):  *)
(* in every run of the for loop the printed positions count 1, 2, ... in  *)
(* build order, the first Err ends the run, and Ok comes only after all   *)
(* N steps succeeded.                                                      *)
(***************************************************************************)
ImplementsStepSequence == Abstract!SSpec

=============================================================================
