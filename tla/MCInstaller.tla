---------------------------- MODULE MCInstaller -----------------------------
(***************************************************************************)
(* Model-checking instance of Installer: step types and packages are      *)
(* model values, the registry is the one run_first_ten_steps builds.      *)
(***************************************************************************)
EXTENDS Installer

MCStepKinds == { FirstTen[i] : i \in 1..Len(FirstTen) }

(* The runs of the operator: always from a terminal, or never. *)
MCTtyAlways == {TRUE}
MCTtyNever == {FALSE}
=============================================================================
