----------------------------- MODULE MCTuiSystem -----------------------------
(* The dashboard as the code builds it: 39 rows, a simulation of 10 steps. *)
EXTENDS TuiSystem

MCNRows == 39
MCSimSteps == 10

=============================================================================
