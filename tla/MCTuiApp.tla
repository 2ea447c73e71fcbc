------------------------------ MODULE MCTuiApp ------------------------------
(* The dashboard model with three rows, driven message by message. *)
EXTENDS TuiApp

MCNRows == 3

=============================================================================
