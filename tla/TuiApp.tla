------------------------------- MODULE TuiApp -------------------------------
(***************************************************************************)
(* The dashboard's state model (tui.rs): InstallProgress, the rows of the  *)
(* dashboard with their aggregate percentage, and TuiApp::handle_message,  *)
(* which applies one TuiMessage to it.  The status text and the rendering *)
(* (TuiApp::ui) are left out: no property reads them.                     *)
(***************************************************************************)
EXTENDS Naturals, FiniteSets

CONSTANTS
  NRows        \* steps.len() of InstallProgress::new (39 rows in the code)

ASSUME NRowsAssumption == NRows \in Nat \ {0}

VARIABLES
  rows,        \* rows[r]: the flags of InstallStep r (0-based, as in steps)
  current,     \* InstallProgress.current_step
  doneShown,   \* the completed count overall_progress was last computed from
  quit         \* TuiApp.should_quit

appVars == <<rows, current, doneShown, quit>>

Rows == 0..NRows - 1

(* InstallStep::new, start, complete and fail set all three flags. *)
Pending == [in_progress |-> FALSE, completed |-> FALSE, failed |-> FALSE]
Started == [in_progress |-> TRUE, completed |-> FALSE, failed |-> FALSE]
Done    == [in_progress |-> FALSE, completed |-> TRUE, failed |-> FALSE]
Failed  == [in_progress |-> FALSE, completed |-> FALSE, failed |-> TRUE]

(* update_progress counts the completed rows. *)
CompletedCount(rs) == Cardinality({r \in Rows : rs[r].completed})

(* overall_progress = count / len * 100, shown by the Gauge as u16: the   *)
(* cast truncates.                                                         *)
Percent == (doneShown * 100) \div NRows

(* The TuiMessage values: StartStep, CompleteStep, FailStep (usize index), *)
(* UpdateStatus (its text abstracted away) and Exit.                      *)
Msg(k, i) == [kind |-> k, idx |-> i]
StatusMsg == [kind |-> "status", idx |-> 0]
ExitMsg   == [kind |-> "exit", idx |-> 0]

AppInit ==
  /\ rows = [r \in Rows |-> Pending]
  /\ current = 0
  /\ doneShown = 0
  /\ quit = FALSE

(* Mutant: current_step is assigned outside the bounds check. *)
StartStepCurrentUnchecked(i) ==
  /\ rows' = [r \in Rows |-> IF r = i THEN Started ELSE rows[r]]
  /\ current' = i
  /\ doneShown' = CompletedCount(rows')
  /\ UNCHANGED quit

(* handle_message(StartStep(i)) -> start_step: an index out of range only *)
(* changes the status text.                                               *)
StartStep(i) ==
  \/ /\ i \in Rows
     /\ rows' = [rows EXCEPT ![i] = Started]
     /\ current' = i
     /\ doneShown' = CompletedCount(rows')
     /\ UNCHANGED quit
  \/ i \notin Rows /\ UNCHANGED appVars

(* Mutant: complete_step without its update_progress call. *)
CompleteStepNoUpdate(i) ==
  \/ /\ i \in Rows
     /\ rows' = [rows EXCEPT ![i] = Done]
     /\ UNCHANGED <<current, doneShown, quit>>
  \/ i \notin Rows /\ UNCHANGED appVars

(* handle_message(CompleteStep(i)) -> complete_step, which recomputes the *)
(* aggregate.                                                              *)
CompleteStep(i) ==
  \/ /\ i \in Rows
     /\ rows' = [rows EXCEPT ![i] = Done]
     /\ doneShown' = CompletedCount(rows')
     /\ UNCHANGED <<current, quit>>
  \/ i \notin Rows /\ UNCHANGED appVars

(* handle_message(FailStep(i)) -> fail_step, which does not call          *)
(* update_progress.                                                        *)
FailStep(i) ==
  \/ /\ i \in Rows
     /\ rows' = [rows EXCEPT ![i] = Failed]
     /\ UNCHANGED <<current, doneShown, quit>>
  \/ i \notin Rows /\ UNCHANGED appVars

(* Mutant: Exit is ignored like UpdateStatus. *)
HandleExitIgnored == UNCHANGED appVars

HandleExit == quit' = TRUE /\ UNCHANGED <<rows, current, doneShown>>

(* TuiApp::handle_message: one arm per TuiMessage variant. *)
HandleMessage(m) ==
  \/ m.kind = "start"    /\ StartStep(m.idx)
  \/ m.kind = "complete" /\ CompleteStep(m.idx)
  \/ m.kind = "fail"     /\ FailStep(m.idx)
  \/ m.kind = "status"   /\ UNCHANGED appVars
  \/ m.kind = "exit"     /\ HandleExit

-----------------------------------------------------------------------------
(* The model used on its own, driven by a caller of handle_message.       *)

(* Any message, with any index up to one past the last row. *)
AnyMessage ==
  [kind : {"start", "complete", "fail"}, idx : 0..NRows] \cup {StatusMsg, ExitMsg}

AppSpec == AppInit /\ [][\E m \in AnyMessage : HandleMessage(m)]_appVars

(* A caller that keeps the protocol of spec 4.3: complete_step and        *)
(* fail_step only for the row in progress (or an index out of range,      *)
(* which spec 8 allows).                                                   *)
ProtocolNext ==
  \E m \in AnyMessage :
    /\ (m.kind \in {"complete", "fail"} /\ m.idx \in Rows) => rows[m.idx].in_progress
    /\ HandleMessage(m)

ProtocolSpec == AppInit /\ [][ProtocolNext]_appVars

-----------------------------------------------------------------------------

AppTypeOK ==
  /\ rows \in [Rows -> {Pending, Started, Done, Failed}]
  /\ current \in Rows
  /\ doneShown \in 0..NRows
  /\ quit \in BOOLEAN

(***************************************************************************)
(* Spec section 8: after any state mutation the aggregate percentage is   *)
(* 100 * (count of Completed) / total, whatever rows are in Failed or     *)
(* InProgress.  update_progress is the only writer of overall_progress.   *)
(***************************************************************************)
AggregateMatches == doneShown = CompletedCount(rows)

=============================================================================
