------------------------------ MODULE TuiSystem ------------------------------
(***************************************************************************)
(* run_tui_with_installation (tui.rs): the terminal is put in raw mode and *)
(* the alternate screen, an installation task is spawned that sends       *)
(* TuiMessages over an unbounded mpsc channel, and the dashboard loop     *)
(* draws, takes at most one message with try_recv, polls the keyboard for *)
(* the rest of the tick and ends on Exit or on q/Esc.  It then awaits the  *)
(* task and restores the terminal.                                         *)
(*                                                                         *)
(* The task (run_installation_with_progress) loads the configuration and  *)
(* then only simulates the steps: StartStep(i), a sleep, CompleteStep(i)  *)
(* for i in 0..10, UpdateStatus, a sleep, Exit.  Sleeps are not modelled:  *)
(* the two tasks interleave arbitrarily (tokio's multi-threaded runtime). *)
(* main keeps tx alive, so rx is never closed and every send succeeds.    *)
(***************************************************************************)
EXTENDS TuiApp, Sequences

CONSTANTS
  SimSteps     \* the range 0..SimSteps of the simulation loop (10)

ASSUME SimStepsAssumption == SimSteps \in Nat

VARIABLES
  chan,        \* the messages sent and not yet received, oldest first
  epc,         \* the task: "idle" (not spawned), "load", "start", "complete",
               \* "exit", "done"
  ei,          \* the loop variable i of the task
  eresult,     \* the task's result: "none" while it runs, "ok" or "err"
  opc,         \* the dashboard: "setup", "draw", "recv", "poll", "check",
               \* "await", "cleanup", "returned"
  term,        \* the terminal is in raw mode or on the alternate screen
  keyQuit,     \* the user pressed q or Esc
  oresult      \* what run_tui_with_installation returned: "none", "ok", "err"

taskVars == <<epc, ei, eresult>>
loopVars == <<opc, term, keyQuit, oresult>>
tvars == <<appVars, chan, taskVars, loopVars>>

-----------------------------------------------------------------------------
(* The installation task.  main returns as soon as the dashboard returns, *)
(* and the runtime then drops the task: it only runs while opc # returned. *)

TaskRuns == opc # "returned"

(* The configuration is read and parsed; a file that exists but cannot be *)
(* read or parsed makes the task return Err, which it only prints.         *)
TaskLoad ==
  /\ TaskRuns /\ epc = "load"
  /\ \/ epc' = "start" /\ UNCHANGED eresult
     \/ epc' = "done" /\ eresult' = "err"
  /\ UNCHANGED <<appVars, chan, ei, loopVars>>

(* Mutant: the loop runs over 0..=SimSteps. *)
TaskStartInclusive ==
  /\ TaskRuns /\ epc = "start" /\ ei <= SimSteps
  /\ chan' = Append(chan, Msg("start", ei))
  /\ epc' = "complete"
  /\ UNCHANGED <<appVars, ei, eresult, loopVars>>

TaskStart ==
  /\ TaskRuns /\ epc = "start" /\ ei < SimSteps
  /\ chan' = Append(chan, Msg("start", ei))
  /\ epc' = "complete"
  /\ UNCHANGED <<appVars, ei, eresult, loopVars>>

(* Mutant: the CompleteStep send is left out. *)
TaskCompleteNoSend ==
  /\ TaskRuns /\ epc = "complete"
  /\ ei' = ei + 1
  /\ epc' = "start"
  /\ UNCHANGED <<appVars, chan, eresult, loopVars>>

(* Mutant: the loop index is not advanced after CompleteStep. *)
TaskCompleteNoAdvance ==
  /\ TaskRuns /\ epc = "complete"
  /\ chan' = Append(chan, Msg("complete", ei))
  /\ epc' = "start"
  /\ UNCHANGED <<appVars, ei, eresult, loopVars>>

TaskComplete ==
  /\ TaskRuns /\ epc = "complete"
  /\ chan' = Append(chan, Msg("complete", ei))
  /\ ei' = ei + 1
  /\ epc' = "start"
  /\ UNCHANGED <<appVars, eresult, loopVars>>

(* Mutant: the loop over 0..SimSteps never ends (an off-by-one exit test). *)
TaskStatusNever ==
  /\ TaskRuns /\ epc = "start" /\ ei > SimSteps
  /\ chan' = Append(chan, StatusMsg)
  /\ epc' = "exit"
  /\ UNCHANGED <<appVars, ei, eresult, loopVars>>

TaskStatus ==
  /\ TaskRuns /\ epc = "start" /\ ei >= SimSteps
  /\ chan' = Append(chan, StatusMsg)
  /\ epc' = "exit"
  /\ UNCHANGED <<appVars, ei, eresult, loopVars>>

TaskExit ==
  /\ TaskRuns /\ epc = "exit"
  /\ chan' = Append(chan, ExitMsg)
  /\ epc' = "done"
  /\ eresult' = "ok"
  /\ UNCHANGED <<appVars, ei, loopVars>>

TaskNext == TaskLoad \/ TaskStart \/ TaskComplete \/ TaskStatus \/ TaskExit

-----------------------------------------------------------------------------
(* The dashboard.  Every `?` of the function returns Err at once, before   *)
(* the cleanup after the loop.                                             *)

Return(r) == opc' = "returned" /\ oresult' = r

(* enable_raw_mode, EnterAlternateScreen and Terminal::new, then the      *)
(* channel and tokio::spawn of the task.                                   *)
Setup ==
  /\ opc = "setup"
  /\ \/ Return("err") /\ UNCHANGED <<term, epc>>
     \/ Return("err") /\ term' = TRUE /\ UNCHANGED epc
     \/ opc' = "draw" /\ term' = TRUE /\ epc' = "load" /\ UNCHANGED oresult
  /\ UNCHANGED <<appVars, chan, ei, eresult, keyQuit>>

(* terminal.draw(|f| app.ui(f))? *)
Draw ==
  /\ opc = "draw"
  /\ \/ opc' = "recv" /\ UNCHANGED oresult
     \/ Return("err")
  /\ UNCHANGED <<appVars, chan, taskVars, term, keyQuit>>

(* if let Ok(message) = rx.try_recv(): at most one message per tick. *)
Recv ==
  /\ opc = "recv"
  /\ \/ chan = << >> /\ UNCHANGED <<appVars, chan>>
     \/ chan # << >> /\ HandleMessage(Head(chan)) /\ chan' = Tail(chan)
  /\ opc' = "poll"
  /\ UNCHANGED <<taskVars, term, keyQuit, oresult>>

(* event::poll(timeout)? and event::read()?: q or Esc breaks the loop,     *)
(* another key or none goes on, an error returns.                          *)
Poll ==
  /\ opc = "poll"
  /\ \/ opc' = "await" /\ keyQuit' = TRUE /\ UNCHANGED oresult
     \/ opc' = "check" /\ UNCHANGED <<keyQuit, oresult>>
     \/ Return("err") /\ UNCHANGED keyQuit
  /\ UNCHANGED <<appVars, chan, taskVars, term>>

(* if app.should_quit() { break; } *)
CheckQuit ==
  /\ opc = "check"
  /\ opc' = IF quit THEN "await" ELSE "draw"
  /\ UNCHANGED <<appVars, chan, taskVars, term, keyQuit, oresult>>

(* let _ = install_handle.await: the task's result is discarded. *)
AwaitTask ==
  /\ opc = "await" /\ epc = "done"
  /\ opc' = "cleanup"
  /\ UNCHANGED <<appVars, chan, taskVars, term, keyQuit, oresult>>

(* disable_raw_mode()?, LeaveAlternateScreen and show_cursor()?: Ok(()), *)
(* or the first error is returned with the terminal not restored.        *)
Cleanup ==
  /\ opc = "cleanup"
  /\ \/ Return("ok") /\ term' = FALSE
     \/ Return("err") /\ UNCHANGED term
  /\ UNCHANGED <<appVars, chan, taskVars, keyQuit>>

LoopNext == Setup \/ Draw \/ Recv \/ Poll \/ CheckQuit \/ AwaitTask \/ Cleanup

-----------------------------------------------------------------------------

TInit ==
  /\ AppInit
  /\ chan = << >>
  /\ epc = "idle" /\ ei = 0 /\ eresult = "none"
  /\ opc = "setup" /\ term = FALSE /\ keyQuit = FALSE /\ oresult = "none"

TNext == TaskNext \/ LoopNext

TSpec == TInit /\ [][TNext]_tvars

(* Both tasks are scheduled by the runtime as long as they can run:        *)
(* poll blocks for at most the tick (250 ms) and the task only sleeps.    *)
TFairSpec == TSpec /\ WF_tvars(TaskNext) /\ WF_tvars(LoopNext)

-----------------------------------------------------------------------------

Messages ==
  [kind : {"start", "complete"}, idx : 0..SimSteps - 1] \cup {StatusMsg, ExitMsg}

TuiTypeOK ==
  /\ AppTypeOK
  /\ chan \in Seq(Messages)
  /\ epc \in {"idle", "load", "start", "complete", "exit", "done"}
  /\ ei \in 0..SimSteps
  /\ eresult \in {"none", "ok", "err"}
  /\ opc \in {"setup", "draw", "recv", "poll", "check", "await", "cleanup", "returned"}
  /\ term \in BOOLEAN
  /\ keyQuit \in BOOLEAN
  /\ oresult \in {"none", "ok", "err"}

(***************************************************************************)
(* Spec sections 3 and 5: steps run one at a time, and the channel keeps  *)
(* send order, so the dashboard never shows two rows in progress, however *)
(* far it lags behind the task.                                           *)
(***************************************************************************)
AtMostOneInProgress == Cardinality({r \in Rows : rows[r].in_progress}) <= 1

(***************************************************************************)
(* Spec section 8, scenario 3: when the task has sent StartStep and        *)
(* CompleteStep for 0..9 and Exit, the dashboard ends by itself (without  *)
(* q or Esc), however far behind the one-message-per-tick loop is.        *)
(***************************************************************************)
DashboardEndsAfterSuccess == (eresult = "ok") ~> (opc = "returned")

(***************************************************************************)
(* q or Esc does not cancel the installation task: the loop breaks and    *)
(* install_handle.await waits for the task, with nothing redrawn.  The    *)
(* dashboard still returns, because the task ends by itself, whatever     *)
(* point it had reached when the key was pressed.                         *)
(***************************************************************************)
QuitReturns == keyQuit ~> (opc = "returned")

(***************************************************************************)
(* The gauge never moves backwards.  start_step resets a completed row     *)
(* (spec 4.3), so this rests on the task starting each row once, before    *)
(* its CompleteStep, and on the channel handing messages over in order,    *)
(* however far the loop lags behind.                                       *)
(***************************************************************************)
ProgressNeverDecreases == [][doneShown' >= doneShown]_tvars

(***************************************************************************)
(* Spec section 8, scenario 3: a dashboard that ended on Exit shows a     *)
(* final aggregate of 100%.                                               *)
(***************************************************************************)
FinalProgressFull == (opc = "returned" /\ quit) => Percent = 100

(***************************************************************************)
(* Spec section 6: the exit status is non-zero on any unrecovered failure: *)
(* when the installation task failed, run_tui_with_installation does not   *)
(* return Ok.                                                              *)
(***************************************************************************)
ExitStatusReflectsFailure ==
  (opc = "returned" /\ eresult = "err") => oresult # "ok"

(***************************************************************************)
(* The setup at the start of run_tui_with_installation is undone whenever *)
(* it returns: the user's shell is not left in raw mode or on the         *)
(* alternate screen.                                                       *)
(***************************************************************************)
TerminalRestored == opc = "returned" => ~term

=============================================================================
