# TLA+ models of the OpenVAir installer

This directory holds TLA+ models of `src/openvair_installer` (a Rust
installer). It contains TLC configurations that model-check them and TLAPS
proofs of their main safety properties.

## The system

The installer has these parts:

* **StepRegistry** (`installer.rs` 43-77). It holds an ordered list of boxed
  `InstallerStep` objects, built once with `add_step`. Its `execute_all` runs
  the steps one after another. Before each step it logs
  `[pos/total] name: description`, where `get_current_step_number` finds `pos`
  with `std::ptr::eq`. It returns the first `Err` through `?`.
* **The first ten steps** (`installer.rs` 83-299, `run_first_ten_steps`
  310-335). They work on the host through `system.rs`:
  * `install_package`, which skips any package that `dpkg -l` lists;
  * `run_command` and `run_shell`;
  * `file_exists`, `read_file`, `append_to_file` and `get_os_info`.

  They also work on the configuration file through `config.rs`: `save` and the
  `update_*` methods write the whole file with `fs::write`.
* **Configuration** (`config.rs`). `load_or_create_interactive` parses
  `CONFIG_FILE` or takes the default. It prompts for an empty login or
  password, and for an empty host or the default `localhost`, then saves. A
  prompt without a terminal fails, and the process exits.
* **Console entry** (`main.rs`). `install` without `--tui` calls
  `run_installation`, which calls `run_first_ten_steps`. A failure ends the
  process. The operator then fixes the host and runs the installer again; spec
  section 7 says such a re-run is safe.
* **Extended steps** (`extended_steps.rs`, `run_extended_installation`). These
  are eleven more steps, run after the first ten by a registry of 21 steps.
  They install packages, enable services and `pip install` into the venv.
* **TUI** (`tui.rs`, `install --tui`). A spawned installation task sends
  Start/Complete/UpdateStatus/Exit messages over an unbounded mpsc channel. The
  task does not run the real steps: it simulates steps 0..9. The dashboard
  loop draws, reads at most one message per tick into an `InstallProgress` of
  39 rows, and polls the keyboard. It ends on `Exit` or on q/Esc, then awaits
  the task and restores the terminal.
* **Logging and constants.** These are output and names only. They are not
  modelled.

## Modules

| Module | Models | State | Actions |
|---|---|---|---|
| `Registry` | `StepRegistry` | `pc`, `phase`, and the histories `invoked`, `outcomes`, `reported` | `Announce` (log the position and call `run`), `StepOk`, `StepErr` (the `?`), `Finish` |
| `Installer` | the console install of ten steps, and operator re-runs | `proc`, `disk` (the config file, possibly `Corrupt`), `cfg` (`ctx.config`), `pkgs` (dpkg state), `venv`, `ppLines`, `faults` | `LoadConfig`, one action per step's `run`, `IAnnounce`, `IFinish`, `Rerun` |
| `ExtendedInstaller` | the extended install of 21 steps, and re-runs | the `Installer` state, plus `reqs` (requirements.txt: none, without pre-commit, with pre-commit) and `precommit` (`venv/bin/pre-commit` exists) | the `Installer` actions, plus one action per extended step's `run` |
| `TuiApp` | `InstallProgress` and `TuiApp::handle_message` | `rows` (the three flags of each row), `current`, `doneShown` (the count `overall_progress` was computed from), `quit` | `StartStep`, `CompleteStep`, `FailStep`, `HandleExit`, and `HandleMessage` over all variants |
| `TuiSystem` | `run_tui_with_installation` with its task | the `TuiApp` state, `chan`, the task's `epc`/`ei`/`eresult`, the loop's `opc`, `term`, `keyQuit`, `oresult` | task: `TaskLoad`, `TaskStart`, `TaskComplete`, `TaskStatus`, `TaskExit`; loop: `Setup`, `Draw`, `Recv`, `Poll`, `CheckQuit`, `AwaitTask`, `Cleanup` |
| `StepSequence` | the engine's contract (spec sections 3 and 8), independent of the code | `shown` (positions announced), `results`, `status` | `Begin`, `Succeeded`, `Failed`, `Completed`; `Restart` for an operator re-run |
| `RegistryProofs` | TLAPS proofs about `Registry` | | |
| `InstallerProofs` | TLAPS proofs about `Installer` | | |
| `ExtendedInstallerProofs` | TLAPS proofs about `ExtendedInstaller` | | |
| `TuiAppProofs` | TLAPS proofs about `TuiApp` | | |
| `TuiSystemProofs` | TLAPS proofs about `TuiSystem` | | |
| `MCInstaller`, `MCExtendedInstaller`, `MCTuiApp`, `MCTuiSystem` | model values, step lists and bounds for TLC | | |

### How the code maps to the model

* **Step positions.** `get_current_step_number` compares fat pointers. The
  step types are unit structs, so `Box::new` does not allocate, and every box
  holds the same dangling data pointer. Only the vtable tells boxes apart, and
  Rust does not promise whether two uses of one type share a vtable. The model
  (`PositionOutcomes`) therefore lets the printed position be any earlier index
  that holds the same step type.
* **Data is abstracted.** Login and password become length classes (empty,
  short, valid, long). The host is `empty`, the default `localhost`, or
  another name. `Validate` is `validate`'s test on these classes. A JWT secret is one of two values: a new secret always
  differs from the old one. The OS type is either empty or detected.
* **Failures.** Every external command may fail, and each failure uses up one
  of `MaxFaults`. Some failures leave partial state:
  * a failed `apt-get` leaves the package absent or `unpacked` (dpkg `iU`/`iF`);
  * a failed `python3 -m venv` may leave a directory without `bin/activate`;
  * a failed `fs::write` leaves the old file or a truncated one that does not
    parse.

  The constant `TtyChoices` says whether a process has a terminal. Every
  re-run picks again from it. `LoadConfig` models the three outcomes of
  `load_or_create_interactive`:
  * the file does not parse, and the process exits;
  * a prompt is needed but there is no terminal, and the process exits with
    nothing saved;
  * the prompts (any answers) are followed by the `save`, which may fail.

  A kill at an await point leaves the same host state as a failure of the
  operation in progress, so kills are not a separate action.
* **Extended steps.** A `pip install` runs through `sh -c` with the venv's
  pip. Without a complete venv the shell cannot find pip, and the step fails.
  `PythonRequirementsStep` skips a missing `requirements.txt`. A failed
  `pip install -r` may already have installed pre-commit. Services, group
  membership and ownership are read by no later step, so only the success or
  failure of those commands is kept.
* **TUI.** `overall_progress` is kept as the completed count it was computed
  from (`doneShown`). `Percent` is that count times 100, divided by 39 with
  truncation, as the `u16` cast does. The status text and the rendering are
  left out. The sleeps are not modelled: the task and the loop interleave
  freely, as on tokio's multi-threaded runtime. `main` keeps `tx` alive, so
  every send succeeds. The task runs only while the dashboard has not
  returned, because `main` exits right after it and the runtime drops the task.

## Runs

There are twelve runs. Four pass and eight are expected violations. Every
property of a passing run has a mutant: a plausible bug in the definition of
the code it concerns. TLC finds each mutant.

### Console installation

`MCInstaller` uses the real registry of `run_first_ten_steps`, with
`MaxFaults` of 2 for the safety violations and 1 for the liveness ones.
Initially the host has each package absent or installed, the venv absent or
complete, and any configuration record. All its runs are violations.

| Run | Expect | What it shows |
|---|---|---|
| `installer_pkgs` | violation | a package that a failed install left unpacked is skipped on re-run, which reports success |
| `installer_jwt` | violation | each re-run replaces the stored JWT secret |
| `installer_rerun` | violation (liveness) | one interrupted `save` leaves a config that no later run can load |
| `installer_venv` | violation (liveness) | a half-made venv directory makes every re-run fail at PythonPath |
| `installer_unattended` (`TtyChoices = {FALSE}`) | violation | a configuration that `validate-config` accepts still stops a run without a terminal: `host` defaults to `"localhost"`, and `config.rs` 250 prompts for that value; `--non-interactive` is only logged (`main.rs` 125) |

The first four runs give every process a terminal, so that they show their
own problem and not the prompt.

The liveness runs use `WF_allvars(INext)`. It stands for two things: the
process always takes its next step, and the operator keeps re-running it while
it has not succeeded. `MaxFaults` bounds the failures, so failures stop
eventually.

### Extended installation

`MCExtendedInstaller` uses the real 21-step registry of
`run_extended_installation`. Its first ten steps are the console ones, so its
safety run also covers every `Installer` action. The package lists are cut to
two packages for libvirt and one for storage: only their order and their dpkg
state matter. The host starts as in `MCInstaller`, with the extended packages
absent and `requirements.txt` in any of its three forms. `MaxFaults = 2` is
enough for one fault to cut a run short and a second to hit the re-run.

| Run | Expect | What it shows |
|---|---|---|
| `extended_safety` (`MCExtendedInstaller.cfg`, with or without a terminal) | pass, about 3.1M states, under a minute | see below |
| `extended_requirements` (`MCExtendedInstallerReqs.cfg`, `MaxFaults = 0`) | violation (liveness) | on a host without `requirements.txt`, or with one that does not list pre-commit, the extended install never succeeds, even though no operation fails |

`extended_safety` shows the following, under any interleaving of faults,
terminals and re-runs:

* `execute_all` is fail-fast, and the positions it prints are correct
  (`FailFast`, `PositionCorrect`);
* the PYTHONPATH line is never appended twice (`PythonPathOnce`);
* a successful run leaves the file equal to the configuration it used, and
  that configuration is valid (`InstalledConfigPersisted`);
* the operator's sequence of processes implements `StepSequence`'s
  `RerunSpec` (`ImplementsRerunSequence`; see Refinement);
* `ctx.config` never runs ahead of the file (`ConfigChangesSaved`, an action
  property). A step that changes `ctx.config` and lets the process go on has
  saved the new value. This covers `load_or_create_interactive`,
  `update_jwt_secret` and `update_os_type`. Only a failed save, which ends the
  process through `?`, leaves the two apart;
* the model is well typed (`XTypeOK`).

Deadlock checking is off: the process really stops after a successful install.
The mutants are:

* `StepErrContinues`: the `?` is dropped;
* `PositionOutcomesPlusOne`: a double `+ 1`;
* `LoadConfigSkipParse`: the file is not parsed;
* `PythonPathRunNoCheck`: the line is appended with no `contains` check;
* `OsTypeDetectionRunNoSave`: the last `save` is dropped;
* `JwtSecretRunSaveFirst`: `update_jwt_secret` saves before it assigns;
* `FinishEarly`: the loop stops one step early.

`extended_requirements` contradicts spec section 7 (c). `PythonRequirementsStep`
treats the file as optional, but `PreCommitStep` then calls
`venv/bin/pre-commit`, and only that file installs it. The run uses
`WF(XNext)`: the operator re-runs after each failure.

### TUI

`MCTuiApp` drives `handle_message` with three rows. Its caller keeps the
protocol: it completes or fails only the row in progress, or an index out of
range.

| Run | Expect | What it shows |
|---|---|---|
| `tui_app_protocol` (`MCTuiApp.cfg`) | pass | such a caller keeps the aggregate equal to the completed count (`AggregateMatches`) |

`MCTuiSystem` uses the real bounds: 39 rows and the simulation's 10 steps.

| Run | Expect | What it shows |
|---|---|---|
| `tui_system` (`MCTuiSystem.cfg`) | pass, about 1.7k states | see below |
| `tui_final_progress` | violation | the dashboard ends on `Exit` at 25% (10 of 39 rows), not 100% |
| `tui_exit_status` | violation | the task's error is discarded (`let _ = install_handle.await`, `tui.rs` 346), so `install --tui` returns Ok after a failed install |
| `tui_terminal` | violation | an error from `draw`, `poll` or `read` returns through `?` with the terminal still in raw mode on the alternate screen |

`tui_system` shows the following, under any interleaving of task and loop:

* at most one row is in progress;
* the gauge never moves backwards (`ProgressNeverDecreases`, an action
  property). `start_step` resets a completed row (spec 4.3), so this depends on
  the order of the task's sends and of the channel. The mutant
  `TaskCompleteNoAdvance` does not advance the task's loop index, so a row is
  restarted after its completion and the gauge drops;
* a task that sent `Exit` makes the dashboard return without a key press
  (`DashboardEndsAfterSuccess`);
* after q or Esc the dashboard still returns (`QuitReturns`). The loop breaks
  and then awaits the task. Nothing cancels the task, but it ends by itself
  from whatever point it had reached.

The aggregate is not checked again here. The task only sends StartStep and
CompleteStep for the row in progress, which is a case of `ProtocolSpec`, and
the app changes only in `HandleMessage`. `AggregateMatchesThm` therefore
covers it. `SInv` still carries `AggregateMatches` as a conjunct, for the
proofs.

The liveness properties assume weak fairness of the task and of the loop.
tokio schedules both while they can run, `poll` blocks for at most one tick,
and the task only sleeps. No fairness is given to the key press: the user need
not press q.

## Refinement

`StepSequence` states what the engine promises, without `ptr::eq`, vtables or
the host:
* steps are announced one at a time with positions 1, 2, ... in build order;
* the first failure ends the run with Err;
* Ok comes only after every step succeeded.

`Registry` maps onto it:
* `shown` is `reported`;
* `results` is `outcomes`;
* `status` (`SeqStatus`) is `idle` before an announce, `busy` while a step
  runs, and the final result otherwise.

`ImplementsStepSequence` is the abstract `SSpec`. `Installer` uses the same
mapping. Its property `ImplementsRerunSequence` is `RerunSpec`: an operator's
re-run is `Restart`, allowed only after Err. The other re-run, after a load
that exited before any step, maps to a stutter.

## Proofs

Five modules hold TLAPS proofs. The assumptions they use are the `ASSUME`s
of the modules:
* `StepsAssumption`: `Steps` is a sequence;
* `FaultsAssumption`: `MaxFaults` is a natural number;
* `TtyAssumption`: `TtyChoices` is a non-empty set of Booleans;
* `NRowsAssumption`: there is at least one row;
* `SimStepsAssumption`: `SimSteps` is a natural number.

TLC evaluates each of them in the runs.

### `RegistryProofs`

These theorems hold for every `Steps` sequence:

* `TypeCorrect`: `Spec => []TypeOK`.
* `FailFastThm`: `Spec => []FailFast`.
* `PositionCorrectThm`: `IsInjective(Steps) => (Spec => []PositionCorrect)`.
* `RefinementThm`: `IsInjective(Steps) => (Spec => ImplementsStepSequence)`.

`FailFast` is not inductive by itself, because it says nothing about `pc`. The
inductive invariant `IInv` adds several facts:

* the history lengths as functions of `pc` and `phase`;
* `invoked[k] = k`;
* an `"err"` outcome is only the last one, and only in phase `"err"`;
* `phase = "ok"` implies `pc = N + 1`;
* each reported position lies in `PositionOutcomes` of its step.

There is one lemma per action, and the temporal step is `PTL`. The position
theorem and the refinement need injectivity. Every registry in the code adds
each step type once. With a type added twice, the second copy may print the
first copy's position. The refinement maps each action to one abstract step:
* `Announce` to `Begin`, where `UniquePosition` shows that the position is
  `pc`;
* `StepOk` to `Succeeded`;
* `StepErr` to `Failed`;
* `Finish` to `Completed`.

### `InstallerProofs`

These theorems hold for every registry, every `MaxFaults`, and terminals or
not:

* `ITypeCorrect`: `ISpec => []ITypeOK`.
* `PythonPathOnceThm`: `ISpec => []PythonPathOnce`.
* `InstalledConfigPersistedThm`: `FirstTenRegistry => (ISpec => []InstalledConfigPersisted)`.
* `RerunRefinementThm`: `IsInjective(Steps) => (ISpec => ImplementsRerunSequence)`.
* `ConfigChangesSavedThm`: `ISpec => ConfigChangesSaved`.

The base invariant `InstInv` is `IInv` plus `HostOK`, the host's types. It
includes `ppLines \in 0..1`, because `PythonPathRun` appends only when the
line is absent. There is one lemma per action. `Rerun` preserves `IInv`
because it resets the registry's state to `Init`.

`InstalledConfigPersisted` is not inductive. The step that saves last is not
the one that finishes the run. `CInv` adds `CfgFacts`, which is stated for the
registry `FirstTen` (`FirstTenRegistry`, whose step types are distinct). Once
step `k` is done in the current process, the configuration carries what step
`k` wrote:
* after step 2 the login and password are valid and saved (`disk = cfg`);
* after step 3 the JWT secret is set;
* after step 4 the OS type is detected.

The facts also record that a process that is loading has not started its
registry. The host is never `empty` once the registry runs, because
`LoadConfig` prompts for it (`PromptedHost`). A failed save exits the process,
which clears `Done`, so the facts survive failures and re-runs.

The facts are proved from `StartsWithFirstTen`. This hypothesis says only
that the first ten entries are `FirstTen` and that the step types are
distinct. `FirstTenRegistry` implies it (`FirstTenStarts`), and so does the
extended registry, which is how `ExtendedInstallerProofs` reuses the per-action
lemmas. `RunningIndex` states that with distinct step types, a running step
of type `Steps[k]` means `pc = k`.

`ConfigChangesSavedThm` needs no invariant. Each action is one of three kinds:
* it leaves `cfg` unchanged (`CfgKeptSaved`);
* it ends the process (`FailSaved`);
* it is one of the three writers, whose successful save stores exactly the
  new `cfg'`.

`INextSaved` shows `[INext]_allvars => [SavedStep]_allvars`, and `PTL`
lifts it to the action property.

`RerunRefinementThm` rests on `RInv`: outside the registry, the loop has
either finished or not started. It lets a `Rerun` after a failed load map to a
stutter.

### `ExtendedInstallerProofs`

These theorems hold for `XSpec`, the 21-step installation with re-runs:

* `XTypeCorrect`: `XSpec => []XTypeOK`.
* `XPythonPathOnceThm`: `XSpec => []PythonPathOnce`.
* `XFailFastThm`: `XSpec => []FailFast`.
* `XPositionCorrectThm`: `IsInjective(Steps) => (XSpec => []PositionCorrect)`.
* `XInstalledConfigPersistedThm`: `ExtendedRegistry => (XSpec => []InstalledConfigPersisted)`,
  where `ExtendedRegistry` says that `Steps` is `run_extended_installation`'s
  21-step list.
* `XRerunRefinementThm`: `IsInjective(Steps) => (XSpec => ImplementsRerunSequence)`.
* `XConfigChangesSavedThm`: `XSpec => ConfigChangesSaved`.

`XInv` is `InstInv` plus the types of `reqs` and `precommit`. Each of the
eleven extended actions has the same shape (`XStepShape`):
* the registry runs and the step returns Ok or Err;
* `disk`, `cfg`, `venv`, `ppLines` and `reqs` are unchanged;
* `pkgs`, `faults` and `precommit` stay typed.

One lemma per kind of step (install-then-commands, command only, pip install,
and the three special steps) shows this shape, and every result follows from
it.

An `XNext` step is one of three things:
* an `Installer` step, with `reqs` and `precommit` unchanged, where the
  `Installer` lemmas apply;
* an extended step, which keeps the configuration and the first ten steps'
  facts (`CfgFacts`) because it touches neither `cfg` nor `disk`;
* a stutter.

With distinct step types, an extended step running means `pc` is in
`11..21` (`XStepAt`), so it cannot disturb the facts about steps 2 to 4.

### `TuiAppProofs`

These theorems hold for every `NRows >= 1`, under `ProtocolSpec`:

* `AggregateMatchesThm`: `ProtocolSpec => []AggregateMatches`.
* `AppTypeCorrect`: `ProtocolSpec => []AppTypeOK`.

The inductive invariant `PInv` is `AppTypeOK /\ AggregateMatches`. The type
matters for `FailStep`. A row in progress is `Started`, so it was not counted,
and `Failed` is not counted either. The set of completed rows is therefore
unchanged, even though `fail_step` does not call `update_progress`.
`start_step` and `complete_step` recompute the count. The lemma
`CompletedCountRange` bounds the count by `NRows`, using `FS_Subset` and
`FS_Interval`.

### `TuiSystemProofs`

These theorems hold for every number of rows and of simulated steps:

* `TuiTypeCorrect`: `TSpec => []TuiTypeOK`.
* `AtMostOneInProgressThm`: `TSpec => []AtMostOneInProgress`.
* `ProgressNeverDecreasesThm`: `TSpec => ProgressNeverDecreases`.

`AtMostOneInProgress` is not inductive. A queued `StartStep` would start a
second row unless the `CompleteStep` of the current row is known to come
first. The inductive invariant `SInv` describes the whole pipeline:
* the task sends a fixed sequence `MsgAt(1..2S+2)`: start of row `i`, then
  its completion, for each `i`, then UpdateStatus, then Exit;
* the number sent, `Sent`, is read off the task's program counter;
* the channel holds exactly messages `Recvd + 1 .. Sent`;
* the rows are `RowsAfter(Recvd)`, the rows after the first `Recvd` messages;
* `quit` holds exactly when all messages are received.

A task step appends the next message (`SendKeeps`). `Recv` moves one message
from the channel into the rows (`RowsAfterStart`, `RowsAfterComplete`,
`RowsAfterEnd`). Row `r` is then in progress only when `Recvd = 2r + 1`
(`InProgressRow`), so the set of rows in progress has at most one element
(`FS_Singleton`, `FS_Subset`).

The gauge theorem uses `SInv` in both states of a step. Only `Recv` changes
the app (`OthersKeepProgress`). In `Recv`, `Sent` is unchanged and the channel
loses one message, so `Recvd' = Recvd + 1`. A row is completed after `k`
messages exactly when `2r + 2 <= k` (`CompletedAt`). The completed rows after
`k` messages are therefore a subset of those after `k + 1`, and
`CompletedCountGrows` follows by `FS_Subset`.

### What is only model-checked

* The liveness properties (`RerunSucceeds`, `RerunSucceedsWithIntactConfig`,
  `ExtendedSucceeds`, `DashboardEndsAfterSuccess`, `QuitReturns`). They need
  fairness and `ENABLED`, which are beyond the TLAPS backends installed here.
* The violation runs. Each one is a counterexample TLC found on the instance
  in its cfg.

## Not modelled

* Logging, the text of messages and the TUI rendering. They are output only.
* The constants module. It holds names and paths.
* The `generate-config` and `validate-config` commands, and the `--config`
  option, which only `validate-config` reads. Each command reads or writes
  one file once and returns. The model does use `validate`'s test
  (`ValidateConfigOk`), because a property is about configurations that
  `validate-config` accepts.
* The real steps inside the TUI task. The code only simulates them with sleeps.
  The task's single failure point, loading the configuration, is
  `TaskLoad`.
