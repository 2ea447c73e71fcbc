----------------------------- MODULE Installer ------------------------------
(***************************************************************************)
(* The console installation (main.rs run_installation ->                   *)
(* installer.rs run_first_ten_steps): the configuration is loaded (and     *)
(* saved) by load_or_create_interactive, an InstallationContext is built   *)
(* around it, and the StepRegistry of Registry runs the ten steps of       *)
(* installer.rs against it.  The steps act on the host: packages (dpkg),   *)
(* the project virtual environment, the PYTHONPATH line of its activate    *)
(* script and the configuration file.                                      *)
(*                                                                         *)
(* Every external operation may fail; a failure consumes one of MaxFaults. *)
(* A kill of the process at an await point leaves the host as a failure of *)
(* the operation in progress would, so kills are not a separate action.    *)
(* After a run ends without success the operator runs the installer again  *)
(* (spec section 7: re-running the whole sequence after a fix).            *)
(***************************************************************************)
EXTENDS Registry, FiniteSets

CONSTANTS
  TmuxInstall, UserDataVerification, JwtSecret, OsTypeDetection,
  HomeDirSetup, PythonTools, VenvCreation, PythonPath, LibpqDev, Websockify,
  Tmux, Python3Venv, Python3Pip, LibpqDevPkg, Python3Websockify, \* packages
  MaxFaults,   \* bound on the number of failed external operations
  ExtPkgs,     \* packages only the steps of an extended registry install
  TtyChoices   \* whether the operator's runs have a terminal: a subset of
               \* BOOLEAN (main never passes --non-interactive on)

ASSUME FaultsAssumption == MaxFaults \in Nat

ASSUME ExtPkgsAssumption == IsFiniteSet(ExtPkgs)

ASSUME TtyAssumption == TtyChoices \subseteq BOOLEAN /\ TtyChoices # {}

(* run_first_ten_steps builds its registry with these add_step calls. *)
FirstTen ==
  << TmuxInstall, UserDataVerification, JwtSecret, OsTypeDetection,
     HomeDirSetup, PythonTools, VenvCreation, PythonPath, LibpqDev,
     Websockify >>

BasePkgs == {Tmux, Python3Venv, Python3Pip, LibpqDevPkg, Python3Websockify}

Pkgs == BasePkgs \cup ExtPkgs

(* dpkg state of a package: "unpacked" is an interrupted or failed        *)
(* apt-get install, which dpkg -l still lists (status iU / iF).           *)
PkgStates == {"absent", "unpacked", "installed"}

(* Login and password are abstracted to their length: "empty" is empty    *)
(* after trim(), "short" is 1..3 bytes, "valid" 4..30, "long" over 30.    *)
LenClasses == {"empty", "short", "valid", "long"}

(* generate_random_secret draws 256 random bits: a new secret differs      *)
(* from the one it replaces, which two values are enough to express.       *)
NoSecret == "none"
Secrets == {"secret1", "secret2"}

(* A configuration file that toml::from_str rejects. *)
Corrupt == [corrupt |-> TRUE]

(* web_app.host: empty after trim(), DEFAULT_WEB_HOST "localhost", or   *)
(* any other host.                                                        *)
Hosts == {"empty", "localhost", "other"}

ConfigRec == [login : LenClasses, password : LenClasses, host : Hosts,
              jwt : Secrets \cup {NoSecret}, os : {"", "detected"}]

VARIABLES
  proc,      \* "loading": before the registry runs; "registry": execute_all
             \* is running; "exited": the installer process has ended
  disk,      \* the configuration file: a ConfigRec, or Corrupt
  cfg,       \* ctx.config, the in-memory configuration of the process
  pkgs,      \* dpkg state of each package
  venv,      \* the project venv: "absent", "partial" (directory without
             \* bin/activate) or "complete"
  ppLines,   \* number of PYTHONPATH lines in venv/bin/activate
  faults,    \* failed external operations so far
  tty        \* the running process has a terminal to prompt on

host == <<disk, pkgs, venv, ppLines>>
ivars == <<proc, disk, cfg, pkgs, venv, ppLines, faults, tty>>
allvars == <<vars, ivars>>

-----------------------------------------------------------------------------
(* Helpers for the operations the steps call (system.rs, config.rs). *)

(* One more external operation fails. *)
Fault == faults < MaxFaults /\ faults' = faults + 1

(* OpenVairConfig::save: fs::write truncates, then writes.  It succeeds,   *)
(* or fails leaving the old file or a truncated, unparsable one.           *)
SaveOk(c) == disk' = c /\ UNCHANGED faults
SaveFails == Fault /\ disk' \in {disk, Corrupt}

(* install_package for each package of ps in turn: a package that dpkg -l *)
(* lists, in any state, is skipped as "already installed"; otherwise       *)
(* apt-get install -y either installs it or fails, leaving it absent or    *)
(* unpacked, and the loop stops.  ok tells whether all were installed;    *)
(* what happens after the loop, and so the fault count, is the caller's.  *)
Upgrade(S) ==
  [p \in Pkgs |-> IF p \in S /\ pkgs[p] = "absent" THEN "installed" ELSE pkgs[p]]

InstallAll(ps, ok) ==
  \E k \in 0..Len(ps) :
    LET done == {ps[i] : i \in 1..k} IN
    /\ ok = (k = Len(ps))
    /\ \/ /\ ok
          /\ pkgs' = Upgrade(done)
       \/ /\ ~ok
          /\ pkgs[ps[k + 1]] = "absent"
          /\ Fault
          /\ \E s \in {"absent", "unpacked"} :
               pkgs' = [Upgrade(done) EXCEPT ![ps[k + 1]] = s]

(* The step's run returned Ok / Err: the Registry moves on or returns.    *)
(* The process keeps its terminal.                                        *)
Succeed == StepOk /\ UNCHANGED <<proc, tty>>
Fail == StepErr /\ proc' = "exited" /\ UNCHANGED tty

-----------------------------------------------------------------------------
(* Loading the configuration, before the registry runs. *)

(* load_or_create_interactive prompts for an empty (after trim) login or  *)
(* password, and for a web host that is empty or "localhost".             *)
NeedsPrompt(c) ==
  c.login = "empty" \/ c.password = "empty" \/ c.host \in {"empty", "localhost"}

(* The answers: dialoguer re-asks until login and password pass their     *)
(* validators; the host prompt offers "localhost" as its default.          *)
Prompted(c) ==
  { [c EXCEPT !.login = IF @ = "empty" THEN "valid" ELSE @,
              !.password = IF @ = "empty" THEN "valid" ELSE @,
              !.host = IF @ \in {"empty", "localhost"} THEN h ELSE @] :
      h \in {"localhost", "other"} }

(* OpenVairConfig::validate, which validate-config runs on the file:      *)
(* login 4..30 bytes, password at least 4, a non-blank web host.          *)
Validate(c) ==
  c.login = "valid" /\ c.password \in {"valid", "long"} /\ c.host # "empty"

(* validate-config on CONFIG_FILE: it exists, parses and validates. *)
ValidateConfigOk == disk \in ConfigRec /\ Validate(disk)

(* Mutant: the file is taken as it is, without parsing or prompting. *)
LoadConfigSkipParse ==
  /\ proc = "loading"
  /\ cfg' = disk
  /\ proc' = "registry"
  /\ UNCHANGED <<disk, faults, pkgs, venv, ppLines, tty>>
  /\ UNCHANGED vars

(* load_or_create_interactive and InstallationContext::new: a file that   *)
(* does not parse ends the process.  A prompt without a terminal fails    *)
(* (dialoguer's interact() refuses), and `?` ends the process before the  *)
(* save.  Otherwise the answered configuration becomes ctx.config and is  *)
(* saved before the registry is built.                                    *)
LoadConfig ==
  /\ proc = "loading"
  /\ \/ /\ disk = Corrupt
        /\ proc' = "exited"
        /\ UNCHANGED <<disk, cfg, faults>>
     \/ /\ disk \in ConfigRec /\ NeedsPrompt(disk) /\ ~tty
        /\ proc' = "exited"
        /\ UNCHANGED <<disk, cfg, faults>>
     \/ /\ disk \in ConfigRec /\ (tty \/ ~NeedsPrompt(disk))
        /\ \E c \in Prompted(disk) :
             /\ cfg' = c
             /\ \/ SaveOk(c) /\ proc' = "registry"
                \/ SaveFails /\ proc' = "exited"
  /\ UNCHANGED <<pkgs, venv, ppLines, tty>>
  /\ UNCHANGED vars

-----------------------------------------------------------------------------
(* The steps of run_first_ten_steps.  Each action is one call of run():   *)
(* its effects on the host and ctx, and its result.                       *)

Running(kind) ==
  /\ proc = "registry"
  /\ phase = "running"
  /\ Steps[pc] = kind

(* `which tmux` finds the binary of an unpacked package as well. *)
TmuxInstallRun ==
  /\ Running(TmuxInstall)
  /\ \/ pkgs[Tmux] # "absent" /\ Succeed /\ UNCHANGED <<pkgs, faults>>
     \/ pkgs[Tmux] = "absent" /\ Fault /\ Fail /\ UNCHANGED pkgs
     \/ pkgs[Tmux] = "absent" /\ InstallAll(<<Tmux>>, TRUE) /\ UNCHANGED faults /\ Succeed
     \/ pkgs[Tmux] = "absent" /\ InstallAll(<<Tmux>>, FALSE) /\ Fail
  /\ UNCHANGED <<disk, cfg, venv, ppLines>>

(* ctx.user_login and ctx.user_password are None (nothing assigns them), *)
(* so the configuration's values are checked: login 4..30 bytes,          *)
(* password at least 4; then they are written back and saved.            *)
LoginOk(c) == c.login = "valid"
PasswordOk(c) == c.password \in {"valid", "long"}

UserDataVerificationRun ==
  /\ Running(UserDataVerification)
  /\ \/ /\ ~(LoginOk(cfg) /\ PasswordOk(cfg))
        /\ Fail
        /\ UNCHANGED <<disk, faults>>
     \/ /\ LoginOk(cfg) /\ PasswordOk(cfg)
        /\ \/ SaveOk(cfg) /\ Succeed
           \/ SaveFails /\ Fail
  /\ UNCHANGED <<cfg, pkgs, venv, ppLines>>

(* Mutant: update_jwt_secret saves before it assigns the new secret. *)
JwtSecretRunSaveFirst ==
  /\ Running(JwtSecret)
  /\ \E s \in Secrets \ {cfg.jwt} :
       /\ cfg' = [cfg EXCEPT !.jwt = s]
       /\ \/ SaveOk(cfg) /\ Succeed
          \/ SaveFails /\ Fail
  /\ UNCHANGED <<pkgs, venv, ppLines>>

(* A new secret is stored in ctx.config, which update_jwt_secret saves. *)
JwtSecretRun ==
  /\ Running(JwtSecret)
  /\ \E s \in Secrets \ {cfg.jwt} :
       /\ cfg' = [cfg EXCEPT !.jwt = s]
       /\ \/ SaveOk([cfg EXCEPT !.jwt = s]) /\ Succeed
          \/ SaveFails /\ Fail
  /\ UNCHANGED <<pkgs, venv, ppLines>>

(* Mutant: the OS type is set in ctx.config and never saved. *)
OsTypeDetectionRunNoSave ==
  /\ Running(OsTypeDetection)
  /\ cfg' = [cfg EXCEPT !.os = "detected"]
  /\ Succeed
  /\ UNCHANGED <<disk, faults, pkgs, venv, ppLines>>

(* get_os_info fails only if /etc/os-release cannot be read; the type is *)
(* stored by update_os_type, which saves.                                 *)
OsTypeDetectionRun ==
  /\ Running(OsTypeDetection)
  /\ \/ /\ Fault /\ Fail
        /\ UNCHANGED <<disk, cfg>>
     \/ /\ cfg' = [cfg EXCEPT !.os = "detected"]
        /\ \/ SaveOk([cfg EXCEPT !.os = "detected"]) /\ Succeed
           \/ SaveFails /\ Fail
  /\ UNCHANGED <<pkgs, venv, ppLines>>

(* mkdir -p and chown -R of the two directories: their state is read by  *)
(* no later step of the model, only the result matters.                  *)
HomeDirSetupRun ==
  /\ Running(HomeDirSetup)
  /\ \/ Succeed /\ UNCHANGED faults
     \/ Fault /\ Fail
  /\ UNCHANGED <<disk, cfg, pkgs, venv, ppLines>>

PythonToolsRun ==
  /\ Running(PythonTools)
  /\ \/ InstallAll(<<Python3Venv, Python3Pip>>, TRUE) /\ UNCHANGED faults /\ Succeed
     \/ InstallAll(<<Python3Venv, Python3Pip>>, FALSE) /\ Fail
  /\ UNCHANGED <<disk, cfg, venv, ppLines>>

(* An existing venv directory is taken as a finished venv.  python3 -m    *)
(* venv creates the directory before ensurepip and the activate script:   *)
(* when it fails, the directory may be left without them.  Without a     *)
(* configured python3-venv, ensurepip may be missing.                     *)
VenvCreationRun ==
  /\ Running(VenvCreation)
  /\ \/ venv # "absent" /\ Succeed /\ UNCHANGED <<venv, faults>>
     \/ /\ venv = "absent" /\ pkgs[Python3Venv] # "absent"
        /\ venv' = "complete" /\ Succeed /\ UNCHANGED faults
     \/ /\ venv = "absent" /\ pkgs[Python3Venv] = "installed"
        /\ Fault /\ venv' \in {"absent", "partial"} /\ Fail
     \/ /\ venv = "absent" /\ pkgs[Python3Venv] # "installed"
        /\ venv' = "partial" /\ Fail /\ UNCHANGED faults
  /\ UNCHANGED <<disk, cfg, pkgs, ppLines>>

(* Mutant: the line is appended without looking for it first. *)
PythonPathRunNoCheck ==
  /\ Running(PythonPath)
  /\ \/ venv # "complete" /\ Fail /\ UNCHANGED <<ppLines, faults>>
     \/ venv = "complete" /\ Fault /\ Fail /\ UNCHANGED ppLines
     \/ venv = "complete" /\ ppLines' = ppLines + 1 /\ Succeed /\ UNCHANGED faults
  /\ UNCHANGED <<disk, cfg, pkgs, venv>>

(* The PYTHONPATH line is appended unless the activate script has it. *)
PythonPathRun ==
  /\ Running(PythonPath)
  /\ \/ venv # "complete" /\ Fail /\ UNCHANGED <<ppLines, faults>>
     \/ venv = "complete" /\ Fault /\ Fail /\ UNCHANGED ppLines
     \/ venv = "complete" /\ ppLines > 0 /\ Succeed /\ UNCHANGED <<ppLines, faults>>
     \/ /\ venv = "complete" /\ ppLines = 0
        /\ \/ ppLines' = 1 /\ Succeed /\ UNCHANGED faults
           \/ Fault /\ Fail /\ UNCHANGED ppLines
  /\ UNCHANGED <<disk, cfg, pkgs, venv>>

LibpqDevRun ==
  /\ Running(LibpqDev)
  /\ \/ InstallAll(<<LibpqDevPkg>>, TRUE) /\ UNCHANGED faults /\ Succeed
     \/ InstallAll(<<LibpqDevPkg>>, FALSE) /\ Fail
  /\ UNCHANGED <<disk, cfg, venv, ppLines>>

WebsockifyRun ==
  /\ Running(Websockify)
  /\ \/ InstallAll(<<Python3Websockify>>, TRUE) /\ UNCHANGED faults /\ Succeed
     \/ InstallAll(<<Python3Websockify>>, FALSE) /\ Fail
  /\ UNCHANGED <<disk, cfg, venv, ppLines>>

-----------------------------------------------------------------------------
(* The registry's own steps, and the process around it. *)

IAnnounce == proc = "registry" /\ Announce /\ UNCHANGED ivars

(* execute_all returned Ok: the process exits successfully. *)
IFinish ==
  /\ proc = "registry" /\ Finish /\ proc' = "exited"
  /\ UNCHANGED <<disk, cfg, pkgs, venv, ppLines, faults, tty>>

(* The operator starts the installer again after a run that did not      *)
(* succeed: a new process, from a terminal or not, with a new registry;  *)
(* ctx.config is reloaded.                                                *)
Rerun ==
  /\ proc = "exited" /\ phase # "ok"
  /\ proc' = "loading"
  /\ pc' = 1 /\ phase' = "announce"
  /\ invoked' = << >> /\ outcomes' = << >> /\ reported' = << >>
  /\ tty' \in TtyChoices
  /\ UNCHANGED <<disk, cfg, pkgs, venv, ppLines, faults>>

IInit ==
  /\ Init
  /\ proc = "loading"
  /\ disk \in ConfigRec
  /\ cfg = disk
  /\ \E base \in [BasePkgs -> {"absent", "installed"}] :
       pkgs = [p \in Pkgs |-> IF p \in BasePkgs THEN base[p] ELSE "absent"]
  /\ venv \in {"absent", "complete"}
  /\ ppLines \in IF venv = "complete" THEN {0, 1} ELSE {0}
  /\ faults = 0
  /\ tty \in TtyChoices

INext ==
  \/ LoadConfig
  \/ IAnnounce
  \/ TmuxInstallRun \/ UserDataVerificationRun \/ JwtSecretRun
  \/ OsTypeDetectionRun \/ HomeDirSetupRun \/ PythonToolsRun
  \/ VenvCreationRun \/ PythonPathRun \/ LibpqDevRun \/ WebsockifyRun
  \/ IFinish
  \/ Rerun

ISpec == IInit /\ [][INext]_allvars

(* The installer process always takes its next step, and the operator    *)
(* keeps re-running it while it has not succeeded.                       *)
IFairSpec == ISpec /\ WF_allvars(INext)

-----------------------------------------------------------------------------

ITypeOK ==
  /\ TypeOK
  /\ proc \in {"loading", "registry", "exited"}
  /\ disk \in ConfigRec \cup {Corrupt}
  /\ cfg \in ConfigRec
  /\ pkgs \in [Pkgs -> PkgStates]
  /\ venv \in {"absent", "partial", "complete"}
  /\ ppLines \in Nat
  /\ faults \in 0..MaxFaults
  /\ tty \in BOOLEAN

(***************************************************************************)
(* PythonPathStep reads the activate script and appends the PYTHONPATH     *)
(* line only when it is not there: however the runs before were cut short *)
(* and however often the installer is re-run, the line is there once.      *)
(***************************************************************************)
PythonPathOnce == ppLines <= 1

(***************************************************************************)
(* When execute_all has returned Ok, the configuration file holds exactly  *)
(* ctx.config, validate-config accepts it, and it has a JWT secret and the *)
(* OS type:                                                                *)
(* each step that changes ctx.config saved it, and no failed save of an    *)
(* earlier run survives into a successful one.                             *)
(***************************************************************************)
InstalledConfigPersisted ==
  phase = "ok" =>
    /\ disk = cfg
    /\ Validate(cfg)
    /\ cfg.jwt \in Secrets
    /\ cfg.os = "detected"

(***************************************************************************)
(* ctx.config never runs ahead of the file: an operation that changes it   *)
(* and lets the process go on has written the new value (update_* assign   *)
(* and then save; load_or_create_interactive saves after the prompts).    *)
(* Only a failed save, which ends the process through `?`, leaves the two  *)
(* apart.                                                                  *)
(***************************************************************************)
ConfigChangesSaved ==
  [][(cfg' # cfg /\ proc' # "exited") => disk' = cfg']_allvars

(***************************************************************************)
(* A successful installation has installed every package its steps ask     *)
(* for (spec 4.2: only "already in the desired state" counts as success).  *)
(***************************************************************************)
InstalledMeansInstalled ==
  phase = "ok" => \A p \in BasePkgs : pkgs[p] = "installed"

(***************************************************************************)
(* A step run against a host where its work is done leaves the context     *)
(* as it was (spec 3 and 8, idempotence): once a JWT secret is stored in   *)
(* the configuration file, no later run replaces it.                       *)
(***************************************************************************)
JwtStable ==
  [][(disk \in ConfigRec /\ disk.jwt \in Secrets /\ disk' \in ConfigRec)
       => (disk').jwt = disk.jwt]_allvars

(***************************************************************************)
(* Re-running the whole sequence after a fix is safe (spec 7): when the    *)
(* failures stop, the operator's re-runs end in a successful installation. *)
(***************************************************************************)
RerunSucceeds == <>(phase = "ok")

(***************************************************************************)
(* The same, on the hosts whose configuration file stays readable: the     *)
(* re-runs recover from what a failed step left on the host (venv, dpkg).  *)
(***************************************************************************)
RerunSucceedsWithIntactConfig == [](disk \in ConfigRec) => <>(phase = "ok")

(***************************************************************************)
(* Unattended runs (spec: non-interactive mode; prompts only for missing  *)
(* required fields): a process without a terminal whose configuration     *)
(* file validate-config accepts does not stop while loading it, except    *)
(* through a failed operation (the save).                                 *)
(***************************************************************************)
ValidatedConfigLoadsUnattended ==
  [][(proc = "loading" /\ ~tty /\ ValidateConfigOk /\ proc' = "exited")
       => faults' > faults]_allvars

(***************************************************************************)
(* The installer as the operator uses it implements the engine's contract *)
(* run after run: within a process the positions count up in build order,  *)
(* the first Err ends it, Ok needs every step; a re-run starts the         *)
(* sequence over only after an Err (or before any step was announced).    *)
(***************************************************************************)
ImplementsRerunSequence == Abstract!RerunSpec

=============================================================================
