# PcDog in TLA+

PcDog is a Raspberry Pi that watches and presses the front-panel buttons of a PC.
This directory holds TLA+ modules of its processes, TLC configurations that check
them on small instances, and TLAPS proofs about them. Paths below are relative to
the root of the repository.

## The system

Four services run on the Raspberry Pi, and a root-only tool beside them:

- **`pcdog`** (`pcdog_runtime/read_only_runtime.py`, unprivileged) serves the Web API
  and panel and, in one monitor thread, polls the inputs and stores them in SQLite.
- **`pcdog-hardware-agent`** (`hardware_agent.py`, root) reads the two input lines
  with `gpioget` and makes bounded pulses on the two outputs with `gpioset`; one
  thread per request on a Unix socket.
- **`pcdog-network-agent`** (`network_agent.py`, root) changes the Wi-Fi network
  through `nmcli`; a single-threaded Unix socket server and one job thread.
- **`pcdog-system-agent`** answers fixed questions and keeps no state.
- **`pcdog-test`** (`diagnostic_controls.py`) holds outputs active for as long as a
  technician wants, by leaving `gpioset` processes behind.

Beside them are tools that are run by hand: the USB mode switch, the CLI and its
installer, the recovery of a Windows host's network adapter, and a watch script for
a Mac.

### Inventory

| Component | State | Operations | Talks to | What is hard | What makes it correct |
|---|---|---|---|---|---|
| Output lock (`gpio_ownership.py`) | one flock on `/run/pcdog-gpio-control.lock` | acquire without waiting, release | agent, pcdog-test, inherited by gpioset | it belongs to the open file, not to a process | agent and diagnostics never own outputs together |
| Pulses (`hardware_agent.py`) | the controller's in-process lock, one child | pulse_power, pulse_reset | flock, gpioset | timeouts, a stalled child, a crash | one child at a time, under the lock; every pulse ends |
| Diagnostics (`diagnostic_controls.py`) | pid files, gpioset processes, flock | power/reset/all -on and -off | flock, /proc, pinctrl | no lock over its own files; failures in the middle | no gpioset is lost; outputs are LOW before release |
| Input monitor (`input_monitor.py`) | stable value, candidate, two times | poll_once | hardware agent, State Engine | irregular polls, unreliable readings | no glitch, no postponed change, bounded loss |
| State Engine (`state_engine.py`) | last snapshot | process | Event Store | events only exist between two snapshots | events are exactly the differences |
| Event Store (`event_store.py`) | tables events and current_state | persist, reads | SQLite | failure in the middle of an update | whole updates only |
| Runtime monitor (`read_only_runtime.py`) | signature of what was stored last | poll_once, start, stop | all of the above | retry after failure, restart | an update is skipped only if it is stored |
| Wi-Fi job (`network_agent.py`) | active flag, last result, temporary profile | start, status, list, the job | NetworkManager, panel | every nmcli call may fail, time out or half-succeed | only a verified profile is saved; the result is true |
| Web authentication (`web_auth.py`) | sessions, failed attempts, one lock | login, session, require_write, logout | a thread per request of the Web API | parallel guesses, sliding window, expiry, restart | the limit holds under parallel requests and never locks out early; only live sessions pass |
| Web API, panel (`web_api.py`, `web_panel/`) | panel: CSRF token, refresh in flight; browser: cookie | routes, refresh, login, logout | all agents | answers that are late, lost or of an older session; two tabs with one cookie | the panel comes back to the truth; "Wylogowano." is true |
| USB mode (`usb_mode.py`, `runtime/pcdog-usb-*.sh`) | mode file, ConfigFS gadget, service | set_mode, build, cleanup | systemd | failure half-way, restore | the mode in the file is the one that runs |
| CLI installer (`scripts/install-cli.py`) | releases, current, previous, launcher | install, check, rollback | file system | a crash between two file operations | the active release is whole and known |
| Windows recovery, Mac watch, loopback test, CLI, system agent, network status, SSH bootstrap, installation scripts | none that outlives a call | | | | |

The hazards, each at its line and with the properties that watch it, are listed in
`PROJECT.json` under `hazards`.

## Modules

| Module | What it models |
|---|---|
| `OutputOwnership` | output lock, pulses, diagnostics, gpioset processes and the levels of GPIO17/18 |
| `MCOutputOwnership` | scenarios and symmetry for its runs |
| `OutputOwnership_proofs` | 5 theorems: the agent's pulses and the locks |
| `OutputCommands_proofs` | 4 theorems: the commands, their pid files and levels |
| `InputMonitor` | the debounce, loss timeout and hold, with time |
| `InputMonitor_proofs` | 4 theorems |
| `RuntimeMonitor` | State Engine, signature, SQLite transaction, thread and process |
| `StoredHistory` | what a reader of the database is promised; implemented by `RuntimeMonitor` |
| `RuntimeMonitor_proofs` | 5 theorems, the implementation of `StoredHistory` among them |
| `WifiJob` | network agent, its job and NetworkManager |
| `WifiChange` | the order of one change of the network; implemented by `WifiJob` |
| `MCWifiJob` | scenarios for its runs |
| `WifiJob_proofs` | 9 theorems, the implementation of `WifiChange` among them |
| `WebSession` | the authenticator behind the threads of the Web API, browsers with their cookies, the panel's script |
| `Authenticator` | logins, checks and logouts at one instant each; implemented by `WebSession` |
| `MCWebSession` | scenarios for its run |
| `WebSession_proofs` | 7 theorems, the implementation of `Authenticator` among them |
| `CliInstaller` | install and rollback of the CLI, one action per change of the file system |
| `ActiveCli` | what the command `pcdog` promises meanwhile; implemented by `CliInstaller` |
| `MCCliInstaller` | three versions with two launchers |
| `CliInstaller_proofs` | 5 theorems, the implementation of `ActiveCli` among them |
| `UsbMode` | the USB mode switch, the gadget service with its script, the DHCP service |
| `MCUsbMode` | scenarios for its runs |
| `UsbMode_proofs` | 5 theorems |

Every definition that stands for code is listed under `map` in `PROJECT.json` with
its lines. Operators commented as *fault variants* are plausible bugs; they are
not part of any specification and serve to show that each property can fail.

### OutputOwnership

One action is one system call or one step between two of them, since agent threads
and commands interleave there. A thread of the agent goes through `A_Begin` (the
controller's lock), `A_Lock` (flock), `A_Spawn` (popen), then `A_Reap`, or
`A_Timeout`, `A_Terminate`, `A_Stopped`. A command starts with `D_Start`; a `*-on`
scans the pid files (`D_Scan`, `D_ScanUnlink`), takes the lock if it found nothing
(`D_Lock`), and for each line spawns, polls and records; a `*-off`, and the abort of
a `*-on`, reads pid files, sets every line LOW and then signals and unlinks. The flock
is the set `lockHolders` of actors with a descriptor of the locked file: a child
inherits one exactly when `pass_fds` names it. The processes themselves, the pids
and the crash and restart of the agent are external actions. A request that is
refused, because the controls are disabled, the duration is out of range or the
controller is busy, changes nothing and has no action.

`_set_active` sleeps 50 ms and polls whatever its `gpioset` has done by then. Usually it has
its line or has exited; where `slow_start` may happen it may also still be starting, which
passes the poll (`D_Poll`), and it requests its line at any later time. Then nothing in the
code keeps a line LOW: a stop may set LOW before the recorded `gpioset` drives, and end it
at its active level, although the comment of `_stop_gpios` wants every line "physically
inactive" before one is released. `OffReleasesAtLow` and the level in `OffLeavesNothing`
therefore except scenarios with `slow_start`; everything else is checked and proved with it.

`scenario` is chosen in `Init` and never changes. It says which commands run and
which failures may happen, so that one run checks several groups of failures
without multiplying them, and a property can name the premise it needs.

### InputMonitor

The code compares clock readings; the module keeps the age of each stored time,
which is the same difference and keeps the state finite. A poll reads its clock, then
its inputs up to `MaxLag` ticks later; the next poll starts `PollInterval` or more
after that, up to `MaxGap` after the last clock reading. Four history variables
remember the samples; they are capped at `Horizon` and read by properties only.

### RuntimeMonitor and StoredHistory

`Poll` is the engine and the comparison of signatures, `Begin`, `Append1`,
`WriteState` and `Commit` are the statements of `persist`, `PersistFails` a failure of any of
them, `ProcessEnds` the end of the process at any point. `db` keeps Current State and,
of the events table, the newest value of each event type. The stabilised inputs are
those InputMonitor may report, in any order, so nothing depends on its timing.

`StoredHistory` is what readers see: `shown` is the stored state and `newest` the newest
recorded value of each type of event. An observation becomes visible in one step, together with
what it changed, or is dropped; one that needs no step is what is shown already; and while
there is no `gap` the recorded changes lead from one shown state to the next. The refinement
maps it to `db` and to the engine; `gap` is the time before the first update of a process
and after an update was lost with its events (`lost`, until the inputs are again what is shown).

### WifiJob and WifiChange

One request, its job and its candidate profile share a name. `Ask`, `GiveUp` and
`AskList` are clients, the `S_` actions the single-threaded server, the `J_` actions
the job, one per call of nmcli. Each call succeeds, fails without effect, or (when
`timeout` may happen) is reported as failed although it had its effect. `Drop` and
`Autoconnect` are NetworkManager acting by itself.

`WifiChange` has neither server nor threads nor results for clients that wait: `change` is the
change in progress, whose candidate is added, verified and saved, or discarded, with a verdict
at the end; it may also be abandoned in the middle, and then leaves its candidate behind. It
touches no other profile, saves nothing that was not verified, and reports a success only of
what is saved. The refinement maps `change` to the job of a busy agent, `verified` to the jobs
whose connection was confirmed, and the profiles to themselves.

### WebSession and Authenticator

A session and its CSRF token share one name, the number of the login that made them;
0 is none. `req` are the places for requests under way: one is sent by a panel, taken by
a thread of the server, answered, and received, and keeps what its thread read. A server
thread that verifies a password has `lock` (`CheckLimit` to `WrongPassword` or
`RightPassword`, some 50 ms of scrypt apart); every other use of the authenticator is one step
that needs the lock free, and `Logout` and `Act` are separate from the `CheckSession`
before them. The log `failures` keeps every wrong password since the last login;
`forgotten` says how many of the oldest the authenticator no longer has.

`tab` is the script of each open panel, `cookie` belongs to its browser. `Load` is
`initialise`, `Interval` the timer's `refresh`, `Receive` what follows each `await`, `GiveUp` the
abort after four seconds or a broken connection: the server goes on, and its `Set-Cookie`
may have arrived although its answer has not. The six requests of a refresh are one.
`Max-Age` of the cookie is left out: the server refuses an expired session in any case.
A scenario says which tabs share a browser, how often the password is right, and which
events may happen: time, guesses, a restart of the service, lost answers, reloads, a second
click on the logout button (`twice`), a login before the page has asked for its session
(`early`).

`Authenticator` has no threads, lock or lost answers: an address guesses wrong, logs in or is
refused, a request passes with a session, logs out or leaves, each at one instant of one
clock. A wrong password, or a login, takes place when its check ends but counts from the time
its thread read the clock, and in the order of these times. The refinement maps
the log of failures as it is, the sessions to when they end (0 once they have), a request to the
session it was let in with, and a refusal to the address it names.

### CliInstaller and ActiveCli

A release is named by the digest of its files, so a release and the version of the
repository it was made from share one name, and a release in the store is whole: it
is renamed into place. `proc` is the running installer: its operation, the change it makes
next, and what it read before the first one. `Install`, `RollbackUpdate` and
`RollbackInstall` are the checks at the beginning (an operation that is refused has no
action); `AfterRelease`, `AfterLegacy` and `AfterCurrent` are the `if`s of `install` between
one change and the next; every temporary file is made and renamed in two steps. `Fails` and
`Killed` end the process at any step and differ in what they leave behind: an exception
runs the `finally` clauses, a kill does not. The operator may replace the launcher
and cleans up what the installer asks for.

`ActiveCli` knows what the command runs, and what a rollback has to bring back. The
refinement maps `runs` to the release behind `current` if the launcher is a managed one, and
to the launcher otherwise; `began`, `clean`, `touched` and `undo` are history
variables that the installer does not have. No promise (`Unknown`) is left by an
operation that ended in the middle of its changes or began on such a state: a link
may then name the release it should replace, although the command itself works.

### UsbMode

`job` is what systemd does for the gadget service: `Cleanup` (ExecStop), then the start with
`AlreadyBound`, `RefuseGadget` or `MakeGadget`, `MakeFunction`, `Bind`. `sw` is the
switch `set_mode` between its commands: it writes the mode file, restarts, and either
checks both services or writes the previous mode back and restarts again. Of systemd
the module has what the two unit files rely on: a start that fails runs no `ExecStop`, a
unit that is not active is only started by a restart, a failed condition is a success,
and a restart takes a running DHCP server with it and leaves a stopped one alone. A mode
file is one of the two modes or missing; foreign contents end both scripts.

A start can be ended from outside: by `TimeoutStartSec` (`late_bind`), or by the restart of a
switch that meets it (`overlap`, in `Restart`). Its last command is one write to `UDC`, which
the kernel completes although the script is killed, so in both cases the gadget may be left
bound. The next start then exits 0 (`AlreadyBound`) whatever the mode of that gadget is, and
the switch reports success. The code keeps nothing that would tell the two apart. Two history
variables do, for the properties only: `late` while the gadget is one that an ended start has
bound, and `cut` from the kill of a switch between its write and its restart until a start
reads the file. `SuccessIsTrue` excepts `late`, `FileIsWhatRuns` excepts both, and
neither needs a premise on which faults happen: all may, together.

## Runs

| Run | Expect | Shows |
|---|---|---|
| `output_safety` | pass | one child of the agent at a time, none beside an inherited lock; all-on/all-off exclude the agent; with one command at a time no gpioset is lost, slow ones included, and none that started in time is stopped at its active level |
| `output_liveness` | pass | pulses end although gpioset stalls or survives SIGKILL; all-off frees the lock |
| `output_split_commands` | violation | per-line commands leave an owner without the lock |
| `input_monitor` | pass | debounce and hold are exact under irregular polls |
| `input_stale_on` | violation | alternating readings keep a stale ON without bound |
| `runtime_monitor` | pass | the stored history is the one `StoredHistory` promises, sound skipping, no gap, catching up |
| `wifi_job` | pass | one job in the order of `WifiChange`, only verified profiles saved, truthful results, nothing left behind |
| `wifi_refused` | violation | a change reported as not started runs later |
| `web_session` | pass | the limit counts parallel guesses, only live sessions pass, overlapping threads are one `Authenticator`, "Wylogowano." is true of an undisturbed panel, and panels come back to the truth |
| `cli_installer` | pass | the command works at every instant, changes at one, and a rollback leads back |
| `usb_mode` | pass | one function, truthful success, and the mode of the file is the one that runs, up to the two exceptions named above |
| `usb_restored` | violation | a start that failed half-way blocks the restore that is reported as done |

The four violations are disagreements between the code and a sentence of its docs,
comments or panel; `PROJECT.json` quotes each under `findings`.

### Bounds

- *OutputOwnership*: two threads (every conflict inside the agent is between two),
  one or two commands at a time, three pids (the two lines and one pulse; with both
  lines active a third process still meets a free pid). Threads and pids are
  symmetric; symmetry is not used with liveness. There are five groups of commands and
  failures: every command with partial failures, the commands that share GPIO18 with slow
  starts, all-on and all-off alone with slow starts and reused pids, three commands with
  all kinds of failures but `survive_kill` and reused pids, and two commands at a time
  without any. 1.4 million distinct states.
- *InputMonitor*: debounce 4, loss timeout 8, hold 2 ticks with gaps of 1..4 and a
  latency of 0..2, so a poll may land before, on and after every boundary, and one
  gap can skip a whole hold. The theorems hold for all durations.
- *RuntimeMonitor*: three failures: one for each of a failed update, a restart, and
  a failure during the recovery. The theorems hold for any `MaxFaults`.
- *WifiJob*: two requests, one profile at home, the first request for the network
  of that profile; a second request meets the first one in every state.
- *WebSession*: a limit of two wrong passwords and two places for requests, so that a guess is
  verified while another waits with the limit one short; windows and lifetimes of two ticks
  on a clock of four, so that a failure leaves the window and a session ends while others do
  not; two sessions, so that an older one meets its successor; two tabs, in one browser or in
  two. 190,576 distinct states. The theorems hold for any of these numbers.
- *CliInstaller*: three versions, so that an update follows an update and an older release
  comes back, and two launchers, so that one update changes the launcher and is refused.
  The theorems hold for any versions and launchers.
- *UsbMode*: nothing is bounded; one switch runs at a time, and one scenario has all faults.

### Fairness

- Agent threads, commands and gpioset processes are scheduled, and a signalled
  process ends; a `gpioset` may stall for ever where `stall` is allowed, nobody has to
  send a request. `A_Timeout`, `A_Stopped` are part of a thread's fairness: the code's
  `communicate` calls all have timeouts.
- The monitor thread of `pcdog` goes on polling (`_stop.wait` is bounded) and systemd
  restarts the process. Neither a change of inputs nor the operator's restart of a
  dead monitor thread is assumed.
- The network agent's server and job threads run; each `nmcli` call has a timeout, so
  each step of a job ends.
- The threads of the Web API run and an answer that was sent is received or given up. The
  timer of a panel is strongly fair: in the browser it fires every few seconds whatever else
  happens, and only the bound on requests under way disables it now and then. Clicks,
  time, lost answers and restarts are not assumed.

Deadlock is checked everywhere but in `web_session`: a panel at the login form whose user does
nothing, with no request under way, rightly waits for ever.

## Proofs

TLAPS proves the theorems listed in `PROJECT.json` for all values of the constants
that satisfy the modules' `ASSUME`s (`ConstantsAssumption` of *OutputOwnership*, *WifiJob* and
*WebSession*, `ConfigAssumption`, `HistoryAssumption`, `FaultsAssumption`, `NoneAssumption`,
`NamesAssumption`, `ScenariosAssumption`).

- *OutputOwnership*: `PulseOwnsLock` is inductive only together with the facts that
  every thread past its start holds the controller (`ControllerHeld`), that every
  live gpioset of the agent is the child of a thread that waits for it or stops it,
  unless the agent is down (`AgentChildren`), and that it is the only one
  (`OneChild`). `SinglePulse` follows from these: the controller's lock, not the
  flock, is what excludes a second child after a timeout. `LocksAreReturned` is the safety half
  of `PulseEnds` and `OffFreesLock`: each lock belongs to a pulse, an on command or a diagnostic
  gpioset that is under way (`LocksInUse`), so with none of them both are free. It needs that only
  an on command scans for lines that are active (`ScansToStart`), the step before it locks.
- *OutputCommands*: the invariant follows a command through its lists. A `*-on` has the process
  it starts to itself until the pid file names it (`StartShape`); a stop has noted an owner
  only while its pid file names it, and set every noted line LOW before its first signal
  (`StopShape`); it loses no line on the way: each is still to do, noted, or without pid file
  (`Kept`). `NamedOrEnded` and `Driving` say the same of the processes that earlier commands
  left. Since a slow `gpioset` may still give up after it was recorded, a `*-on` must be known to
  write only pid files that its own scan has emptied (`Scanned`), so that it forgets nobody. `ExclusiveWithAllCommands` needs more: every live diagnostic process has the
  lock (`DiagLocked`), the agent waits for its child with it (`AgentWaits`), and between two
  commands all lines are owned or none is (`Whole`), by a process that has its line to itself
  and so gets it however late it asks (`Sole`, `SoleLives`), since an all-on that finds only some
  lines active would start the others without the lock, which is the violation that
  `output_split_commands` shows. `OffReleasesAtLow` needs no single operator: whatever steps
  are taken, a process that goes on stays on its line and a line that somebody drives is not
  set active again (`Gentle`), so what a run has noted stays true (`SafeRun`, `SafeStays`), a
  pid file names a process that drives its line (`FilesName`) and a signalled one is LOW
  (`SignalledLow`). It does need that a process ends only when told to, keeps its pid and has
  its line by the poll (`Steady`).
- *InputMonitor*: the invariant relates ages and histories. A stable value has no
  candidate that agrees with it; a candidate is the value sampled since its age began,
  up to one latency (`Steady`, `Waiting`); the age kept for a hold is the age of the
  last active sample (`HoldAge`).
- *RuntimeMonitor*: `Stored` ties the open transaction and its remaining events to the
  committed database, `Continuous` says that without a lost update the signature
  and the engine's step from it are those of the last events, `OneOfAType` that an update has
  one event of a type, so that appending the events in order leaves the newest value of each.
  `StoredHistoryImplemented` rests on the same invariant: `Poll` is an observation, the commit
  the one step that publishes it, every other statement a stutter. `SkipIsSound` is the safety
  half of `StoreCatchesUp`.
- *WifiJob*: what is known of a job depends on how far it is: whether its candidate exists and
  is on disk (`Candidate`), which result it may have reported (`Result`) and what the
  connection is then (`Connection`); `Exclusive` says that no other job is under way. Each action
  is first shown to be a `StepOf` one job, which leaves the candidates and results of the others
  alone, so that only the moving job has to be looked at.
  In `WifiChangeImplemented` the busy flag stands for the change in progress, so the invariant
  has to say that it outlasts every step of its job. `AnswersAreTrue` follows a request
  through the server's queue (`Served`): one answered `BUSY` never runs, one answered `STARTED`
  did, and what the run `wifi_refused` refutes, that a refused change never runs, is true as
  soon as no scan outlasts the timeout of the clients. `BusyMeansRunning` (`Working`) is the
  safety half of `JobEnds`: a busy agent has a job that runs, unless its thread failed to start.
- *WebSession*: the thread that verifies a password was let in with fewer than `Max`
  remembered failures, and nobody adds one while it has the lock (`VerifyOK`); the log is
  ordered in time and everything forgotten is out of the window (`LogOK`), so `LoginLimit`
  holds of the log with the new failure. A known session was issued, is not ended and expires
  `TTL` after its birth (`SessionsOK`). `LoggedOutIsOut` follows one browser with a single tab:
  it awaits at most one answer that changes its session, and until that answer comes its
  cookie, the token of the page and the request under way belong to one session (`PanelOK`).
  Server steps leave the pages alone (`Quiet`), a page's step only concerns its own tab
  (`PageStep`). `AuthenticatorImplemented` needs only the first invariant: the thread that
  verifies was let in at a time at which the authenticator is still open when the check ends
  (`VerifiedInTime`), and a session that is popped as expired had ended before.
  `NoEarlyLockoutHolds` states of `WebSession` itself what the promise says of refusals.
  `FlagsAreTrueHolds` is the safety half of `PanelComesBack`: a flag that keeps a panel from
  polling, or a button disabled, is set exactly while exactly one request is under way whose
  end takes it back, whatever is given up, reloaded, refused or restarted.
- *UsbMode*: a gadget that is bound has the functions of one mode, and the service builds it
  alone (`Shape`, `ServiceAlone`); what the switch may conclude at each of its steps is
  `SwitchStands`; a service that is active or building read the mode that is in the file,
  unless a switch is, or was killed, between its write and its restart, or a start that was
  ended has bound the gadget (`FileIsRead`, `Settled`, `late`).
  `RestoredIfRestarted` says what is true where the run `usb_restored` refutes the message of
  the script: a switch that reports a restored mode has written it, runs no other, and runs it
  if the second restart succeeded, which is the one result it does not look at; here too `late`
  is excepted.
- *CliInstaller*: the invariant says which changes belong to an operation (`ProcShape`),
  how far the store is and whose temporary files it has (`StoreShape`), and that links and
  launcher are what the operation found up to its next change (`InstallShape`,
  `RollbackShape`). For the implementation it is joined by what `undo` means while no operation
  is in progress (`UndoKept`) and by what an operation has done of it
  (`InstallHistory`, `RollbackHistory`); then each action is a step of `ActiveCli` or a stutter.

Not proved, only model-checked: the liveness properties (`PulseEnds`, `OffFreesLock`,
`StoreCatchesUp`, `JobEnds`, `PanelComesBack`), because fairness and `ENABLED` are out of the
prover's reach. Each has a proved safety half, named above: that nothing which could hold its
progress up stays behind. That the progress is then made is what TLC checks.

The four properties that a run refutes are false of the code, and each is true under one more
condition, for which there is a theorem: `ExclusiveOwnership` if all-on and all-off, one at a
time, are the only commands (`ExclusiveWithAllCommandsHolds`), `LossIsBounded` if no sample in between confirms
the old value (`SettlesInTimeHolds`), `RefusedNeverRuns` if no scan outlasts the clients
(`AnswersAreTrue`), `RestoredIsActive` if the second restart succeeds (`RestoredIfRestarted`).

Three action properties are theorems without being in a run, since a refinement that a run
checks covers them: `CommitsWholeUpdates`, `OnlyFailedCandidatesDeleted`, `NoEarlyLockout`.

## Plan

Done: the output lock and its commands, the inputs, the runtime and its store, the Wi-Fi job,
the web sessions, the USB mode and the installer, each checked and with its safety
properties proved; and what four of them promise, stated and implemented: `ActiveCli`,
`StoredHistory`, `WifiChange`, `Authenticator`. What is left, in order of use:

1. The same for *UsbMode*: what the host at the cable sees, and when it may change.
2. `cleanup_stale_state` beside the commands, once the lines of older versions are known to
   matter.
3. The recovery of a Windows host's adapter: the restart that breaks the call ordering it.

## Premises

What a property does not say because nothing in the code makes it true is a named premise in
its definition; the hazard it leaves open is listed without a property, with a note.

| Property | Says nothing of | Hazard |
|---|---|---|
| `ExclusiveWithAllCommands` | single-line commands, a crash of the agent, stalls, kills | `hardware_agent.py:125` |
| `OrderlyOwnersFindable`, `OffLeavesNothing` | commands at the same time, killed commands, failed writes, a `gpioset` that dies by itself | `diagnostic_controls.py:161`, `243` |
| `OffReleasesAtLow` | a `gpioset` that dies by itself, reused pids, slow starts | `diagnostic_controls.py:158`, `214` |
| `SinglePulse` | a child that outlives SIGKILL by more than a second | |
| `HistoryIsComplete` | events of an update that was lost | `read_only_runtime.py:72` |
| `StoreCatchesUp` | a monitor thread that ended | `read_only_runtime.py:76` |
| `ResultIsTrue` (of the connection) | a connection dropped between the two reads | `network_agent.py:151` |
| `NothingLeftBehind` | calls of nmcli that time out, a deletion that fails, a crash of the agent | `network_agent.py:158` |
| `JobEnds` | a job thread that cannot be started | `network_agent.py:224` |
| `LoggedOutIsOut` | lost answers, double clicks, second tabs, a login before the page has asked | `pcdog-panel.js:146`, `155` |
| `PanelComesBack` | a panel that shows the login form while its session lives | `pcdog-panel.js:155` |
| `SuccessIsTrue`, `FileIsWhatRuns` | a gadget bound by a start that was ended | `pcdog-usb-gadget.sh:62` |
| `FileIsWhatRuns` | a switch killed between write and restart, until a start reads the file | `pcdog-usb-mode.sh:97` |

Two more simplifications are in the modules themselves: the clock of *WebSession* only
advances, and in *CliInstaller* nobody writes into a release. (`pcdog` run as root would leave
a `__pycache__` in the release that the command runs, and later operations would refuse it.)

## Not modelled

- Formats: text of `gpioget`, `nmcli` and `/proc`, JSON, cookies, timestamps and the
  schema; validation of request fields. They are pure functions with unit tests.
- Polarity: an output is active or inactive, whichever voltage that is.
- Two installers, or two USB switches, at a time: neither has a lock, and both are run by
  hand. Two pcdog-test commands at a time are in the model (`scenario.runs`).
- `usb_mode.py`, which refuses to switch over the cable that the switch would cut; the
  routes it reads may change before the switch runs.
- `cleanup_stale_state`, which only touches pid files of lines that no command uses.
- Password hashing, the reading of the configuration and its setup tool, and a server
  without a password, which refuses every call.
- The recovery of a Windows host's adapter: one sequential loop of SSH calls without
  concurrency or state of its own; its timing lives in the host it talks to.
- The tools without state listed in the inventory, and the installation scripts.
