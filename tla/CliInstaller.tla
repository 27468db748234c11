---------------------------- MODULE CliInstaller ----------------------------
(***************************************************************************)
(* The installer of the read-only CLI (scripts/install-cli.py): a store of *)
(* releases, the links current and previous into it, and the launcher      *)
(* /usr/local/bin/pcdog that runs the current one.  One action is one      *)
(* change of the file system, and the process may fail or be killed before *)
(* any of them.                                                            *)
(*                                                                         *)
(* A release is named by the digest of its files, so a release and the     *)
(* version of the repository it was made from share one name.              *)
(***************************************************************************)
CONSTANTS
  Versions,    \* versions of the CLI in the repository
  LauncherOf,  \* the text of each version's launcher
  None,        \* no file, no link
  Legacy,      \* LEGACY_LAUNCHER, from before there was a store
  Foreign,     \* a launcher the installer does not know
  Unknown      \* see undo

Launchers == {LauncherOf[v] : v \in Versions}
Others == {None, Legacy, Foreign}

ASSUME NamesAssumption ==
  /\ DOMAIN LauncherOf = Versions
  /\ Others \cap (Versions \cup Launchers) = {}
  /\ None # Legacy /\ None # Foreign /\ Legacy # Foreign
  /\ Unknown \notin Versions \cup Others

VARIABLES
  source,      \* the version in the repository
  store,       \* the root: absent, bare (no marker yet), marked, or ready (with releases/)
  releases,    \* the releases in the store
  stage,       \* releases/ has a .stage-* directory
  litter,      \* the root has a temporary file or link
  current, previous,  \* the links: a release, or None
  legacyCopy,  \* the root has legacy-launcher
  launcher,    \* the text of /usr/local/bin/pcdog, or None
  proc,        \* the installer process
  undo         \* history: what a rollback has to bring back, or Unknown

files == <<store, releases, stage, litter, current, previous, legacyCopy, launcher>>
vars == <<source, files, proc, undo>>

\* What the command pcdog runs: a managed launcher runs the current release.
Runs == IF launcher \in Launchers THEN current ELSE launcher

\* pc is the change that comes next.  version and text are what current and the
\* launcher become, from is what current was, lstate the launcher's state when
\* the process began.  began, clean and touched are history: what pcdog ran
\* then, whether no earlier operation had been left half done, and whether this
\* one has changed what pcdog runs or a rollback would.
Idle == [op |-> "idle", pc |-> "idle", version |-> None, from |-> None, text |-> None,
         lstate |-> "absent", began |-> None, clean |-> TRUE, touched |-> FALSE]

Init ==
  /\ source \in Versions
  /\ store = "absent" /\ releases = {} /\ stage = FALSE /\ litter = FALSE
  /\ current = None /\ previous = None /\ legacyCopy = FALSE
  /\ launcher \in Others
  /\ proc = [Idle EXCEPT !.began = launcher] /\ undo = Unknown

-----------------------------------------------------------------------------
(* What every operation checks before it changes anything; a check that    *)
(* fails raises InstallError, and nothing has happened.                    *)

\* Fault variant: a file that is not recognised gets its own state instead of an error.
LauncherStateLax ==
  IF launcher = None THEN "absent" ELSE
  IF launcher = LauncherOf[source] THEN "managed" ELSE
  IF launcher = Legacy THEN "legacy" ELSE "foreign"

\* The three states of a launcher that _launcher_state knows; for another one
\* (a foreign file, and the launcher of a version that had a different one) it raises.
LauncherState ==
  IF launcher = None THEN "absent" ELSE
  IF launcher = LauncherOf[source] THEN "managed" ELSE
  IF launcher = Legacy THEN "legacy" ELSE "unknown"

\* _prepare_store finds no leftovers; links and releases are whole by themselves.
CleanStore == ~stage /\ ~litter

Begins(operation) ==
  proc' = [operation EXCEPT !.lstate = LauncherState, !.from = current, !.began = Runs,
             !.clean = /\ (launcher \in Launchers) = (current # None)
                       /\ launcher = None => ~legacyCopy]

(* What is left to do of an install after the release is in place.         *)

\* Fault variant: any launcher that exists is taken for the managed one.
AfterCurrentAny(p) == IF p.lstate = "absent" THEN "launcher" ELSE "check"

AfterCurrent(p) == IF p.lstate # "managed" THEN "launcher" ELSE "check"

\* Fault variant: the first install forgets the link.
AfterLegacyLinkless(p) ==
  IF current # p.version /\ current # None THEN "previous" ELSE AfterCurrent(p)

AfterLegacy(p) ==
  IF current = p.version THEN AfterCurrent(p) ELSE
  IF current # None THEN "previous" ELSE "current"

\* Fault variant: the older launcher is not kept.
AfterReleaseCopyless(p) == AfterLegacy(p)

AfterRelease(p) == IF p.lstate = "legacy" /\ ~legacyCopy THEN "legacy" ELSE AfterLegacy(p)

-----------------------------------------------------------------------------
(* Operations                                                              *)

\* install() is called.
Install ==
  /\ proc.op = "idle"
  /\ LauncherState # "unknown"
  /\ store # "bare" /\ CleanStore
  /\ Begins([Idle EXCEPT !.op = "install", !.version = source, !.text = LauncherOf[source],
               !.pc = CASE store = "absent" -> "root" [] store = "marked" -> "releases"
                        [] store = "ready"  -> "release"])
  /\ UNCHANGED <<source, files, undo>>

\* _prepare_store makes the root.
MakeRoot ==
  /\ proc.pc = "root"
  /\ store' = "bare" /\ proc' = [proc EXCEPT !.pc = "marker"]
  /\ UNCHANGED <<source, releases, stage, litter, current, previous, legacyCopy, launcher, undo>>

\* ... and the directory of releases.
MakeReleases ==
  /\ proc.pc = "releases"
  /\ store' = "ready" /\ proc' = [proc EXCEPT !.pc = "release"]
  /\ UNCHANGED <<source, releases, stage, litter, current, previous, legacyCopy, launcher, undo>>

\* _install_release finds the release in the store,
FindRelease ==
  /\ proc.pc = "release" /\ proc.version \in releases
  /\ proc' = [proc EXCEPT !.pc = AfterRelease(proc)]
  /\ UNCHANGED <<source, files, undo>>

\* ... or copies the files into a staging directory
StageRelease ==
  /\ proc.pc = "release" /\ proc.version \notin releases /\ ~stage
  /\ stage' = TRUE
  /\ UNCHANGED <<source, store, releases, litter, current, previous, legacyCopy, launcher, proc, undo>>

\* ... and renames it.
PublishRelease ==
  /\ proc.pc = "release" /\ stage
  /\ releases' = releases \cup {proc.version} /\ stage' = FALSE
  /\ proc' = [proc EXCEPT !.pc = AfterRelease(proc)]
  /\ UNCHANGED <<source, store, litter, current, previous, legacyCopy, launcher, undo>>

\* _atomic_write and _atomic_link make a temporary file or link in the root,
MakeTemporary ==
  /\ proc.pc \in {"marker", "legacy", "previous", "current"} /\ ~litter
  /\ litter' = TRUE
  /\ UNCHANGED <<source, store, releases, stage, current, previous, legacyCopy, launcher, proc, undo>>

\* ... and then rename it to its name.
Rename(pc) == proc.pc = pc /\ litter /\ litter' = FALSE

WriteMarker ==
  /\ Rename("marker")
  /\ store' = "marked" /\ proc' = [proc EXCEPT !.pc = "releases"]
  /\ UNCHANGED <<source, releases, stage, current, previous, legacyCopy, launcher, undo>>

SaveLegacy ==
  /\ Rename("legacy")
  /\ legacyCopy' = TRUE /\ proc' = [proc EXCEPT !.pc = AfterLegacy(proc)]
  /\ UNCHANGED <<source, store, releases, stage, current, previous, launcher, undo>>

\* The operation is over: it changed what pcdog runs, and that is what a rollback
\* has to bring back from now on, or it did not.
Ends ==
  /\ proc' = [Idle EXCEPT !.began = proc.began]
  /\ undo' = IF Runs' = proc.began THEN undo ELSE IF proc.clean THEN proc.began ELSE Unknown

\* Fault variant: the previous release is read when its link is made, not before.
LinkPreviousLate ==
  /\ Rename("previous")
  /\ previous' = current
  /\ UNCHANGED <<source, store, releases, stage, current, legacyCopy, launcher>>
  /\ IF proc.op = "install"
       THEN proc' = [proc EXCEPT !.pc = "current", !.touched = TRUE] /\ UNCHANGED undo
       ELSE Ends

\* An install swaps previous before current, a rollback after it.
LinkPrevious ==
  /\ Rename("previous")
  /\ previous' = proc.from
  /\ UNCHANGED <<source, store, releases, stage, current, legacyCopy, launcher>>
  /\ IF proc.op = "install"
       THEN proc' = [proc EXCEPT !.pc = "current", !.touched = TRUE] /\ UNCHANGED undo
       ELSE Ends

LinkCurrent ==
  /\ Rename("current")
  /\ current' = proc.version
  /\ proc' = [proc EXCEPT !.touched = TRUE,
                !.pc = IF proc.op = "install" THEN AfterCurrent(proc) ELSE "previous"]
  /\ UNCHANGED <<source, store, releases, stage, previous, legacyCopy, launcher, undo>>

\* The launcher's temporary file is in another directory, and nobody looks for it.
\* A rollback of the first install removes the launcher or writes back the old one.
WriteLauncher ==
  /\ proc.pc = "launcher"
  /\ launcher' = proc.text
  /\ proc' = [proc EXCEPT !.touched = TRUE, !.pc = IF proc.op = "install" THEN "check" ELSE "unlink"]
  /\ UNCHANGED <<source, store, releases, stage, litter, current, previous, legacyCopy, undo>>

\* _check_all_files; if it raises, all the changes have been made nevertheless.
InstallReturns ==
  /\ proc.pc = "check"
  /\ UNCHANGED <<source, files>>
  /\ Ends

\* rollback() is called after an update: it swaps the links.
RollbackUpdate ==
  /\ proc.op = "idle" /\ store = "ready" /\ CleanStore
  /\ current # None /\ previous # None /\ LauncherState = "managed"
  /\ Begins([Idle EXCEPT !.op = "rollback", !.pc = "current", !.version = previous])
  /\ UNCHANGED <<source, files, undo>>

\* ... or after the first install.
RollbackInstall ==
  /\ proc.op = "idle" /\ store = "ready" /\ CleanStore
  /\ current # None /\ previous = None
  /\ LauncherState \in IF legacyCopy THEN {"absent", "managed", "legacy"} ELSE {"managed"}
  /\ Begins([Idle EXCEPT !.op = "rollback", !.pc = "launcher",
               !.text = IF legacyCopy THEN Legacy ELSE None])
  /\ UNCHANGED <<source, files, undo>>

UnlinkCurrent ==
  /\ proc.pc = "unlink"
  /\ current' = None
  /\ UNCHANGED <<source, store, releases, stage, litter, previous, legacyCopy, launcher>>
  /\ Ends

-----------------------------------------------------------------------------
(* Failures, and what others do (the operator, external to src/)           *)

CutShort ==
  /\ proc' = [Idle EXCEPT !.began = proc.began]
  /\ undo' = IF proc.touched THEN Unknown ELSE undo

\* A call raises OSError: _atomic_write and _install_release remove their temporary
\* files, _atomic_link does not.
Fails ==
  /\ proc.op # "idle"
  /\ litter' = (litter /\ proc.pc \in {"current", "previous"})
  /\ stage' = FALSE
  /\ CutShort
  /\ UNCHANGED <<source, store, releases, current, previous, legacyCopy, launcher>>

\* The process is killed.
Killed ==
  /\ proc.op # "idle"
  /\ CutShort
  /\ UNCHANGED <<source, files>>

\* The repository is updated, also while the installer runs.
Update ==
  /\ source' \in Versions
  /\ UNCHANGED <<files, proc, undo>>

\* The operator replaces or removes the launcher while no installer runs,
Tamper ==
  /\ proc.op = "idle"
  /\ launcher' \in Others /\ undo' = Unknown
  /\ UNCHANGED <<source, store, releases, stage, litter, current, previous, legacyCopy, proc>>

\* ... and removes what an interrupted installer left, as its messages ask.
CleanUp ==
  /\ proc.op = "idle"
  /\ stage' = FALSE /\ litter' = FALSE
  /\ store' = IF store = "bare" THEN "absent" ELSE store
  /\ UNCHANGED <<source, releases, current, previous, legacyCopy, launcher, proc, undo>>

Next ==
  \/ Install \/ MakeRoot \/ MakeReleases \/ FindRelease \/ StageRelease \/ PublishRelease
  \/ MakeTemporary \/ WriteMarker \/ SaveLegacy \/ LinkPrevious \/ LinkCurrent \/ WriteLauncher
  \/ InstallReturns \/ RollbackUpdate \/ RollbackInstall \/ UnlinkCurrent
  \/ Fails \/ Killed \/ Update \/ Tamper \/ CleanUp

Spec == Init /\ [][Next]_vars

-----------------------------------------------------------------------------
(* Properties                                                              *)

Changes == {"root", "marker", "releases", "release", "legacy", "previous", "current",
            "launcher", "check", "unlink"}

ProcStates ==
  [op: {"idle", "install", "rollback"}, pc: Changes \cup {"idle"},
   version: Versions \cup {None}, from: Versions \cup {None},
   text: Launchers \cup Others, lstate: {"absent", "managed", "legacy"},
   began: Versions \cup Others, clean: BOOLEAN, touched: BOOLEAN]

\* Every variable keeps its type; an idle process has no step left.
TypeOK ==
  /\ source \in Versions
  /\ store \in {"absent", "bare", "marked", "ready"}
  /\ releases \subseteq Versions
  /\ stage \in BOOLEAN /\ litter \in BOOLEAN /\ legacyCopy \in BOOLEAN
  /\ current \in Versions \cup {None} /\ previous \in Versions \cup {None}
  /\ launcher \in Launchers \cup Others
  /\ undo \in Versions \cup Others \cup {Unknown}
  /\ proc \in ProcStates
  /\ (proc.op = "idle") = (proc.pc = "idle")

\* At every instant, whatever was interrupted, the managed launcher finds a whole
\* release behind current, and a rollback would find one behind previous.
LauncherWorks ==
  /\ launcher \in Launchers => current # None
  /\ current # None => current \in releases
  /\ previous # None => previous \in releases

\* An install that got as far as its own check passes it, from whatever
\* interrupted operations it started, unless the repository has changed since.
InstallIsComplete ==
  proc.pc = "check" =>
    /\ store = "ready" /\ CleanStore
    /\ Runs = proc.version
    /\ source = proc.version => LauncherState = "managed"

\* The installer never takes the recognised older launcher away before it has
\* kept a copy for the rollback (docs/runtime.md: the first rollback restores it).
LegacyIsKept ==
  [][launcher = Legacy /\ launcher' # Legacy /\ proc.op # "idle" => legacyCopy]_vars

\* What the operation in progress is about to make pcdog run.
About ==
  IF proc.version # None THEN proc.version ELSE IF proc.op = "idle" THEN proc.began ELSE proc.text

Active == INSTANCE ActiveCli WITH
  Releases <- Versions, runs <- Runs, op <- proc.op, to <- About, began <- proc.began

\* What pcdog runs changes at one instant of an operation, and a rollback leads
\* back to what the last finished operation replaced (docs/runtime.md: the link
\* of the active release is atomic, and a rollback restores the previous release).
ImplementsActiveCli == Active!Spec
=============================================================================
