------------------------ MODULE CliInstaller_proofs ------------------------
(***************************************************************************)
(* Proofs about CliInstaller, for any versions and launchers: its types,   *)
(* that the command always finds a whole release, that a finished install  *)
(* is complete, that the older launcher is kept, and that the installer    *)
(* implements ActiveCli.                                                   *)
(***************************************************************************)
EXTENDS CliInstaller, TLAPS

\* The process: which changes belong to which operation.
ProcShape ==
  /\ proc.op = "install" =>
       /\ proc.version \in Versions /\ proc.text = LauncherOf[proc.version]
       /\ proc.pc # "unlink"
  /\ proc.op = "rollback" =>
       \/ /\ proc.version \in Versions /\ proc.from \in Versions
          /\ proc.pc \in {"current", "previous"}
       \/ /\ proc.version = None /\ proc.text \in {None, Legacy}
          /\ proc.pc \in {"launcher", "unlink"}

\* The store is as far as the process is, and its temporary files are the only ones.
StoreShape ==
  /\ proc.pc = "root" => store = "absent"
  /\ proc.pc = "marker" => store = "bare"
  /\ proc.pc = "releases" => store = "marked"
  /\ proc.pc \notin {"idle", "root", "marker", "releases"} => store = "ready"
  /\ proc.pc \notin {"idle", "marker", "legacy", "previous", "current"} => ~litter
  /\ proc.pc \notin {"idle", "release"} => ~stage
  /\ proc.pc = "release" /\ stage => proc.version \notin releases

Early == {"root", "marker", "releases", "release"}

\* The links and the launcher are what the install found, up to its next change.
InstallShape ==
  proc.op = "install" =>
    /\ proc.pc \notin Early => proc.version \in releases
    /\ proc.pc \in {"launcher", "check"} => current = proc.version
    /\ proc.pc \notin {"launcher", "check"} => current = proc.from
    /\ proc.pc \in {"previous", "current"} => current # proc.version
    /\ proc.pc = "previous" => current # None
    /\ proc.pc = "launcher" => proc.lstate # "managed"
    /\ proc.pc = "check" => launcher = proc.text
    /\ proc.pc # "check" =>
         launcher = CASE proc.lstate = "absent"  -> None
                      [] proc.lstate = "legacy"  -> Legacy
                      [] proc.lstate = "managed" -> proc.text
    /\ proc.pc = "legacy" => proc.lstate = "legacy"
    /\ proc.lstate = "legacy" /\ proc.pc \notin Early \cup {"legacy"} => legacyCopy

\* ... and what the rollback found.
RollbackShape ==
  proc.op = "rollback" =>
    /\ proc.version # None =>
         /\ launcher \in Launchers
         /\ proc.version \in releases /\ proc.from \in releases
         /\ proc.pc = "current" => current = proc.from /\ previous = proc.version
         /\ proc.pc = "previous" => current = proc.version
    /\ proc.version = None =>
         /\ previous = None
         /\ (proc.text = Legacy) = legacyCopy
         /\ proc.pc = "launcher" /\ proc.text = None => launcher \in Launchers
         /\ proc.pc = "unlink" => launcher = proc.text

IInv ==
  /\ TypeOK /\ LauncherWorks
  /\ current = None => previous = None
  /\ ProcShape /\ StoreShape /\ InstallShape /\ RollbackShape

\* Where a rollback leads: what was there before the first install is the copy of
\* the older launcher, or nothing.
Target == IF previous # None THEN previous ELSE IF legacyCopy THEN Legacy ELSE None

\* An operation that has touched nothing leaves the promise to a rollback as it was.
UndoKept ==
  /\ proc.op = "idle" => ~proc.touched
  /\ undo # Unknown /\ ~proc.touched =>
       /\ (launcher \in Launchers) = (current # None)
       /\ current # None => undo = Target

\* An install knows what pcdog ran before, and is about to make a rollback lead there.
InstallHistory ==
  proc.op = "install" =>
    /\ proc.lstate = "managed" => proc.from # None
    /\ proc.began = CASE proc.lstate = "absent"  -> None
                      [] proc.lstate = "legacy"  -> Legacy
                      [] proc.lstate = "managed" -> proc.from
    /\ proc.touched => proc.began # proc.version
    /\ ~proc.touched /\ proc.pc \in {"launcher", "check"} => current = proc.from
    /\ ~proc.touched /\ proc.pc = "check" => proc.lstate = "managed"
    /\ proc.clean /\ proc.from = None =>
         previous = None /\ (proc.lstate = "absent" => ~legacyCopy)
    /\ proc.clean /\ proc.from # None => proc.lstate = "managed"
    /\ proc.from # None /\ (proc.pc = "current" \/ current # proc.from) => previous = proc.from

RollbackHistory ==
  proc.op = "rollback" =>
    /\ proc.version # None => proc.began = proc.from /\ (undo # Unknown => undo = proc.version)
    /\ proc.version = None /\ proc.pc = "launcher" => ~proc.touched /\ proc.began = Runs

HInv == IInv /\ UndoKept /\ InstallHistory /\ RollbackHistory

-----------------------------------------------------------------------------

LEMMA RunsType == TypeOK => Runs \in Versions \cup Others
  BY DEF TypeOK, Runs, Others

LEMMA AfterTypes ==
  ASSUME NEW p
  PROVE  /\ AfterCurrent(p) \in {"launcher", "check"}
         /\ AfterLegacy(p) \in {"previous", "current", "launcher", "check"}
         /\ AfterRelease(p) \in {"legacy", "previous", "current", "launcher", "check"}
  BY DEF AfterCurrent, AfterLegacy, AfterRelease

\* What is true of the process when an install goes on with a change.
NextChange(pc) ==
  /\ pc \in {"previous", "current"} => current # proc.version
  /\ pc = "previous" => current # None
  /\ pc = "current" => current = None
  /\ pc \in {"launcher", "check"} => current = proc.version
  /\ pc = "launcher" => proc.lstate # "managed"
  /\ pc = "check" => proc.lstate = "managed"

LEMMA AfterFacts ==
  /\ AfterCurrent(proc) = "launcher" <=> proc.lstate # "managed"
  /\ NextChange(AfterLegacy(proc))
  /\ AfterRelease(proc) = "legacy" => proc.lstate = "legacy"
  /\ AfterRelease(proc) # "legacy" =>
       NextChange(AfterRelease(proc)) /\ (proc.lstate = "legacy" => legacyCopy)
  <1>1. AfterCurrent(proc) = "launcher" <=> proc.lstate # "managed"
    BY DEF AfterCurrent
  <1>2. NextChange(AfterLegacy(proc)) /\ AfterLegacy(proc) # "legacy"
    BY <1>1, AfterTypes DEF AfterLegacy, NextChange
  <1>3. QED
    BY <1>1, <1>2 DEF AfterRelease

LEMMA IdleType ==
  ASSUME NEW b \in Versions \cup Others
  PROVE  /\ [Idle EXCEPT !.began = b] \in ProcStates
         /\ [Idle EXCEPT !.began = b].op = "idle" /\ [Idle EXCEPT !.began = b].pc = "idle"
         /\ [Idle EXCEPT !.began = b].version = None
         /\ [Idle EXCEPT !.began = b].began = b
         /\ [Idle EXCEPT !.began = b].touched = FALSE
  <1>1. Idle \in ProcStates
    BY DEF Idle, ProcStates, Others
  <1>2. /\ Idle.op = "idle" /\ Idle.pc = "idle" /\ Idle.version = None
        /\ Idle.touched = FALSE
    BY DEF Idle
  <1>3. QED
    BY <1>1, <1>2 DEF ProcStates

LEMMA IdleFields ==
  Idle \in ProcStates /\ Idle.touched = FALSE /\ Idle.version = None
  BY DEF Idle, ProcStates, Others

\* The next change of the process, when it goes on, and when it has changed something.
Goes(pc) ==
  /\ proc' \in ProcStates
  /\ proc'.pc = pc /\ proc'.op = proc.op /\ proc'.version = proc.version
  /\ proc'.from = proc.from /\ proc'.text = proc.text /\ proc'.lstate = proc.lstate
  /\ proc'.began = proc.began /\ proc'.clean = proc.clean

LEMMA GoesOn ==
  ASSUME proc \in ProcStates, NEW pc \in Changes, proc' = [proc EXCEPT !.pc = pc]
  PROVE  Goes(pc) /\ proc'.touched = proc.touched
  BY DEF Goes, ProcStates

LEMMA GoesTouched ==
  ASSUME proc \in ProcStates, NEW pc \in Changes,
         proc' = [proc EXCEPT !.pc = pc, !.touched = TRUE]
  PROVE  Goes(pc) /\ proc'.touched = TRUE
  BY DEF Goes, ProcStates

\* ... and the end of the process.
Stops ==
  /\ proc' \in ProcStates
  /\ proc'.op = "idle" /\ proc'.pc = "idle" /\ proc'.version = None
  /\ proc'.began = proc.began /\ proc'.touched = FALSE

LEMMA ProcStops ==
  ASSUME proc \in ProcStates, proc' = [Idle EXCEPT !.began = proc.began]
  PROVE  Stops
  <1>1. proc.began \in Versions \cup Others
    BY DEF ProcStates
  <1>2. QED
    BY <1>1, IdleType DEF Stops

\* What a call finds, and what Begins leaves of the operation it is given.
LauncherFound ==
  LauncherState # "unknown" =>
    /\ LauncherState \in {"absent", "managed", "legacy"}
    /\ launcher = CASE LauncherState = "absent"  -> None
                    [] LauncherState = "legacy"  -> Legacy
                    [] LauncherState = "managed" -> LauncherOf[source]

LEMMA LauncherStates == LauncherFound
  BY DEF LauncherFound, LauncherState

CleanStart ==
  /\ (launcher \in Launchers) = (current # None)
  /\ launcher = None => ~legacyCopy

LEMMA BeginsType ==
  ASSUME TypeOK, NEW operation \in ProcStates, Begins(operation), LauncherState # "unknown"
  PROVE  /\ proc' \in ProcStates
         /\ proc'.op = operation.op /\ proc'.pc = operation.pc
         /\ proc'.version = operation.version /\ proc'.text = operation.text
         /\ proc'.touched = operation.touched
         /\ proc'.from = current /\ proc'.began = Runs /\ proc'.lstate = LauncherState
         /\ proc'.clean = CleanStart
  <1> DEFINE p == [operation EXCEPT !.lstate = LauncherState, !.from = current, !.began = Runs,
                     !.clean = CleanStart]
  <1>1. proc' = p
    BY DEF Begins, CleanStart
  <1>2. Runs \in Versions \cup Others /\ current \in Versions \cup {None}
    BY RunsType DEF TypeOK
  <1>3. LauncherState \in {"absent", "managed", "legacy"}
    BY LauncherStates DEF LauncherFound
  <1>4. CleanStart \in BOOLEAN
    BY DEF CleanStart
  <1> HIDE DEF CleanStart
  <1>5. QED
    BY <1>1, <1>2, <1>3, <1>4 DEF ProcStates

FirstChange == CASE store = "absent" -> "root" [] store = "marked" -> "releases"
                 [] store = "ready"  -> "release"

LEMMA InstallBegins ==
  ASSUME TypeOK, Install
  PROVE  /\ proc' \in ProcStates
         /\ proc'.op = "install" /\ proc'.pc = FirstChange /\ FirstChange \in Early
         /\ proc'.version = source /\ proc'.text = LauncherOf[source]
         /\ proc'.touched = FALSE
         /\ proc'.from = current /\ proc'.began = Runs /\ proc'.lstate = LauncherState
         /\ proc'.clean = CleanStart
         /\ LauncherFound /\ LauncherState # "unknown"
         /\ proc.op = "idle" /\ store # "bare" /\ CleanStore /\ UNCHANGED <<source, files, undo>>
  <1> DEFINE o == [Idle EXCEPT !.op = "install", !.version = source, !.text = LauncherOf[source],
                     !.pc = FirstChange]
  <1>1. FirstChange \in Early /\ LauncherState # "unknown" /\ Begins(o)
    BY DEF TypeOK, Install, FirstChange, Early
  <1>2. LauncherOf[source] \in Launchers /\ source \in Versions
    BY DEF TypeOK, Launchers
  <1> HIDE DEF FirstChange
  <1>3. /\ o \in ProcStates
        /\ o.op = "install" /\ o.pc = FirstChange /\ o.version = source
        /\ o.text = LauncherOf[source] /\ o.touched = FALSE
    BY <1>1, <1>2, IdleFields DEF ProcStates, Others, Early, Changes
  <1>4. proc.op = "idle" /\ store # "bare" /\ CleanStore /\ UNCHANGED <<source, files, undo>>
    BY DEF Install
  <1> HIDE DEF o
  <1>5. QED
    BY <1>1, <1>3, <1>4, BeginsType, LauncherStates

LEMMA UpdateRollbackBegins ==
  ASSUME TypeOK, RollbackUpdate
  PROVE  /\ proc' \in ProcStates
         /\ proc'.op = "rollback" /\ proc'.pc = "current" /\ proc'.version = previous
         /\ proc'.touched = FALSE
         /\ proc'.from = current /\ proc'.began = Runs
         /\ proc.op = "idle" /\ store = "ready" /\ CleanStore /\ UNCHANGED <<source, files, undo>>
         /\ current # None /\ previous # None /\ launcher = LauncherOf[source]
  <1> DEFINE o == [Idle EXCEPT !.op = "rollback", !.pc = "current", !.version = previous]
  <1>1. LauncherState # "unknown" /\ Begins(o)
    BY DEF RollbackUpdate
  <1>2. /\ o \in ProcStates
        /\ o.op = "rollback" /\ o.pc = "current" /\ o.version = previous /\ o.touched = FALSE
    BY ZenonT(30), IdleFields DEF TypeOK, ProcStates, Changes
  <1>3. /\ proc.op = "idle" /\ store = "ready" /\ CleanStore /\ UNCHANGED <<source, files, undo>>
        /\ current # None /\ previous # None /\ LauncherState = "managed"
    BY DEF RollbackUpdate
  <1> HIDE DEF o
  <1>4. QED
    BY <1>1, <1>2, <1>3, BeginsType, LauncherStates DEF LauncherFound

LEMMA InstallRollbackBegins ==
  ASSUME TypeOK, RollbackInstall
  PROVE  /\ proc' \in ProcStates
         /\ proc'.op = "rollback" /\ proc'.pc = "launcher" /\ proc'.version = None
         /\ proc'.text = IF legacyCopy THEN Legacy ELSE None
         /\ proc'.touched = FALSE
         /\ proc'.from = current /\ proc'.began = Runs
         /\ proc.op = "idle" /\ store = "ready" /\ CleanStore /\ UNCHANGED <<source, files, undo>>
         /\ current # None /\ previous = None
         /\ ~legacyCopy => launcher = LauncherOf[source]
  <1> DEFINE text == IF legacyCopy THEN Legacy ELSE None
             o == [Idle EXCEPT !.op = "rollback", !.pc = "launcher", !.text = text]
  <1>1. LauncherState # "unknown" /\ Begins(o)
    BY DEF RollbackInstall
  <1>2. text \in {None, Legacy}
    OBVIOUS
  <1> HIDE DEF text
  <1>3. /\ o \in ProcStates
        /\ o.op = "rollback" /\ o.pc = "launcher" /\ o.version = None /\ o.text = text
        /\ o.touched = FALSE
    BY <1>2, IdleFields DEF ProcStates, Others, Changes
  <1>4. /\ proc.op = "idle" /\ store = "ready" /\ CleanStore /\ UNCHANGED <<source, files, undo>>
        /\ current # None /\ previous = None
        /\ ~legacyCopy => LauncherState = "managed"
    BY DEF RollbackInstall
  <1> HIDE DEF o
  <1>5. QED
    BY <1>1, <1>3, <1>4, BeginsType, LauncherStates DEF text, LauncherFound

\* What every step of a running process does to its record.
LEMMA ProcSteps ==
  ASSUME TypeOK
  PROVE  /\ MakeRoot => Goes("marker") /\ proc'.touched = proc.touched
         /\ MakeReleases => Goes("release") /\ proc'.touched = proc.touched
         /\ FindRelease => Goes(AfterRelease(proc)) /\ proc'.touched = proc.touched
         /\ PublishRelease => Goes(AfterRelease(proc)) /\ proc'.touched = proc.touched
         /\ WriteMarker => Goes("releases") /\ proc'.touched = proc.touched
         /\ SaveLegacy => Goes(AfterLegacy(proc)) /\ proc'.touched = proc.touched
         /\ LinkPrevious =>
              IF proc.op = "install" THEN Goes("current") /\ proc'.touched ELSE Stops
         /\ LinkCurrent =>
              /\ Goes(IF proc.op = "install" THEN AfterCurrent(proc) ELSE "previous")
              /\ proc'.touched
         /\ WriteLauncher =>
              Goes(IF proc.op = "install" THEN "check" ELSE "unlink") /\ proc'.touched
         /\ InstallReturns => Stops
         /\ UnlinkCurrent => Stops
         /\ Fails => Stops
         /\ Killed => Stops
  <1>1. proc \in ProcStates
    BY DEF TypeOK
  <1>2. /\ AfterCurrent(proc) \in Changes /\ AfterLegacy(proc) \in Changes
        /\ AfterRelease(proc) \in Changes
        /\ {"marker", "release", "releases", "current", "previous", "check", "unlink"} \subseteq Changes
    BY AfterTypes DEF Changes
  <1>3. MakeRoot => Goes("marker") /\ proc'.touched = proc.touched
    BY <1>1, <1>2, GoesOn DEF MakeRoot
  <1>4. MakeReleases => Goes("release") /\ proc'.touched = proc.touched
    BY <1>1, <1>2, GoesOn DEF MakeReleases
  <1>5. FindRelease => Goes(AfterRelease(proc)) /\ proc'.touched = proc.touched
    BY <1>1, <1>2, GoesOn DEF FindRelease
  <1>6. PublishRelease => Goes(AfterRelease(proc)) /\ proc'.touched = proc.touched
    BY <1>1, <1>2, GoesOn DEF PublishRelease
  <1>7. WriteMarker => Goes("releases") /\ proc'.touched = proc.touched
    BY <1>1, <1>2, GoesOn DEF WriteMarker
  <1>8. SaveLegacy => Goes(AfterLegacy(proc)) /\ proc'.touched = proc.touched
    BY <1>1, <1>2, GoesOn DEF SaveLegacy
  <1>9. LinkPrevious => IF proc.op = "install" THEN Goes("current") /\ proc'.touched ELSE Stops
    BY <1>1, <1>2, GoesTouched, ProcStops DEF LinkPrevious, Ends
  <1>10. LinkCurrent =>
           /\ Goes(IF proc.op = "install" THEN AfterCurrent(proc) ELSE "previous")
           /\ proc'.touched
    <2> DEFINE pc == IF proc.op = "install" THEN AfterCurrent(proc) ELSE "previous"
    <2>1. pc \in Changes
      BY <1>2
    <2>2. LinkCurrent => proc' = [proc EXCEPT !.pc = pc, !.touched = TRUE]
      BY <1>1, <2>1 DEF LinkCurrent, ProcStates
    <2> HIDE DEF pc
    <2>3. LinkCurrent => Goes(pc) /\ proc'.touched
      BY <1>1, <2>1, <2>2, GoesTouched
    <2>4. QED
      BY <2>3 DEF pc
  <1>11. WriteLauncher =>
           Goes(IF proc.op = "install" THEN "check" ELSE "unlink") /\ proc'.touched
    <2> DEFINE pc == IF proc.op = "install" THEN "check" ELSE "unlink"
    <2>1. pc \in Changes
      BY <1>2
    <2>2. WriteLauncher => proc' = [proc EXCEPT !.pc = pc, !.touched = TRUE]
      BY <1>1, <2>1 DEF WriteLauncher, ProcStates
    <2> HIDE DEF pc
    <2>3. WriteLauncher => Goes(pc) /\ proc'.touched
      BY <1>1, <2>1, <2>2, GoesTouched
    <2>4. QED
      BY <2>3 DEF pc
  <1>12. (InstallReturns => Stops) /\ (UnlinkCurrent => Stops)
    BY <1>1, ProcStops DEF InstallReturns, UnlinkCurrent, Ends
  <1>13. (Fails => Stops) /\ (Killed => Stops)
    BY <1>1, ProcStops DEF Fails, Killed, CutShort
  <1>14. QED
    BY <1>3, <1>4, <1>5, <1>6, <1>7, <1>8, <1>9, <1>10, <1>11, <1>12, <1>13

\* Types are kept by every step.
LEMMA TypeStep == TypeOK /\ ProcShape /\ [Next]_vars => TypeOK'
  <1> SUFFICES ASSUME TypeOK, ProcShape, [Next]_vars PROVE TypeOK'
    OBVIOUS
  <1>0. proc \in ProcStates /\ (proc.op # "idle" => proc.pc # "idle")
        /\ proc.from \in Versions \cup {None} /\ proc.version \in Versions \cup {None}
        /\ proc.text \in Launchers \cup Others /\ proc.began \in Versions \cup Others
    BY DEF TypeOK, ProcStates
  <1> USE <1>0, AfterTypes, ProcSteps DEF Goes, Stops
  <1>1. CASE Install
    BY <1>1, InstallBegins DEF TypeOK, files, Early
  <1>2. CASE MakeRoot
    BY <1>2 DEF TypeOK, MakeRoot
  <1>3. CASE MakeReleases
    BY <1>3 DEF TypeOK, MakeReleases
  <1>4. CASE FindRelease
    <2>1. proc.op # "idle"
      BY <1>4 DEF TypeOK, FindRelease
    <2>2. proc' \in ProcStates /\ proc'.op # "idle" /\ proc'.pc # "idle"
      BY <1>4, <2>1
    <2>3. QED
      BY <1>4, <2>2 DEF TypeOK, FindRelease, files
  <1>5. CASE StageRelease
    BY <1>5 DEF TypeOK, StageRelease
  <1>6. CASE PublishRelease
    <2>1. proc.op = "install" /\ proc.version \in Versions
      BY <1>6 DEF TypeOK, PublishRelease, ProcShape, ProcStates
    <2>2. proc' \in ProcStates /\ proc'.op # "idle" /\ proc'.pc # "idle"
      BY <1>6, <2>1
    <2>3. QED
      BY <1>6, <2>1, <2>2 DEF TypeOK, PublishRelease
  <1>7. CASE MakeTemporary
    BY <1>7 DEF TypeOK, MakeTemporary
  <1>8. CASE WriteMarker
    BY <1>8 DEF TypeOK, WriteMarker, Rename
  <1>9. CASE SaveLegacy
    BY ZenonT(30), <1>9 DEF TypeOK, SaveLegacy, Rename
  <1>10. CASE LinkPrevious
    BY ZenonT(30), <1>10 DEF TypeOK, LinkPrevious, Rename, Ends
  <1>11. CASE LinkCurrent
    <2>1. proc.op # "idle"
      BY <1>11 DEF TypeOK, LinkCurrent, Rename
    <2>2. proc' \in ProcStates /\ proc'.op # "idle" /\ proc'.pc # "idle"
      BY <1>11, <2>1
    <2>3. QED
      BY <1>11, <2>2 DEF TypeOK, LinkCurrent, Rename
  <1>12. CASE WriteLauncher
    <2>1. proc.op # "idle"
      BY <1>12 DEF TypeOK, WriteLauncher
    <2>2. proc' \in ProcStates /\ proc'.op # "idle" /\ proc'.pc # "idle"
      BY <1>12, <2>1
    <2>3. QED
      BY <1>12, <2>2 DEF TypeOK, WriteLauncher
  <1>13. CASE InstallReturns
    BY ZenonT(30), <1>13 DEF TypeOK, InstallReturns, Ends, files
  <1>14. CASE RollbackUpdate
    BY <1>14, UpdateRollbackBegins DEF TypeOK, RollbackUpdate, files
  <1>15. CASE RollbackInstall
    BY <1>15, InstallRollbackBegins DEF TypeOK, RollbackInstall, files
  <1>16. CASE UnlinkCurrent
    BY ZenonT(30), <1>16 DEF TypeOK, UnlinkCurrent, Ends
  <1>17. CASE Fails
    BY <1>17 DEF TypeOK, Fails, CutShort
  <1>18. CASE Killed
    BY ZenonT(30), <1>18 DEF TypeOK, Killed, CutShort, files
  <1>19. CASE Update
    BY <1>19 DEF TypeOK, Update, files
  <1>20. CASE Tamper
    BY <1>20 DEF TypeOK, Tamper
  <1>21. CASE CleanUp
    BY <1>21 DEF TypeOK, CleanUp
  <1>22. CASE UNCHANGED vars
    BY <1>22 DEF TypeOK, vars, files
  <1>23. QED
    BY <1>1, <1>2, <1>3, <1>4, <1>5, <1>6, <1>7, <1>8, <1>9, <1>10, <1>11, <1>12, <1>13,
       <1>14, <1>15, <1>16, <1>17, <1>18, <1>19, <1>20, <1>21, <1>22 DEF Next

LEMMA TypeInit == Init => TypeOK
  <1> SUFFICES ASSUME Init PROVE TypeOK
    OBVIOUS
  <1>1. proc \in ProcStates /\ proc.op = "idle" /\ proc.pc = "idle"
    BY IdleType DEF Init
  <1>2. QED
    BY <1>1 DEF Init, TypeOK

\* The shape of the process, the store and the links is kept by every step.
LEMMA ShapeStep == IInv /\ [Next]_vars => IInv'
  <1> SUFFICES ASSUME IInv, [Next]_vars PROVE IInv'
    OBVIOUS
  <1>0. /\ TypeOK /\ TypeOK' /\ LauncherWorks /\ (current = None => previous = None)
        /\ ProcShape /\ StoreShape /\ InstallShape /\ RollbackShape
    BY TypeStep DEF IInv
  <1>a. /\ proc \in ProcStates /\ (proc.op = "idle") = (proc.pc = "idle")
        /\ proc.op \in {"idle", "install", "rollback"}
        /\ proc.lstate \in {"absent", "managed", "legacy"}
        /\ current \in Versions \cup {None} /\ releases \subseteq Versions
    BY <1>0 DEF TypeOK, ProcStates
  <1>b. /\ None \notin Versions \cup Launchers /\ Legacy \notin Versions \cup Launchers
        /\ Foreign \notin Versions \cup Launchers /\ None # Legacy
        /\ \A v \in Versions : LauncherOf[v] \in Launchers
        /\ \A l \in Others : l \notin Launchers
    BY NamesAssumption DEF Others, Launchers
  <1> USE <1>0, <1>a, <1>b, ProcSteps DEF Goes, Stops
  <1>1. CASE Install
    <2>1. ProcShape' /\ StoreShape'
      BY <1>1, InstallBegins DEF ProcShape, StoreShape, files, CleanStore, FirstChange, LauncherFound, Early, TypeOK
    <2>2. LauncherWorks' /\ (current = None => previous = None)'
      BY ZenonT(30), <1>1, InstallBegins DEF LauncherWorks, ProcShape, InstallShape, RollbackShape, files, CleanStore, FirstChange, LauncherFound, Early, TypeOK
    <2>3. InstallShape'
      BY <1>1, InstallBegins DEF ProcShape, InstallShape, files, CleanStore, FirstChange, LauncherFound, Early, TypeOK
    <2>4. RollbackShape'
      BY <1>1, InstallBegins DEF LauncherWorks, ProcShape, RollbackShape, files, CleanStore, FirstChange, LauncherFound, Early, TypeOK
    <2>5. QED
      BY <2>1, <2>2, <2>3, <2>4 DEF IInv
  <1>2. CASE MakeRoot
    <2>1. ProcShape' /\ StoreShape'
      BY <1>2 DEF ProcShape, StoreShape, MakeRoot
    <2>2. LauncherWorks' /\ (current = None => previous = None)'
      BY <1>2 DEF LauncherWorks, ProcShape, InstallShape, RollbackShape, Early, MakeRoot
    <2>3. InstallShape'
      BY <1>2 DEF ProcShape, InstallShape, Early, MakeRoot
    <2>4. RollbackShape'
      BY <1>2 DEF LauncherWorks, ProcShape, RollbackShape, MakeRoot
    <2>5. QED
      BY <2>1, <2>2, <2>3, <2>4 DEF IInv
  <1>3. CASE MakeReleases
    <2>1. ProcShape' /\ StoreShape'
      BY <1>3 DEF ProcShape, StoreShape, MakeReleases
    <2>2. LauncherWorks' /\ (current = None => previous = None)'
      BY <1>3 DEF LauncherWorks, ProcShape, InstallShape, RollbackShape, Early, MakeReleases
    <2>3. InstallShape'
      BY <1>3 DEF ProcShape, InstallShape, Early, MakeReleases
    <2>4. RollbackShape'
      BY <1>3 DEF LauncherWorks, ProcShape, RollbackShape, MakeReleases
    <2>5. QED
      BY <2>1, <2>2, <2>3, <2>4 DEF IInv
  <1>4. CASE FindRelease
    <2>1. ProcShape' /\ StoreShape'
      <3>1. /\ proc.pc = "release" /\ UNCHANGED <<source, files, undo>>
            /\ Goes(AfterRelease(proc)) /\ proc.version \in releases
        BY <1>4 DEF FindRelease
      <3>2. QED
        BY <3>1, AfterTypes DEF ProcShape, StoreShape, files
    <2>2. LauncherWorks' /\ (current = None => previous = None)'
      BY <1>4, AfterTypes, AfterFacts DEF LauncherWorks, ProcShape, InstallShape, RollbackShape, Early, FindRelease, files, NextChange
    <2>3. InstallShape'
      BY <1>4, AfterTypes, AfterFacts DEF ProcShape, InstallShape, Early, FindRelease, files, NextChange
    <2>4. RollbackShape'
      BY <1>4, AfterTypes, AfterFacts DEF LauncherWorks, ProcShape, RollbackShape, FindRelease, files, NextChange
    <2>5. QED
      BY <2>1, <2>2, <2>3, <2>4 DEF IInv
  <1>5. CASE StageRelease
    <2>1. ProcShape' /\ StoreShape'
      BY <1>5 DEF ProcShape, StoreShape, StageRelease
    <2>2. LauncherWorks' /\ (current = None => previous = None)'
      BY <1>5 DEF LauncherWorks, ProcShape, InstallShape, RollbackShape, Early, StageRelease
    <2>3. InstallShape'
      BY <1>5 DEF ProcShape, InstallShape, Early, StageRelease
    <2>4. RollbackShape'
      BY <1>5 DEF LauncherWorks, ProcShape, RollbackShape, StageRelease
    <2>5. QED
      BY <2>1, <2>2, <2>3, <2>4 DEF IInv
  <1>6. CASE PublishRelease
    <2>1. ProcShape' /\ StoreShape'
      BY <1>6, AfterTypes, AfterFacts DEF ProcShape, StoreShape, PublishRelease, NextChange
    <2>2. LauncherWorks' /\ (current = None => previous = None)'
      BY <1>6, AfterTypes, AfterFacts DEF LauncherWorks, ProcShape, InstallShape, RollbackShape, Early, PublishRelease, NextChange
    <2>3. InstallShape'
      BY <1>6, AfterTypes, AfterFacts DEF ProcShape, InstallShape, Early, PublishRelease, NextChange
    <2>4. RollbackShape'
      BY <1>6, AfterTypes, AfterFacts DEF LauncherWorks, ProcShape, RollbackShape, PublishRelease, NextChange
    <2>5. QED
      BY <2>1, <2>2, <2>3, <2>4 DEF IInv
  <1>7. CASE MakeTemporary
    <2>1. ProcShape' /\ StoreShape'
      BY <1>7 DEF ProcShape, StoreShape, MakeTemporary
    <2>2. LauncherWorks' /\ (current = None => previous = None)'
      BY <1>7 DEF LauncherWorks, ProcShape, InstallShape, RollbackShape, Early, MakeTemporary
    <2>3. InstallShape'
      BY <1>7 DEF ProcShape, InstallShape, Early, MakeTemporary
    <2>4. RollbackShape'
      BY <1>7 DEF LauncherWorks, ProcShape, RollbackShape, MakeTemporary
    <2>5. QED
      BY <2>1, <2>2, <2>3, <2>4 DEF IInv
  <1>8. CASE WriteMarker
    <2>1. ProcShape' /\ StoreShape'
      BY <1>8 DEF ProcShape, StoreShape, WriteMarker, Rename
    <2>2. LauncherWorks' /\ (current = None => previous = None)'
      BY <1>8 DEF LauncherWorks, ProcShape, InstallShape, RollbackShape, Early, WriteMarker, Rename
    <2>3. InstallShape'
      BY <1>8 DEF ProcShape, InstallShape, Early, WriteMarker, Rename
    <2>4. RollbackShape'
      BY <1>8 DEF LauncherWorks, ProcShape, RollbackShape, WriteMarker, Rename
    <2>5. QED
      BY <2>1, <2>2, <2>3, <2>4 DEF IInv
  <1>9. CASE SaveLegacy
    <2>1. ProcShape' /\ StoreShape'
      BY <1>9, AfterTypes, AfterFacts DEF ProcShape, StoreShape, SaveLegacy, Rename, NextChange
    <2>2. LauncherWorks' /\ (current = None => previous = None)'
      BY <1>9, AfterTypes, AfterFacts DEF LauncherWorks, ProcShape, InstallShape, RollbackShape, Early, SaveLegacy, Rename, NextChange
    <2>3. InstallShape'
      BY <1>9, AfterTypes, AfterFacts DEF ProcShape, InstallShape, Early, SaveLegacy, Rename, NextChange
    <2>4. RollbackShape'
      BY <1>9, AfterTypes, AfterFacts DEF LauncherWorks, ProcShape, RollbackShape, SaveLegacy, Rename, NextChange
    <2>5. QED
      BY <2>1, <2>2, <2>3, <2>4 DEF IInv
  <1>10. CASE LinkPrevious
    <2>1. ProcShape' /\ StoreShape'
      BY <1>10 DEF ProcShape, StoreShape, LinkPrevious, Rename, Ends
    <2>2. LauncherWorks' /\ (current = None => previous = None)'
      BY <1>10 DEF LauncherWorks, ProcShape, InstallShape, RollbackShape, Early, LinkPrevious, Rename, Ends
    <2>3. InstallShape'
      BY <1>10 DEF ProcShape, InstallShape, Early, LinkPrevious, Rename, Ends
    <2>4. RollbackShape'
      BY <1>10 DEF LauncherWorks, ProcShape, RollbackShape, LinkPrevious, Rename, Ends
    <2>5. QED
      BY <2>1, <2>2, <2>3, <2>4 DEF IInv
  <1>11. CASE LinkCurrent
    <2>1. ProcShape' /\ StoreShape'
      BY <1>11, AfterTypes, AfterFacts DEF ProcShape, StoreShape, LinkCurrent, Rename, NextChange
    <2>2. LauncherWorks' /\ (current = None => previous = None)'
      BY <1>11, AfterTypes, AfterFacts DEF LauncherWorks, ProcShape, InstallShape, RollbackShape, Early, LinkCurrent, Rename, NextChange
    <2>3. InstallShape'
      BY <1>11, AfterTypes, AfterFacts DEF ProcShape, InstallShape, Early, LinkCurrent, Rename, NextChange
    <2>4. RollbackShape'
      BY <1>11, AfterTypes, AfterFacts DEF LauncherWorks, ProcShape, RollbackShape, LinkCurrent, Rename, NextChange
    <2>5. QED
      BY <2>1, <2>2, <2>3, <2>4 DEF IInv
  <1>12. CASE WriteLauncher
    <2>1. ProcShape' /\ StoreShape'
      BY <1>12 DEF ProcShape, StoreShape, WriteLauncher
    <2>2. LauncherWorks' /\ (current = None => previous = None)'
      BY <1>12 DEF LauncherWorks, ProcShape, InstallShape, RollbackShape, Early, WriteLauncher
    <2>3. InstallShape'
      BY <1>12 DEF ProcShape, InstallShape, Early, WriteLauncher
    <2>4. RollbackShape'
      BY <1>12 DEF LauncherWorks, ProcShape, RollbackShape, WriteLauncher
    <2>5. QED
      BY <2>1, <2>2, <2>3, <2>4 DEF IInv
  <1>13. CASE InstallReturns
    <2>1. ProcShape' /\ StoreShape'
      BY <1>13 DEF ProcShape, StoreShape, InstallReturns, Ends, files
    <2>2. LauncherWorks' /\ (current = None => previous = None)'
      BY <1>13 DEF LauncherWorks, ProcShape, InstallShape, RollbackShape, Early, InstallReturns, Ends, files
    <2>3. InstallShape'
      BY <1>13 DEF ProcShape, InstallShape, Early, InstallReturns, Ends, files
    <2>4. RollbackShape'
      BY <1>13 DEF LauncherWorks, ProcShape, RollbackShape, InstallReturns, Ends, files
    <2>5. QED
      BY <2>1, <2>2, <2>3, <2>4 DEF IInv
  <1>14. CASE RollbackUpdate
    <2>1. ProcShape' /\ StoreShape'
      BY <1>14, UpdateRollbackBegins DEF ProcShape, StoreShape, files, CleanStore, TypeOK
    <2>2. LauncherWorks' /\ (current = None => previous = None)'
      BY <1>14, UpdateRollbackBegins DEF LauncherWorks, ProcShape, InstallShape, RollbackShape, Early, files, CleanStore, TypeOK
    <2>3. InstallShape'
      BY <1>14, UpdateRollbackBegins DEF ProcShape, InstallShape, Early, files, CleanStore, TypeOK
    <2>4. RollbackShape'
      <3>1. proc'.version # None /\ proc'.pc = "current" /\ UNCHANGED files
        BY <1>14, UpdateRollbackBegins
      <3>2. /\ proc'.version = previous /\ proc'.from = current
            /\ previous \in releases /\ current \in releases
        BY <1>14, UpdateRollbackBegins DEF LauncherWorks
      <3>3. launcher \in Launchers
        BY <1>14, UpdateRollbackBegins DEF TypeOK
      <3>4. QED
        BY <3>1, <3>2, <3>3 DEF RollbackShape, files
    <2>5. QED
      BY <2>1, <2>2, <2>3, <2>4 DEF IInv
  <1>15. CASE RollbackInstall
    <2>1. ProcShape' /\ StoreShape'
      BY <1>15, InstallRollbackBegins DEF ProcShape, StoreShape, files, CleanStore, TypeOK
    <2>2. LauncherWorks' /\ (current = None => previous = None)'
      BY <1>15, InstallRollbackBegins DEF LauncherWorks, ProcShape, InstallShape, RollbackShape, Early, files, CleanStore, TypeOK
    <2>3. InstallShape'
      BY <1>15, InstallRollbackBegins DEF ProcShape, InstallShape, Early, files, CleanStore, TypeOK
    <2>4. RollbackShape'
      BY ZenonT(30), <1>15, InstallRollbackBegins DEF LauncherWorks, ProcShape, RollbackShape, files, CleanStore, TypeOK
    <2>5. QED
      BY <2>1, <2>2, <2>3, <2>4 DEF IInv
  <1>16. CASE UnlinkCurrent
    <2>1. ProcShape' /\ StoreShape'
      BY <1>16 DEF ProcShape, StoreShape, UnlinkCurrent, Ends
    <2>2. LauncherWorks' /\ (current = None => previous = None)'
      BY <1>16 DEF LauncherWorks, ProcShape, InstallShape, RollbackShape, Early, UnlinkCurrent, Ends
    <2>3. InstallShape'
      BY <1>16 DEF ProcShape, InstallShape, Early, UnlinkCurrent, Ends
    <2>4. RollbackShape'
      BY <1>16 DEF LauncherWorks, ProcShape, RollbackShape, UnlinkCurrent, Ends
    <2>5. QED
      BY <2>1, <2>2, <2>3, <2>4 DEF IInv
  <1>17. CASE Fails
    <2>1. ProcShape' /\ StoreShape'
      BY <1>17 DEF ProcShape, StoreShape, Fails, CutShort
    <2>2. LauncherWorks' /\ (current = None => previous = None)'
      BY <1>17 DEF LauncherWorks, ProcShape, InstallShape, RollbackShape, Early, Fails, CutShort
    <2>3. InstallShape'
      BY <1>17 DEF ProcShape, InstallShape, Early, Fails, CutShort
    <2>4. RollbackShape'
      BY <1>17 DEF LauncherWorks, ProcShape, RollbackShape, Fails, CutShort
    <2>5. QED
      BY <2>1, <2>2, <2>3, <2>4 DEF IInv
  <1>18. CASE Killed
    <2>1. ProcShape' /\ StoreShape'
      BY <1>18 DEF ProcShape, StoreShape, Killed, CutShort, files
    <2>2. LauncherWorks' /\ (current = None => previous = None)'
      BY <1>18 DEF LauncherWorks, ProcShape, InstallShape, RollbackShape, Early, Killed, CutShort, files
    <2>3. InstallShape'
      BY <1>18 DEF ProcShape, InstallShape, Early, Killed, CutShort, files
    <2>4. RollbackShape'
      BY <1>18 DEF LauncherWorks, ProcShape, RollbackShape, Killed, CutShort, files
    <2>5. QED
      BY <2>1, <2>2, <2>3, <2>4 DEF IInv
  <1>19. CASE Update
    <2>1. ProcShape' /\ StoreShape'
      BY <1>19 DEF ProcShape, StoreShape, Update, files
    <2>2. LauncherWorks' /\ (current = None => previous = None)'
      BY <1>19 DEF LauncherWorks, ProcShape, InstallShape, RollbackShape, Early, Update, files
    <2>3. InstallShape'
      BY <1>19 DEF ProcShape, InstallShape, Early, Update, files
    <2>4. RollbackShape'
      BY <1>19 DEF LauncherWorks, ProcShape, RollbackShape, Update, files
    <2>5. QED
      BY <2>1, <2>2, <2>3, <2>4 DEF IInv
  <1>20. CASE Tamper
    <2>1. ProcShape' /\ StoreShape'
      BY <1>20 DEF ProcShape, StoreShape, Tamper
    <2>2. LauncherWorks' /\ (current = None => previous = None)'
      BY <1>20 DEF LauncherWorks, ProcShape, InstallShape, RollbackShape, Early, Tamper
    <2>3. InstallShape'
      BY <1>20 DEF ProcShape, InstallShape, Early, Tamper
    <2>4. RollbackShape'
      BY <1>20 DEF LauncherWorks, ProcShape, RollbackShape, Tamper
    <2>5. QED
      BY <2>1, <2>2, <2>3, <2>4 DEF IInv
  <1>21. CASE CleanUp
    <2>1. ProcShape' /\ StoreShape'
      BY <1>21 DEF ProcShape, StoreShape, CleanUp
    <2>2. LauncherWorks' /\ (current = None => previous = None)'
      BY <1>21 DEF LauncherWorks, ProcShape, InstallShape, RollbackShape, Early, CleanUp
    <2>3. InstallShape'
      BY <1>21 DEF ProcShape, InstallShape, Early, CleanUp
    <2>4. RollbackShape'
      BY <1>21 DEF LauncherWorks, ProcShape, RollbackShape, CleanUp
    <2>5. QED
      BY <2>1, <2>2, <2>3, <2>4 DEF IInv
  <1>22. CASE UNCHANGED vars
    <2>1. ProcShape' /\ StoreShape'
      BY <1>22 DEF ProcShape, StoreShape, vars, files
    <2>2. LauncherWorks' /\ (current = None => previous = None)'
      BY <1>22 DEF LauncherWorks, ProcShape, InstallShape, RollbackShape, Early, vars, files
    <2>3. InstallShape'
      BY <1>22 DEF ProcShape, InstallShape, Early, vars, files
    <2>4. RollbackShape'
      BY <1>22 DEF LauncherWorks, ProcShape, RollbackShape, vars, files
    <2>5. QED
      BY <2>1, <2>2, <2>3, <2>4 DEF IInv
  <1>23. QED
    BY <1>1, <1>2, <1>3, <1>4, <1>5, <1>6, <1>7, <1>8, <1>9, <1>10, <1>11, <1>12, <1>13,
       <1>14, <1>15, <1>16, <1>17, <1>18, <1>19, <1>20, <1>21, <1>22 DEF Next

LEMMA ShapeInit == Init => IInv
  <1> SUFFICES ASSUME Init PROVE IInv
    OBVIOUS
  <1>1. proc \in ProcStates /\ proc.op = "idle" /\ proc.pc = "idle"
    BY IdleType DEF Init
  <1>2. launcher \notin Launchers
    BY NamesAssumption DEF Init
  <1>3. QED
    BY <1>1, <1>2, TypeInit DEF Init, IInv, LauncherWorks, ProcShape, StoreShape, InstallShape, RollbackShape

\* Every variable keeps its type, and a process that runs has a next change to make.
THEOREM TypeCorrect == Spec => []TypeOK
  <1>1. IInv => TypeOK
    BY DEF IInv
  <1>2. QED
    BY <1>1, ShapeInit, ShapeStep, PTL DEF Spec

LEMMA Invariant == Spec => []IInv
  BY ShapeInit, ShapeStep, PTL DEF Spec

\* Whatever is interrupted and in whatever order operations follow, a managed launcher
\* finds a whole release behind current, and a rollback one behind previous.
THEOREM LauncherWorksHolds == Spec => []LauncherWorks
  <1>1. IInv => LauncherWorks
    BY DEF IInv
  <1>2. QED
    BY <1>1, Invariant, PTL

\* An install that reaches its own check passes it, if the repository has not changed.
THEOREM InstallIsCompleteHolds == Spec => []InstallIsComplete
  <1>1. IInv => InstallIsComplete
    <2> SUFFICES ASSUME IInv, proc.pc = "check"
                 PROVE  /\ store = "ready" /\ CleanStore
                        /\ Runs = proc.version
                        /\ source = proc.version => LauncherState = "managed"
      BY DEF InstallIsComplete
    <2>1. proc.op = "install"
      BY DEF IInv, TypeOK, ProcStates, ProcShape
    <2>2. /\ proc.version \in Versions /\ current = proc.version
          /\ launcher = LauncherOf[proc.version]
      BY <2>1 DEF IInv, ProcShape, InstallShape
    <2>3. launcher \in Launchers /\ launcher # None
      BY <2>2, NamesAssumption DEF Launchers, Others
    <2>4. QED
      BY <2>2, <2>3 DEF IInv, StoreShape, CleanStore, Runs, LauncherState
  <1>2. QED
    BY <1>1, Invariant, PTL

\* The recognised older launcher is copied before an install replaces it, and a
\* rollback never removes it.
THEOREM LegacyIsKeptHolds == Spec => LegacyIsKept
  <1>1. IInv /\ [Next]_vars =>
          [launcher = Legacy /\ launcher' # Legacy /\ proc.op # "idle" => legacyCopy]_vars
    <2> SUFFICES ASSUME IInv, [Next]_vars, launcher = Legacy, launcher' # Legacy, proc.op # "idle"
                 PROVE  legacyCopy
      OBVIOUS
    <2>1. Legacy \notin Launchers /\ Legacy # None
      BY NamesAssumption DEF Others
    <2>2. WriteLauncher
      BY DEF Next, vars, files, Install, MakeRoot, MakeReleases, FindRelease, StageRelease,
         PublishRelease, MakeTemporary, WriteMarker, SaveLegacy, LinkPrevious, LinkCurrent,
         InstallReturns, RollbackUpdate, RollbackInstall, UnlinkCurrent, Fails, Killed, Update,
         Tamper, CleanUp
    <2>3. proc.op \in {"install", "rollback"} /\ proc.pc = "launcher" /\ launcher' = proc.text
      BY <2>2 DEF WriteLauncher, IInv, TypeOK, ProcStates
    <2>4. CASE proc.op = "install"
      <3>1. proc.text \in Launchers /\ proc.lstate \in {"absent", "managed", "legacy"}
        BY <2>4 DEF IInv, ProcShape, Launchers, TypeOK, ProcStates
      <3>2. proc.lstate = "legacy"
        BY <2>1, <2>3, <2>4, <3>1 DEF IInv, InstallShape
      <3>3. QED
        BY <2>3, <2>4, <3>2 DEF IInv, InstallShape, Early
    <2>5. CASE proc.op = "rollback"
      <3>1. proc.version = None /\ proc.text \in {None, Legacy}
        BY <2>3, <2>5 DEF IInv, ProcShape
      <3>2. QED
        BY <2>1, <2>3, <2>5, <3>1 DEF IInv, RollbackShape
    <2>6. QED
      BY <2>3, <2>4, <2>5
  <1>2. QED
    BY <1>1, Invariant, PTL DEF Spec, LegacyIsKept

-----------------------------------------------------------------------------
(* The installer implements ActiveCli.                                     *)

\* What an operation knows of the past is kept by every step.
LEMMA HistoryStep == HInv /\ [Next]_vars => HInv'
  <1> SUFFICES ASSUME HInv, [Next]_vars PROVE HInv'
    OBVIOUS
  <1>0. /\ IInv /\ IInv' /\ UndoKept /\ InstallHistory /\ RollbackHistory
    BY ShapeStep DEF HInv
  <1>a. /\ TypeOK /\ TypeOK' /\ LauncherWorks /\ LauncherWorks'
        /\ (current = None => previous = None)
        /\ ProcShape /\ ProcShape' /\ InstallShape /\ InstallShape'
        /\ RollbackShape /\ RollbackShape'
    BY <1>0 DEF IInv
  <1>b. /\ proc \in ProcStates /\ (proc.op = "idle") = (proc.pc = "idle")
        /\ proc.op \in {"idle", "install", "rollback"}
        /\ proc.lstate \in {"absent", "managed", "legacy"}
        /\ current \in Versions \cup {None} /\ releases \subseteq Versions
        /\ proc.began \in Versions \cup Others /\ proc.from \in Versions \cup {None}
    BY <1>a DEF TypeOK, ProcStates
  <1>c. /\ None \notin Versions \cup Launchers /\ Legacy \notin Versions \cup Launchers
        /\ Foreign \notin Versions \cup Launchers /\ None # Legacy
        /\ \A v \in Versions : LauncherOf[v] \in Launchers /\ v \notin Others /\ v # Unknown
        /\ \A l \in Others : l \notin Launchers /\ l # Unknown
    BY NamesAssumption DEF Others, Launchers
  <1> USE <1>0, <1>a, <1>b, <1>c, ProcSteps DEF Goes, Stops
  <1>1. CASE Install
    <2>1. UndoKept'
      BY <1>1, InstallBegins DEF UndoKept, Target, files
    <2>2. InstallHistory'
      <3>1. /\ proc'.lstate = LauncherState /\ proc'.from = current /\ ~proc'.touched
            /\ proc'.pc \in Early /\ proc'.began = Runs /\ UNCHANGED files
            /\ LauncherFound /\ LauncherState # "unknown" /\ proc'.clean = CleanStart
            /\ LauncherOf[source] \in Launchers
        BY <1>1, InstallBegins DEF TypeOK
      <3>2. LauncherState = "managed" => launcher \in Launchers /\ current # None
        BY <3>1 DEF LauncherFound, LauncherWorks
      <3>3. proc'.began = CASE proc'.lstate = "absent"  -> None
                            [] proc'.lstate = "legacy"  -> Legacy
                            [] proc'.lstate = "managed" -> proc'.from
        BY <3>1, <3>2 DEF LauncherFound, Runs
      <3>4. /\ proc'.clean /\ proc'.from = None =>
                 previous = None /\ (proc'.lstate = "absent" => ~legacyCopy)
            /\ proc'.clean /\ proc'.from # None => proc'.lstate = "managed"
        BY <3>1 DEF LauncherFound, CleanStart
      <3>5. QED
        BY <3>1, <3>2, <3>3, <3>4 DEF InstallHistory, Early, files
    <2>3. RollbackHistory'
      BY <1>1, InstallBegins DEF RollbackHistory, RollbackShape, ProcShape, UndoKept, Target, Runs, files, CleanStore, FirstChange, LauncherFound, Early, TypeOK, CleanStart
    <2>4. QED
      BY <2>1, <2>2, <2>3 DEF HInv
  <1>2. CASE MakeRoot
    <2>1. UndoKept'
      BY <1>2 DEF UndoKept, Target, Runs, InstallHistory, RollbackHistory, InstallShape, RollbackShape, ProcShape, Early, MakeRoot
    <2>2. InstallHistory'
      BY <1>2 DEF InstallHistory, InstallShape, LauncherWorks, Runs, Early, MakeRoot
    <2>3. RollbackHistory'
      BY <1>2 DEF RollbackHistory, RollbackShape, ProcShape, UndoKept, Target, Runs, MakeRoot
    <2>4. QED
      BY <2>1, <2>2, <2>3 DEF HInv
  <1>3. CASE MakeReleases
    <2>1. UndoKept'
      BY <1>3 DEF UndoKept, Target, Runs, InstallHistory, RollbackHistory, InstallShape, RollbackShape, ProcShape, Early, MakeReleases
    <2>2. InstallHistory'
      BY <1>3 DEF InstallHistory, InstallShape, LauncherWorks, Runs, Early, MakeReleases
    <2>3. RollbackHistory'
      BY <1>3 DEF RollbackHistory, RollbackShape, ProcShape, UndoKept, Target, Runs, MakeReleases
    <2>4. QED
      BY <2>1, <2>2, <2>3 DEF HInv
  <1>4. CASE FindRelease
    <2>1. UndoKept'
      BY <1>4, AfterTypes, AfterFacts DEF UndoKept, Target, Runs, InstallHistory, RollbackHistory, InstallShape, RollbackShape, ProcShape, Early, FindRelease, files, NextChange
    <2>2. InstallHistory'
      BY <1>4, AfterTypes, AfterFacts DEF InstallHistory, InstallShape, LauncherWorks, Runs, Early, FindRelease, files, NextChange
    <2>3. RollbackHistory'
      BY <1>4, AfterTypes, AfterFacts DEF RollbackHistory, RollbackShape, ProcShape, UndoKept, Target, Runs, FindRelease, files, NextChange
    <2>4. QED
      BY <2>1, <2>2, <2>3 DEF HInv
  <1>5. CASE StageRelease
    <2>1. UndoKept'
      BY <1>5 DEF UndoKept, Target, Runs, InstallHistory, RollbackHistory, InstallShape, RollbackShape, ProcShape, Early, StageRelease
    <2>2. InstallHistory'
      BY <1>5 DEF InstallHistory, InstallShape, LauncherWorks, Runs, Early, StageRelease
    <2>3. RollbackHistory'
      BY <1>5 DEF RollbackHistory, RollbackShape, ProcShape, UndoKept, Target, Runs, StageRelease
    <2>4. QED
      BY <2>1, <2>2, <2>3 DEF HInv
  <1>6. CASE PublishRelease
    <2>1. UndoKept'
      BY <1>6, AfterTypes, AfterFacts DEF UndoKept, Target, Runs, InstallHistory, RollbackHistory, InstallShape, RollbackShape, ProcShape, Early, PublishRelease, NextChange
    <2>2. InstallHistory'
      BY <1>6, AfterTypes, AfterFacts DEF InstallHistory, InstallShape, LauncherWorks, Runs, Early, PublishRelease, NextChange
    <2>3. RollbackHistory'
      BY <1>6, AfterTypes, AfterFacts DEF RollbackHistory, RollbackShape, ProcShape, UndoKept, Target, Runs, PublishRelease, NextChange
    <2>4. QED
      BY <2>1, <2>2, <2>3 DEF HInv
  <1>7. CASE MakeTemporary
    <2>1. UndoKept'
      BY <1>7 DEF UndoKept, Target, Runs, InstallHistory, RollbackHistory, InstallShape, RollbackShape, ProcShape, Early, MakeTemporary
    <2>2. InstallHistory'
      BY <1>7 DEF InstallHistory, InstallShape, LauncherWorks, Runs, Early, MakeTemporary
    <2>3. RollbackHistory'
      BY <1>7 DEF RollbackHistory, RollbackShape, ProcShape, UndoKept, Target, Runs, MakeTemporary
    <2>4. QED
      BY <2>1, <2>2, <2>3 DEF HInv
  <1>8. CASE WriteMarker
    <2>1. UndoKept'
      BY <1>8 DEF UndoKept, Target, Runs, InstallHistory, RollbackHistory, InstallShape, RollbackShape, ProcShape, Early, WriteMarker, Rename
    <2>2. InstallHistory'
      BY <1>8 DEF InstallHistory, InstallShape, LauncherWorks, Runs, Early, WriteMarker, Rename
    <2>3. RollbackHistory'
      BY <1>8 DEF RollbackHistory, RollbackShape, ProcShape, UndoKept, Target, Runs, WriteMarker, Rename
    <2>4. QED
      BY <2>1, <2>2, <2>3 DEF HInv
  <1>9. CASE SaveLegacy
    <2>1. UndoKept'
      BY <1>9, AfterTypes, AfterFacts DEF UndoKept, Target, Runs, InstallHistory, RollbackHistory, InstallShape, RollbackShape, ProcShape, Early, SaveLegacy, Rename, NextChange
    <2>2. InstallHistory'
      BY <1>9, AfterTypes, AfterFacts DEF InstallHistory, InstallShape, LauncherWorks, Runs, Early, SaveLegacy, Rename, NextChange
    <2>3. RollbackHistory'
      BY <1>9, AfterTypes, AfterFacts DEF RollbackHistory, RollbackShape, ProcShape, UndoKept, Target, Runs, SaveLegacy, Rename, NextChange
    <2>4. QED
      BY <2>1, <2>2, <2>3 DEF HInv
  <1>10. CASE LinkPrevious
    <2>1. UndoKept'
      BY ZenonT(30), <1>10 DEF UndoKept, Target, Runs, InstallHistory, RollbackHistory, InstallShape, RollbackShape, ProcShape, Early, LinkPrevious, Rename, Ends
    <2>2. InstallHistory'
      BY <1>10 DEF InstallHistory, InstallShape, LauncherWorks, Runs, Early, LinkPrevious, Rename, Ends
    <2>3. RollbackHistory'
      BY <1>10 DEF RollbackHistory, RollbackShape, ProcShape, UndoKept, Target, Runs, LinkPrevious, Rename, Ends
    <2>4. QED
      BY <2>1, <2>2, <2>3 DEF HInv
  <1>11. CASE LinkCurrent
    <2>1. UndoKept'
      BY <1>11, AfterTypes, AfterFacts DEF UndoKept, Target, Runs, InstallHistory, RollbackHistory, InstallShape, RollbackShape, ProcShape, Early, LinkCurrent, Rename, NextChange
    <2>2. InstallHistory'
      BY <1>11, AfterTypes, AfterFacts DEF InstallHistory, InstallShape, LauncherWorks, Runs, Early, LinkCurrent, Rename, NextChange
    <2>3. RollbackHistory'
      BY <1>11, AfterTypes, AfterFacts DEF RollbackHistory, RollbackShape, ProcShape, UndoKept, Target, Runs, LinkCurrent, Rename, NextChange
    <2>4. QED
      BY <2>1, <2>2, <2>3 DEF HInv
  <1>12. CASE WriteLauncher
    <2>1. UndoKept'
      BY <1>12 DEF UndoKept, Target, Runs, InstallHistory, RollbackHistory, InstallShape, RollbackShape, ProcShape, Early, WriteLauncher
    <2>2. InstallHistory'
      BY <1>12 DEF InstallHistory, InstallShape, LauncherWorks, Runs, Early, WriteLauncher
    <2>3. RollbackHistory'
      BY <1>12 DEF RollbackHistory, RollbackShape, ProcShape, UndoKept, Target, Runs, WriteLauncher
    <2>4. QED
      BY <2>1, <2>2, <2>3 DEF HInv
  <1>13. CASE InstallReturns
    <2>1. UndoKept'
      BY ZenonT(30), <1>13 DEF UndoKept, Target, Runs, InstallHistory, RollbackHistory, InstallShape, RollbackShape, ProcShape, Early, InstallReturns, Ends, files
    <2>2. InstallHistory'
      BY <1>13 DEF InstallHistory, InstallShape, LauncherWorks, Runs, Early, InstallReturns, Ends, files
    <2>3. RollbackHistory'
      BY <1>13 DEF RollbackHistory, RollbackShape, ProcShape, UndoKept, Target, Runs, InstallReturns, Ends, files
    <2>4. QED
      BY <2>1, <2>2, <2>3 DEF HInv
  <1>14. CASE RollbackUpdate
    <2>1. UndoKept'
      BY <1>14, UpdateRollbackBegins DEF UndoKept, Target, files
    <2>2. InstallHistory'
      BY <1>14, UpdateRollbackBegins DEF InstallHistory, InstallShape, LauncherWorks, Runs, Early, files, CleanStore, TypeOK
    <2>3. RollbackHistory'
      BY ZenonT(30), <1>14, UpdateRollbackBegins DEF RollbackHistory, RollbackShape, ProcShape, UndoKept, Target, Runs, files, CleanStore, TypeOK
    <2>4. QED
      BY <2>1, <2>2, <2>3 DEF HInv
  <1>15. CASE RollbackInstall
    <2>1. UndoKept'
      BY <1>15, InstallRollbackBegins DEF UndoKept, Target, files
    <2>2. InstallHistory'
      BY <1>15, InstallRollbackBegins DEF InstallHistory, InstallShape, LauncherWorks, Runs, Early, files, CleanStore, TypeOK
    <2>3. RollbackHistory'
      BY ZenonT(30), <1>15, InstallRollbackBegins DEF RollbackHistory, RollbackShape, ProcShape, UndoKept, Target, Runs, files, CleanStore, TypeOK
    <2>4. QED
      BY <2>1, <2>2, <2>3 DEF HInv
  <1>16. CASE UnlinkCurrent
    <2>1. UndoKept'
      <3>1. proc.op = "rollback" /\ proc.pc = "unlink"
        BY <1>16 DEF UnlinkCurrent, ProcShape
      <3>2. launcher \notin Launchers
        BY <3>1 DEF ProcShape, RollbackShape
      <3>3. launcher' = launcher /\ current' = None /\ Stops
        BY <1>16 DEF UnlinkCurrent
      <3>4. QED
        BY <3>2, <3>3 DEF UndoKept
    <2>2. InstallHistory'
      BY <1>16 DEF InstallHistory, InstallShape, LauncherWorks, Runs, Early, UnlinkCurrent, Ends
    <2>3. RollbackHistory'
      BY <1>16 DEF RollbackHistory, RollbackShape, ProcShape, UndoKept, Target, Runs, UnlinkCurrent, Ends
    <2>4. QED
      BY <2>1, <2>2, <2>3 DEF HInv
  <1>17. CASE Fails
    <2>1. UndoKept'
      BY <1>17 DEF UndoKept, Target, Runs, InstallHistory, RollbackHistory, InstallShape, RollbackShape, ProcShape, Early, Fails, CutShort
    <2>2. InstallHistory'
      BY <1>17 DEF InstallHistory, InstallShape, LauncherWorks, Runs, Early, Fails, CutShort
    <2>3. RollbackHistory'
      BY <1>17 DEF RollbackHistory, RollbackShape, ProcShape, UndoKept, Target, Runs, Fails, CutShort
    <2>4. QED
      BY <2>1, <2>2, <2>3 DEF HInv
  <1>18. CASE Killed
    <2>1. UndoKept'
      BY <1>18 DEF UndoKept, Target, Runs, InstallHistory, RollbackHistory, InstallShape, RollbackShape, ProcShape, Early, Killed, CutShort, files
    <2>2. InstallHistory'
      BY <1>18 DEF InstallHistory, InstallShape, LauncherWorks, Runs, Early, Killed, CutShort, files
    <2>3. RollbackHistory'
      BY <1>18 DEF RollbackHistory, RollbackShape, ProcShape, UndoKept, Target, Runs, Killed, CutShort, files
    <2>4. QED
      BY <2>1, <2>2, <2>3 DEF HInv
  <1>19. CASE Update
    <2>1. UndoKept'
      BY <1>19 DEF UndoKept, Target, Runs, InstallHistory, RollbackHistory, InstallShape, RollbackShape, ProcShape, Early, Update, files
    <2>2. InstallHistory'
      BY <1>19 DEF InstallHistory, InstallShape, LauncherWorks, Runs, Early, Update, files
    <2>3. RollbackHistory'
      BY <1>19 DEF RollbackHistory, RollbackShape, ProcShape, UndoKept, Target, Runs, Update, files
    <2>4. QED
      BY <2>1, <2>2, <2>3 DEF HInv
  <1>20. CASE Tamper
    <2>1. UndoKept'
      BY <1>20 DEF UndoKept, Target, Runs, InstallHistory, RollbackHistory, InstallShape, RollbackShape, ProcShape, Early, Tamper
    <2>2. InstallHistory'
      BY <1>20 DEF InstallHistory, InstallShape, LauncherWorks, Runs, Early, Tamper
    <2>3. RollbackHistory'
      BY <1>20 DEF RollbackHistory, RollbackShape, ProcShape, UndoKept, Target, Runs, Tamper
    <2>4. QED
      BY <2>1, <2>2, <2>3 DEF HInv
  <1>21. CASE CleanUp
    <2>1. UndoKept'
      BY <1>21 DEF UndoKept, Target, Runs, InstallHistory, RollbackHistory, InstallShape, RollbackShape, ProcShape, Early, CleanUp
    <2>2. InstallHistory'
      BY <1>21 DEF InstallHistory, InstallShape, LauncherWorks, Runs, Early, CleanUp
    <2>3. RollbackHistory'
      BY <1>21 DEF RollbackHistory, RollbackShape, ProcShape, UndoKept, Target, Runs, CleanUp
    <2>4. QED
      BY <2>1, <2>2, <2>3 DEF HInv
  <1>22. CASE UNCHANGED vars
    <2>1. UndoKept'
      BY <1>22 DEF UndoKept, Target, Runs, InstallHistory, RollbackHistory, InstallShape, RollbackShape, ProcShape, Early, vars, files
    <2>2. InstallHistory'
      BY <1>22 DEF InstallHistory, InstallShape, LauncherWorks, Runs, Early, vars, files
    <2>3. RollbackHistory'
      BY <1>22 DEF RollbackHistory, RollbackShape, ProcShape, UndoKept, Target, Runs, vars, files
    <2>4. QED
      BY <2>1, <2>2, <2>3 DEF HInv
  <1>23. QED
    BY <1>1, <1>2, <1>3, <1>4, <1>5, <1>6, <1>7, <1>8, <1>9, <1>10, <1>11, <1>12, <1>13,
       <1>14, <1>15, <1>16, <1>17, <1>18, <1>19, <1>20, <1>21, <1>22 DEF Next

LEMMA HistoryInit == Init => HInv
  <1> SUFFICES ASSUME Init PROVE HInv
    OBVIOUS
  <1>1. proc.op = "idle" /\ undo = Unknown /\ ~proc.touched
    BY IdleType DEF Init
  <1>2. QED
    BY <1>1, ShapeInit DEF HInv, UndoKept, InstallHistory, RollbackHistory

LEMMA AbstractInit == Init => Active!Init
  <1> SUFFICES ASSUME Init PROVE Active!Init
    OBVIOUS
  <1>1. proc.op = "idle" /\ proc.version = None /\ proc.began = launcher /\ launcher \in Others
    BY IdleType DEF Init
  <1>2. Runs = launcher
    BY <1>1, NamesAssumption DEF Runs
  <1>3. QED
    BY <1>1, <1>2 DEF Init, Active!Init, About

\* Every step of the installer is a step of ActiveCli or none.
LEMMA AbstractStep == HInv /\ [Next]_vars => [Active!Next]_(Active!vars)
  <1> SUFFICES ASSUME HInv, [Next]_vars PROVE Active!Next \/ UNCHANGED Active!vars
    OBVIOUS
  <1>0. /\ TypeOK /\ TypeOK' /\ LauncherWorks /\ ProcShape /\ InstallShape /\ RollbackShape
        /\ (current = None => previous = None)
        /\ UndoKept /\ InstallHistory /\ RollbackHistory
    BY TypeStep DEF HInv, IInv
  <1>1. /\ proc \in ProcStates /\ (proc.op = "idle") = (proc.pc = "idle")
        /\ proc.op \in {"idle", "install", "rollback"}
        /\ proc.lstate \in {"absent", "managed", "legacy"}
        /\ current \in Versions \cup {None} /\ proc.version \in Versions \cup {None}
        /\ Runs \in Versions \cup Others
    BY <1>0, RunsType DEF TypeOK, ProcStates
  <1>2. /\ None \notin Versions \cup Launchers /\ Legacy \notin Versions \cup Launchers
        /\ None # Legacy /\ {None, Legacy} \subseteq Others
        /\ \A v \in Versions : LauncherOf[v] \in Launchers /\ v \notin Others
        /\ \A l \in Others : l \notin Launchers
    BY NamesAssumption DEF Others, Launchers
  <1> USE <1>0, <1>1, <1>2, ProcSteps DEF Goes, Stops
  <1>3. ASSUME UNCHANGED <<launcher, undo, proc>>, current' = current
        PROVE  UNCHANGED Active!vars
    BY <1>3 DEF Active!vars, Runs, About
  <1>4. ASSUME UNCHANGED <<launcher, undo, current>>, NEW pc \in Changes, Goes(pc)
        PROVE  UNCHANGED Active!vars
    BY <1>4 DEF Active!vars, Runs, About
  <1>5. ASSUME proc.op # "idle", Runs = About, Runs' = Runs, Stops,
               undo' = IF Runs' = proc.began THEN undo
                       ELSE IF proc.clean THEN proc.began ELSE Unknown
        PROVE  Active!Finish
    BY <1>5 DEF Active!Finish, About
  <1>6. ASSUME proc.op # "idle", Runs' = Runs, Stops, undo' \in {undo, Unknown}
        PROVE  Active!Cut
    BY <1>6 DEF Active!Cut, About
  <1>7. CASE Install
    <2>1. /\ proc.op = "idle" /\ proc'.op = "install" /\ proc'.version = source
          /\ source \in Versions /\ proc'.began = Runs /\ UNCHANGED <<files, undo>>
      BY <1>7, InstallBegins DEF TypeOK
    <2>2. Active!Install
      BY <2>1 DEF Active!Install, Active!Begin, About, Runs, files
    <2>3. QED
      BY <2>2 DEF Active!Next
  <1>8. CASE RollbackUpdate
    <2>1. /\ proc.op = "idle" /\ proc'.op = "rollback" /\ proc'.version = previous
          /\ previous \in Versions /\ current # None
          /\ proc'.began = Runs /\ UNCHANGED <<files, undo>>
      BY <1>8, UpdateRollbackBegins DEF TypeOK
    <2>2. About' = previous /\ (undo # Unknown => undo = previous)
      BY <2>1 DEF About, UndoKept, Target
    <2>3. Active!Rollback
      BY <2>1, <2>2 DEF Active!Rollback, Active!Begin, Runs, files
    <2>4. QED
      BY <2>3 DEF Active!Next
  <1>9. CASE RollbackInstall
    <2>1. /\ proc.op = "idle" /\ proc'.op = "rollback" /\ proc'.version = None
          /\ proc'.text = IF legacyCopy THEN Legacy ELSE None
          /\ previous = None /\ current # None
          /\ proc'.began = Runs /\ UNCHANGED <<files, undo>>
      BY <1>9, InstallRollbackBegins
    <2>2. About' = proc'.text /\ (undo # Unknown => undo = proc'.text)
      BY <2>1 DEF About, UndoKept, Target
    <2>3. About' \in Others
      BY <2>1, <2>2
    <2>4. Active!Rollback
      BY <2>1, <2>2, <2>3 DEF Active!Rollback, Active!Begin, Runs, files
    <2>5. QED
      BY <2>4 DEF Active!Next
  <1>10. CASE MakeRoot \/ MakeReleases
    BY <1>10, <1>4 DEF MakeRoot, MakeReleases, Changes
  <1>11. CASE FindRelease
    BY <1>11, <1>4, AfterTypes DEF FindRelease, files, Changes
  <1>12. CASE StageRelease \/ MakeTemporary
    BY <1>12, <1>3 DEF StageRelease, MakeTemporary
  <1>13. CASE PublishRelease
    BY <1>13, <1>4, AfterTypes DEF PublishRelease, Changes
  <1>14. CASE WriteMarker
    BY <1>14, <1>4 DEF WriteMarker, Changes
  <1>15. CASE SaveLegacy
    BY <1>15, <1>4, AfterTypes DEF SaveLegacy, Changes
  <1>16. CASE LinkPrevious
    <2>1. CASE proc.op = "install"
      BY <1>16, <2>1, <1>4 DEF LinkPrevious, Changes
    <2>2. CASE proc.op # "install"
      <3>1. proc.op = "rollback" /\ proc.pc = "previous"
        BY <1>16, <2>2 DEF LinkPrevious, Rename
      <3>2. proc.version \in Versions /\ launcher \in Launchers /\ current = proc.version
        BY <3>1 DEF ProcShape, RollbackShape
      <3>3. Runs = About /\ Runs' = Runs
        BY <1>16, <3>2 DEF Runs, About, LinkPrevious
      <3>4. Stops /\ undo' = IF Runs' = proc.began THEN undo
                             ELSE IF proc.clean THEN proc.began ELSE Unknown
        BY <1>16, <2>2 DEF LinkPrevious, Ends
      <3>5. QED
        BY <1>5, <3>1, <3>3, <3>4 DEF Active!Next
    <2>3. QED
      BY <2>1, <2>2
  <1>17. CASE LinkCurrent
    <2>1. /\ proc.pc = "current" /\ proc.op # "idle" /\ UNCHANGED <<launcher, undo>>
          /\ current' = proc.version
          /\ proc'.op = proc.op /\ proc'.version = proc.version /\ proc'.text = proc.text
          /\ proc'.began = proc.began
      BY <1>17 DEF LinkCurrent, Rename
    <2>2. proc.version \in Versions
      BY <2>1 DEF ProcShape
    <2>3. CASE launcher \in Launchers
      <3>1. Runs = current /\ Runs' = proc.version
        BY <2>1, <2>3 DEF Runs
      <3>2. proc.began = current
        <4>1. CASE proc.op = "install"
          <5>1. proc.lstate = "managed" /\ current = proc.from
            BY <2>1, <2>3, <4>1 DEF InstallShape
          <5>2. QED
            BY <4>1, <5>1 DEF InstallHistory
        <4>2. CASE proc.op = "rollback"
          BY <2>1, <2>2, <4>2 DEF RollbackHistory, RollbackShape
        <4>3. QED
          BY <2>1, <4>1, <4>2
      <3>3. Active!Switch
        BY <2>1, <2>2, <3>1, <3>2 DEF Active!Switch, About
      <3>4. QED
        BY <3>3 DEF Active!Next
    <2>4. CASE launcher \notin Launchers
      BY <2>1, <2>4 DEF Runs, About, Active!vars
    <2>5. QED
      BY <2>3, <2>4
  <1>18. CASE WriteLauncher
    <2>1. /\ proc.pc = "launcher" /\ proc.op # "idle" /\ UNCHANGED <<current, undo>>
          /\ launcher' = proc.text
          /\ proc'.op = proc.op /\ proc'.version = proc.version /\ proc'.text = proc.text
          /\ proc'.began = proc.began
      BY <1>18 DEF WriteLauncher
    <2>2. Runs = proc.began /\ Runs' = About
      <3>1. CASE proc.op = "install"
        <4>1. /\ proc.version \in Versions /\ current = proc.version
              /\ launcher' \in Launchers /\ proc.lstate # "managed"
          BY <2>1, <3>1 DEF ProcShape, InstallShape
        <4>2. launcher \notin Launchers /\ proc.began = launcher
          BY <2>1, <3>1, <4>1 DEF InstallShape, InstallHistory
        <4>3. QED
          BY <2>1, <4>1, <4>2 DEF Runs, About
      <3>2. CASE proc.op = "rollback"
        <4>1. proc.version = None /\ proc.text \in {None, Legacy}
          BY <2>1, <3>2 DEF ProcShape
        <4>2. QED
          BY <2>1, <3>2, <4>1 DEF RollbackHistory, Runs, About
      <3>3. QED
        BY <2>1, <3>1, <3>2
    <2>3. Active!Switch
      BY <2>1, <2>2 DEF Active!Switch, About
    <2>4. QED
      BY <2>3 DEF Active!Next
  <1>19. CASE InstallReturns
    <2>1. proc.op = "install" /\ proc.pc = "check"
      BY <1>19 DEF InstallReturns, ProcShape
    <2>2. proc.version \in Versions /\ current = proc.version /\ launcher \in Launchers
      BY <2>1 DEF ProcShape, InstallShape
    <2>3. Runs = About /\ Runs' = Runs
      BY <1>19, <2>2 DEF Runs, About, InstallReturns, files
    <2>4. Stops /\ undo' = IF Runs' = proc.began THEN undo
                           ELSE IF proc.clean THEN proc.began ELSE Unknown
      BY <1>19 DEF InstallReturns, Ends
    <2>5. QED
      BY <1>5, <2>1, <2>3, <2>4 DEF Active!Next
  <1>20. CASE UnlinkCurrent
    <2>1. proc.op = "rollback" /\ proc.pc = "unlink"
      BY <1>20 DEF UnlinkCurrent, ProcShape
    <2>2. proc.version = None /\ launcher = proc.text /\ launcher \notin Launchers
      BY <2>1 DEF ProcShape, RollbackShape
    <2>3. Runs = About /\ Runs' = Runs
      BY <1>20, <2>1, <2>2 DEF Runs, About, UnlinkCurrent
    <2>4. Stops /\ undo' = IF Runs' = proc.began THEN undo
                           ELSE IF proc.clean THEN proc.began ELSE Unknown
      BY <1>20 DEF UnlinkCurrent, Ends
    <2>5. QED
      BY <1>5, <2>1, <2>3, <2>4 DEF Active!Next
  <1>21. CASE Fails \/ Killed
    <2>1. proc.op # "idle" /\ Stops /\ undo' \in {undo, Unknown} /\ Runs' = Runs
      BY <1>21 DEF Fails, Killed, CutShort, files, Runs
    <2>2. QED
      BY <1>6, <2>1 DEF Active!Next
  <1>22. CASE Update \/ CleanUp
    BY <1>22, <1>3 DEF Update, CleanUp, files
  <1>23. CASE Tamper
    <2>1. /\ proc.op = "idle" /\ UNCHANGED <<proc, current>> /\ launcher' \in Others
          /\ undo' = Unknown
      BY <1>23 DEF Tamper
    <2>2. Active!Tamper
      BY <2>1 DEF Active!Tamper, Runs, About
    <2>3. QED
      BY <2>2 DEF Active!Next
  <1>24. CASE UNCHANGED vars
    BY <1>24, <1>3 DEF vars, files
  <1>25. QED
    BY <1>7, <1>8, <1>9, <1>10, <1>11, <1>12, <1>13, <1>14, <1>15, <1>16, <1>17, <1>18, <1>19,
       <1>20, <1>21, <1>22, <1>23, <1>24 DEF Next

\* The installer keeps the promise of ActiveCli: what pcdog runs changes at one
\* instant, and a rollback leads back to what the last finished operation replaced.
THEOREM Implementation == Spec => ImplementsActiveCli
  BY HistoryInit, HistoryStep, AbstractInit, AbstractStep, PTL
     DEF Spec, ImplementsActiveCli, Active!Spec

=============================================================================
