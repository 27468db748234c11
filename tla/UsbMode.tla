------------------------------ MODULE UsbMode ------------------------------
(***************************************************************************)
(* Switching the USB gadget between its two host modes: pcdog-usb-mode.sh  *)
(* writes the mode file and has systemd restart the gadget service, whose  *)
(* start builds the gadget of the mode in the file (pcdog-usb-gadget.sh)   *)
(* and whose stop removes it; if the restart fails, the switch writes the  *)
(* previous mode back and restarts the service once more.                  *)
(***************************************************************************)
CONSTANTS
  Scenarios  \* sets of faults: which may happen together in one behaviour

Modes == {"windows", "mac"}

\* early, build: the start fails before, after it has made the gadget's directory;
\* late_bind: its time is over while it binds the gadget; overlap: the switch meets a
\* start that still runs, and ends it; stuck: a cleanup leaves something behind; no_udc: there may
\* be no USB controller; dhcp: the DHCP server fails; write: the mode file cannot be
\* written; kill: the switch is killed.
FaultKinds ==
  {"early", "build", "late_bind", "overlap", "stuck", "no_udc", "dhcp", "write", "kill"}

ASSUME ScenariosAssumption == Scenarios \subseteq SUBSET FaultKinds

VARIABLES
  faults,    \* never changes
  udc,       \* the kernel has a USB device controller
  modeFile,  \* the mode in usb-mode.conf, or "absent"
  gadget,    \* what of the gadget is in ConfigFS: its directory, functions, the binding
  unit,      \* the gadget service
  job,       \* what systemd is doing for that service
  building,  \* the mode its start has read
  reply,     \* how the last restart ended
  dhcp,      \* the DHCP service
  sw,        \* the switch: its next step, the mode to switch to, the previous one
  late,      \* history: the gadget was bound by a start that was ended meanwhile
  cut        \* history: a switch was killed between its write and its restart, and no
             \* start has read the file since

service == <<gadget, unit, job, building, reply, dhcp, late>>
vars == <<faults, udc, modeFile, service, sw, cut>>

May(fault) == fault \in faults

\* configured_mode of both scripts: without a file it is the default.
Configured == IF modeFile = "absent" THEN "windows" ELSE modeFile

Idle == [pc |-> "idle", to |-> "windows", previous |-> "windows"]

Init ==
  /\ faults \in Scenarios
  /\ udc \in BOOLEAN /\ (udc \/ May("no_udc"))
  /\ modeFile \in Modes \cup {"absent"}
  /\ gadget = {} /\ unit = "inactive" /\ job = "start" /\ building = "windows"
  /\ reply = "none" /\ dhcp = "queued"
  /\ sw = Idle
  /\ late = FALSE /\ cut = FALSE

-----------------------------------------------------------------------------
(* The gadget service (pcdog-usb-gadget.service and its script)            *)

\* The job is over; a DHCP server that waits for it is not started if it failed.
JobEnds(state, result) ==
  /\ unit' = state /\ job' = "none" /\ reply' = result
  /\ dhcp' = IF result = "failed" /\ dhcp = "queued" THEN "off" ELSE dhcp

\* Fault: the binding stays with the leftovers.
CleanupBound ==
  /\ job = "stop"
  /\ \/ gadget' = {}
     \/ May("stuck") /\ gadget' = gadget
  /\ unit' = "inactive" /\ job' = "start" /\ late' = FALSE
  /\ UNCHANGED <<udc, modeFile, building, reply, dhcp, sw, cut>>

\* ExecStop: cleanup removes the gadget; its rmdirs may fail silently, but the
\* gadget is no longer bound then.
Cleanup ==
  /\ job = "stop"
  /\ \/ gadget' = {}
     \/ May("stuck") /\ gadget' = gadget \ {"bound"}
  /\ unit' = "inactive" /\ job' = "start" /\ late' = FALSE
  /\ UNCHANGED <<udc, modeFile, building, reply, dhcp, sw, cut>>

\* Without a controller the unit's condition fails: the job succeeds all the same.
ConditionFails ==
  /\ job = "start" /\ ~udc
  /\ JobEnds("inactive", "done")
  /\ UNCHANGED <<udc, modeFile, gadget, building, sw, late, cut>>

\* ExecStart: a gadget that is bound is taken for ready,
AlreadyBound ==
  /\ job = "start" /\ udc /\ "bound" \in gadget
  /\ JobEnds("active", "done")
  /\ UNCHANGED <<udc, modeFile, gadget, building, sw, late, cut>>

\* ... one that is there but not bound is refused,
RefuseGadget ==
  /\ job = "start" /\ udc /\ "bound" \notin gadget /\ gadget # {}
  /\ JobEnds("failed", "failed")
  /\ UNCHANGED <<udc, modeFile, gadget, building, sw, late, cut>>

\* Fault: the start goes on with the mode it read last time.
MakeGadgetStale ==
  /\ job = "start" /\ udc /\ gadget = {}
  /\ gadget' = {"dir"} /\ job' = "function" /\ cut' = FALSE
  /\ UNCHANGED <<udc, modeFile, unit, building, reply, dhcp, sw, late>>

\* Fault: the start makes no function.
MakeGadgetEmpty ==
  /\ job = "start" /\ udc /\ gadget = {}
  /\ building' = Configured /\ gadget' = {"dir"} /\ job' = "bind"
  /\ cut' = FALSE
  /\ UNCHANGED <<udc, modeFile, unit, reply, dhcp, sw, late>>

\* Fault: the start builds over what is there.
MakeGadgetOver ==
  /\ job = "start" /\ udc /\ "bound" \notin gadget
  /\ building' = Configured /\ gadget' = gadget \cup {"dir"} /\ job' = "function"
  /\ cut' = FALSE
  /\ UNCHANGED <<udc, modeFile, unit, reply, dhcp, sw, late>>

\* ... and otherwise the start reads the mode and makes the directory,
MakeGadget ==
  /\ job = "start" /\ udc /\ gadget = {}
  /\ building' = Configured /\ gadget' = {"dir"} /\ job' = "function"
  /\ cut' = FALSE
  /\ UNCHANGED <<udc, modeFile, unit, reply, dhcp, sw, late>>

\* ... the function of the mode with its links,
MakeFunction ==
  /\ job = "function"
  /\ gadget' = gadget \cup {building} /\ job' = "bind"
  /\ UNCHANGED <<udc, modeFile, unit, building, reply, dhcp, sw, late, cut>>

\* ... and binds the gadget to the controller.
Bind ==
  /\ job = "bind"
  /\ gadget' = gadget \cup {"bound"}
  /\ JobEnds("active", "done")
  /\ UNCHANGED <<udc, modeFile, building, sw, late, cut>>

\* A command of the start fails (set -e); what has been built stays, since systemd
\* runs no ExecStop after a failed start.
BuildFails ==
  /\ \/ job = "start" /\ udc /\ May("early")
     \/ job \in {"function", "bind"} /\ May("build")
  /\ JobEnds("failed", "failed")
  /\ UNCHANGED <<udc, modeFile, gadget, building, sw, late, cut>>

\* TimeoutStartSec passes while the last command binds: it is killed, and it is bound.
BindTimesOut ==
  /\ job = "bind" /\ May("late_bind")
  /\ gadget' = gadget \cup {"bound"}
  /\ JobEnds("failed", "failed") /\ late' = TRUE
  /\ UNCHANGED <<udc, modeFile, building, sw, cut>>

\* The DHCP server is started after the gadget, and needs its interface.
StartDhcp ==
  /\ dhcp = "queued" /\ job = "none"
  /\ \/ unit = "active" /\ dhcp' = "active"
     \/ (unit # "active" \/ May("dhcp")) /\ dhcp' = "off"
  /\ UNCHANGED <<udc, modeFile, gadget, unit, job, building, reply, sw, late, cut>>

-----------------------------------------------------------------------------
(* The switch (set_mode)                                                   *)

ActiveFunction ==
  IF "windows" \in gadget THEN "windows" ELSE IF "mac" \in gadget THEN "mac" ELSE "none"

\* It is called: nothing is done if the mode is configured, built and bound.
Call(mode) ==
  /\ sw.pc = "idle"
  /\ ~(Configured = mode /\ ActiveFunction = mode /\ "bound" \in gadget)
  /\ sw' = [pc |-> "write", to |-> mode, previous |-> Configured]
  /\ UNCHANGED <<udc, modeFile, service, cut>>

\* write_mode; the file is renamed into place, so it is never half written.
WriteMode ==
  /\ sw.pc = "write"
  /\ modeFile' = sw.to /\ sw' = [sw EXCEPT !.pc = "restart"]
  /\ UNCHANGED <<udc, service, cut>>

\* write_mode of the previous mode, after a restart that failed.
RestoreMode ==
  /\ sw.pc = "restore"
  /\ modeFile' = sw.previous /\ sw' = [sw EXCEPT !.pc = "restart again"]
  /\ UNCHANGED <<udc, service, cut>>

\* Both exit the switch when they fail (set -e).
WriteFails ==
  /\ sw.pc \in {"write", "restore"} /\ May("write")
  /\ sw' = [sw EXCEPT !.pc = "failed"]
  /\ UNCHANGED <<udc, modeFile, service, cut>>

\* systemctl restart: a unit that is not active is only started, and a running DHCP
\* server is restarted with it (PartOf).  A start that still runs (the boot, or an
\* earlier switch) is killed first; if it was at its last command, the binding may be
\* completed all the same.
Restart ==
  /\ sw.pc \in {"restart", "restart again"}
  /\ job = "none" \/ May("overlap")
  /\ job' = IF unit = "active" THEN "stop" ELSE "start"
  /\ dhcp' = IF dhcp = "active" THEN "queued" ELSE dhcp
  /\ reply' = "none"
  /\ \/ UNCHANGED <<gadget, late>>
     \/ job = "bind" /\ gadget' = gadget \cup {"bound"} /\ late' = TRUE
  /\ sw' = [sw EXCEPT !.pc = IF sw.pc = "restart" THEN "wait" ELSE "wait again"]
  /\ UNCHANGED <<udc, modeFile, unit, building, cut>>

\* The switch restores the previous mode if the restart failed,
Restarted ==
  /\ sw.pc = "wait" /\ reply # "none"
  /\ sw' = [sw EXCEPT !.pc = IF reply = "failed" THEN "restore" ELSE "check gadget"]
  /\ UNCHANGED <<udc, modeFile, service, cut>>

\* ... and then ends whatever the second restart has done (|| true).
RestartedAgain ==
  /\ sw.pc = "wait again" /\ reply # "none"
  /\ sw' = [sw EXCEPT !.pc = "restored"]
  /\ UNCHANGED <<udc, modeFile, service, cut>>

\* systemctl is-active for both services.
CheckGadget ==
  /\ sw.pc = "check gadget"
  /\ sw' = [sw EXCEPT !.pc = IF unit = "active" THEN "check dhcp" ELSE "failed"]
  /\ UNCHANGED <<udc, modeFile, service, cut>>

CheckDhcp ==
  /\ sw.pc = "check dhcp"
  /\ sw' = [sw EXCEPT !.pc = IF dhcp = "active" THEN "switched" ELSE "failed"]
  /\ UNCHANGED <<udc, modeFile, service, cut>>

Ended == {"switched", "restored", "failed"}

\* The operator has read the result.
Return ==
  /\ sw.pc \in Ended
  /\ sw' = Idle
  /\ UNCHANGED <<udc, modeFile, service, cut>>

Killed ==
  /\ sw.pc \notin Ended \cup {"idle"} /\ May("kill")
  /\ sw' = Idle
  /\ cut' = (cut \/ sw.pc \in {"restart", "restart again"})
  /\ UNCHANGED <<udc, modeFile, service>>

-----------------------------------------------------------------------------
(* Others (external to src/)                                               *)

\* The DHCP server ends.
DhcpEnds ==
  /\ dhcp = "active" /\ May("dhcp")
  /\ dhcp' \in {"queued", "off"}
  /\ UNCHANGED <<udc, modeFile, gadget, unit, job, building, reply, sw, late, cut>>

\* The operator removes an incomplete gadget by hand (pcdog-usb-gadget --cleanup),
\* as the refusal of the start asks.
CleanupByHand ==
  /\ sw.pc = "idle" /\ job = "none" /\ unit # "active" /\ gadget # {}
  /\ gadget' = {} /\ late' = FALSE
  /\ UNCHANGED <<udc, modeFile, unit, job, building, reply, dhcp, sw, cut>>

\* ConfigFS does not survive a reboot; both services are started at boot.
Reboot ==
  /\ sw.pc = "idle" \/ May("kill")
  /\ udc' \in BOOLEAN /\ (udc' \/ May("no_udc"))
  /\ gadget' = {} /\ unit' = "inactive" /\ job' = "start" /\ reply' = "none"
  /\ dhcp' = "queued" /\ sw' = Idle /\ late' = FALSE
  /\ UNCHANGED <<modeFile, building, cut>>

Next ==
  /\ UNCHANGED faults
  /\ \/ Cleanup \/ ConditionFails \/ AlreadyBound \/ RefuseGadget
     \/ MakeGadget \/ MakeFunction \/ Bind \/ BuildFails \/ BindTimesOut
     \/ StartDhcp
     \/ \E mode \in Modes : Call(mode)
     \/ WriteMode \/ RestoreMode \/ WriteFails \/ Restart \/ Restarted \/ RestartedAgain
     \/ CheckGadget \/ CheckDhcp \/ Return \/ Killed
     \/ DhcpEnds \/ CleanupByHand \/ Reboot

Spec == Init /\ [][Next]_vars

-----------------------------------------------------------------------------
(* Properties                                                              *)

\* Every variable keeps its type; a gadget that is bound has a function, and is
\* never under construction.
TypeOK ==
  /\ faults \in Scenarios /\ udc \in BOOLEAN
  /\ modeFile \in Modes \cup {"absent"} /\ building \in Modes
  /\ gadget \subseteq {"dir", "bound"} \cup Modes
  /\ unit \in {"inactive", "active", "failed"}
  /\ job \in {"none", "stop", "start", "function", "bind"}
  /\ reply \in {"none", "done", "failed"}
  /\ dhcp \in {"off", "queued", "active"}
  /\ sw \in [pc: {"idle", "write", "restart", "wait", "restore", "restart again", "wait again",
                  "check gadget", "check dhcp"} \cup Ended,
             to: Modes, previous: Modes]
  /\ late \in BOOLEAN /\ cut \in BOOLEAN
  /\ "bound" \in gadget => ActiveFunction # "none" /\ job \notin {"function", "bind"}

\* The gadget of one mode, and nothing of the other.
Complete(mode) == gadget = {"dir", mode, "bound"}

\* However starts and stops fail, functions of both modes are never in one gadget
\* (pcdog-usb-gadget.sh: "exactly one selected USB Ethernet gadget").
OneFunction == ~(Modes \subseteq gadget)

\* A switch that reports success, or finds nothing to do, leaves its host mode
\* running, and has it in the file for the next boot.  The report excepts a gadget
\* that an ended start has bound (late): the next start takes it for its own, whatever
\* its mode, and nothing in the code tells the two apart.
SuccessIsTrue ==
  /\ sw.pc = "switched" /\ ~late => modeFile = sw.to /\ unit = "active" /\ Complete(sw.to)
  /\ Configured = ActiveFunction /\ "bound" \in gadget => Complete(Configured)

\* Between switches, whatever failed, a service that is active runs the mode of the
\* file: a reboot would not change the host's side of the cable.  Two things are
\* excepted, and each only until the next start that builds a gadget: the binding of
\* an ended start (late) and the write of a switch that was killed before its restart
\* (cut).
FileIsWhatRuns ==
  /\ sw.pc \in {"idle"} \cup Ended /\ unit = "active" /\ job = "none"
  /\ ~late /\ ~cut
  =>
    Complete(Configured)

\* When the switch says that it restored the previous mode, that mode runs.
RestoredIsActive == sw.pc = "restored" => unit = "active" /\ Complete(sw.previous)
=============================================================================
