--------------------------- MODULE OutputOwnership ---------------------------
(***************************************************************************)
(* Who may drive the two control outputs GPIO17 (POWER) and GPIO18 (RESET).*)
(*                                                                         *)
(* Two programs drive them through gpioset child processes:                *)
(*   - the hardware agent: one thread per IPC request, one bounded pulse   *)
(*     at a time (PulseController and GpioPulseExecutor);                  *)
(*   - the root-only pcdog-test commands, which leave gpioset processes    *)
(*     behind and find them again through pid files (DiagnosticControls).  *)
(* They are meant to exclude each other through one flock (OutputLock).    *)
(* A flock belongs to the open file, not to a process: it stays taken      *)
(* until the last inherited descriptor is closed, so the lock is modelled  *)
(* by the set of actors that hold a descriptor of the locked open file.    *)
(***************************************************************************)
EXTENDS Naturals, Sequences

CONSTANTS
  Threads,   \* request threads of the hardware agent
  Runs,      \* pcdog-test invocations that may be running at the same time
  Pids,      \* process ids of gpioset processes
  Scenarios, \* what may happen in one behaviour: see ScenarioTypes
  None       \* no thread, no process

\* slow_start: a gpioset may need longer for its line than the 50 ms a command waits.
FaultKinds == {"spawn_fail", "slow_start", "stall", "survive_kill", "agent_crash",
               "die", "pinctrl_fail", "write_fail", "cli_killed", "pid_reuse"}

\* POWER_CONTROL_GPIO and RESET_CONTROL_GPIO, in the order of DIAGNOSTIC_GPIOS.
DIAGNOSTIC_GPIOS == <<"gpio17", "gpio18">>
Lines == {"gpio17", "gpio18"}

OnCommands == {"power_on", "reset_on", "all_on"}
OffCommands == {"power_off", "reset_off", "all_off"}

\* The invocations that run, the commands they may be given and the failures that
\* may happen. A behaviour keeps the scenario it starts with.
ScenarioTypes ==
  [runs : SUBSET Runs, commands : SUBSET (OnCommands \cup OffCommands),
   faults : SUBSET FaultKinds]

ASSUME ConstantsAssumption ==
  /\ Threads \cap Runs = {}
  /\ Threads \cap Pids = {}
  /\ Runs \cap Pids = {}
  /\ None \notin Threads \cup Pids
  /\ Scenarios \subseteq ScenarioTypes

\* The lines a command is about.
Targets(command) ==
  CASE command \in {"power_on", "power_off"} -> <<"gpio17">>
    [] command \in {"reset_on", "reset_off"} -> <<"gpio18">>
    [] OTHER -> DIAGNOSTIC_GPIOS

VARIABLES
  scenario,     \* never changes
  lockHolders,  \* who has a descriptor of the locked file: the lock is free iff {}
  ctl,          \* owner of PulseController's in-process lock, or None
  agentUp,      \* the agent's process runs
  thread,       \* request threads of the agent
  run,          \* pcdog-test invocations
  proc,         \* gpioset processes by pid
  pidfile,      \* contents of gpio<n>.pid: a pid, or None when there is no readable one
  stateDir,     \* the directory of the pid files exists
  level         \* electrical level of the outputs

sysVars == <<lockHolders, ctl, agentUp, thread, run, proc, pidfile, stateDir, level>>
vars == <<scenario, sysVars>>

May(fault) == fault \in scenario.faults

-----------------------------------------------------------------------------
IdleThread == [pc |-> "idle", gpio |-> "gpio17", child |-> None]

\* started holds the lines this run activated, owners the (line, pid) pairs a
\* stop is working on, cur the process started last, todo the lines still to do.
IdleRun == [pc |-> "idle", cmd |-> "all_off", todo |-> <<>>, active |-> {},
            started |-> <<>>, owners |-> <<>>, cur |-> None, failed |-> FALSE]

\* A process that ended is NoProc; its exit code only words the answer.
NoProc == [owner |-> "none", gpio |-> "gpio17", st |-> "none", term |-> FALSE]

Init ==
  /\ scenario \in Scenarios
  /\ lockHolders = {}
  /\ ctl = None
  /\ agentUp = TRUE
  /\ thread = [t \in Threads |-> IdleThread]
  /\ run = [r \in Runs |-> IdleRun]
  /\ proc = [p \in Pids |-> NoProc]
  /\ pidfile = [g \in Lines |-> None]
  /\ stateDir = FALSE
  /\ level = [g \in Lines |-> "inactive"]

Alive(p) == proc[p].st # "none"
AliveDiag(p) == Alive(p) /\ proc[p].owner = "diag"
AliveAgent(p) == Alive(p) /\ proc[p].owner = "agent"

\* _is_diagnostic_owner: the pid names a live process with the diagnostic consumer.
IsOwner(p) == p # None /\ AliveDiag(p)

\* A pid the kernel may give to a new process: nobody has it and no parent still
\* has to reap it. Without pid_reuse it is not one a pid file or a stop names.
FreePid(p) ==
  /\ ~Alive(p)
  /\ \A t \in Threads : thread[t].child # p
  /\ \A r \in Runs : run[r].cur # p
  /\ \/ May("pid_reuse")
     \/ /\ \A g \in Lines : pidfile[g] # p
        /\ \A r \in Runs : \A i \in DOMAIN run[r].owners : run[r].owners[i].pid # p

\* SIGTERM to whatever process has the pid now, if any.
Signal(p) == proc' = IF Alive(p) THEN [proc EXCEPT ![p].term = TRUE] ELSE proc

Spawned(who, g) == [owner |-> who, gpio |-> g, st |-> "starting", term |-> FALSE]

-----------------------------------------------------------------------------
(* gpioset processes and the kernel (external to src/)                     *)

\* gpioset requests its line: it drives it active, or exits with an error when
\* another process has the line.
ProcRequest(p) ==
  /\ proc[p].st = "starting"
  /\ ~proc[p].term
  /\ IF \E q \in Pids : proc[q].st = "driving" /\ proc[q].gpio = proc[p].gpio
       THEN /\ proc' = [proc EXCEPT ![p] = NoProc]
            /\ lockHolders' = lockHolders \ {p}
            /\ UNCHANGED level
       ELSE /\ proc' = [proc EXCEPT ![p].st = "driving"]
            /\ level' = [level EXCEPT ![proc[p].gpio] = "active"]
            /\ UNCHANGED lockHolders
  /\ UNCHANGED <<ctl, agentUp, thread, run, pidfile, stateDir>>

\* gpioset --toggle <duration>,0 has driven the line inactive and exits with 0.
ProcToggle(p) ==
  /\ proc[p].st = "driving"
  /\ proc[p].owner = "agent"
  /\ ~proc[p].term
  /\ proc' = [proc EXCEPT ![p] = NoProc]
  /\ level' = [level EXCEPT ![proc[p].gpio] = "inactive"]
  /\ UNCHANGED <<lockHolders, ctl, agentUp, thread, run, pidfile, stateDir>>

\* The process ends otherwise: it was signalled, it died with the agent's
\* control group, or by itself. The line it drove keeps its level or falls back.
ProcEnd(p) ==
  /\ Alive(p)
  /\ \/ proc[p].term
     \/ ~agentUp /\ proc[p].owner = "agent"
     \/ May("die")
  /\ proc' = [proc EXCEPT ![p] = NoProc]
  /\ lockHolders' = lockHolders \ {p}
  /\ IF proc[p].st = "driving"
       THEN \E v \in {level[proc[p].gpio], "inactive"} :
              level' = [level EXCEPT ![proc[p].gpio] = v]
       ELSE UNCHANGED level
  /\ UNCHANGED <<ctl, agentUp, thread, run, pidfile, stateDir>>

-----------------------------------------------------------------------------
(* The hardware agent                                                      *)

\* Fault variant of A_Begin: the controller's lock is not looked at.
A_BeginUnchecked(t, g) ==
  /\ agentUp
  /\ thread[t].pc = "idle"
  /\ ctl' = t
  /\ thread' = [thread EXCEPT ![t] = [pc |-> "lock", gpio |-> g, child |-> None]]
  /\ UNCHANGED <<lockHolders, agentUp, run, proc, pidfile, stateDir, level>>

\* PulseController._pulse: take the in-process lock without waiting. A thread
\* that finds it taken answers OUTPUT_BUSY and changes nothing.
A_Begin(t, g) ==
  /\ agentUp
  /\ thread[t].pc = "idle"
  /\ ctl = None
  /\ ctl' = t
  /\ thread' = [thread EXCEPT ![t] = [pc |-> "lock", gpio |-> g, child |-> None]]
  /\ UNCHANGED <<lockHolders, agentUp, run, proc, pidfile, stateDir, level>>

\* Fault variant of EndPulse: no finally, the controller's lock stays taken.
EndPulseKeepsController(t) ==
  /\ thread' = [thread EXCEPT ![t] = IdleThread]
  /\ UNCHANGED ctl

\* The request ends, whatever its answer: _pulse's finally releases its lock.
EndPulse(t) ==
  /\ thread' = [thread EXCEPT ![t] = IdleThread]
  /\ ctl' = None

\* Fault variant of A_Lock: a shared lock, which others may hold too.
A_LockShared(t) ==
  /\ thread[t].pc = "lock"
  /\ lockHolders' = lockHolders \cup {t}
  /\ thread' = [thread EXCEPT ![t].pc = "spawn"]
  /\ UNCHANGED <<ctl, agentUp, run, proc, pidfile, stateDir, level>>

\* OutputLock.acquire by the thread; a busy lock is answered with OUTPUT_BUSY.
A_Lock(t) ==
  /\ thread[t].pc = "lock"
  /\ \/ /\ lockHolders = {}
        /\ lockHolders' = {t}
        /\ thread' = [thread EXCEPT ![t].pc = "spawn"]
        /\ UNCHANGED ctl
     \/ /\ lockHolders # {}
        /\ EndPulse(t)
        /\ UNCHANGED lockHolders
  /\ UNCHANGED <<agentUp, run, proc, pidfile, stateDir, level>>

\* Fault variant of A_Spawn: a popen that failed is waited for all the same.
A_SpawnUnchecked(t) ==
  /\ thread[t].pc = "spawn"
  /\ \E p \in Pids \cup {None} :
       /\ p # None => FreePid(p)
       /\ proc' = IF p = None THEN proc
                  ELSE [proc EXCEPT ![p] = Spawned("agent", thread[t].gpio)]
       /\ thread' = [thread EXCEPT ![t].pc = "wait", ![t].child = p]
  /\ UNCHANGED <<lockHolders, ctl, agentUp, run, pidfile, stateDir, level>>

\* popen: the child does not inherit the lock, its descriptor is O_CLOEXEC.
A_Spawn(t) ==
  /\ thread[t].pc = "spawn"
  /\ \/ \E p \in Pids :
          /\ FreePid(p)
          /\ proc' = [proc EXCEPT ![p] = Spawned("agent", thread[t].gpio)]
          /\ thread' = [thread EXCEPT ![t].pc = "wait", ![t].child = p]
          /\ UNCHANGED <<lockHolders, ctl>>
     \/ /\ May("spawn_fail")
        /\ lockHolders' = lockHolders \ {t}
        /\ EndPulse(t)
        /\ UNCHANGED proc
  /\ UNCHANGED <<agentUp, run, pidfile, stateDir, level>>

\* communicate returns: the with block releases the lock, the thread answers
\* PULSE_COMPLETED or PULSE_FAILED.
A_Reap(t) ==
  /\ thread[t].pc = "wait"
  /\ ~Alive(thread[t].child)
  /\ lockHolders' = lockHolders \ {t}
  /\ EndPulse(t)
  /\ UNCHANGED <<agentUp, run, proc, pidfile, stateDir, level>>

\* communicate times out. Leaving the with block releases the lock before the
\* handler of TimeoutExpired stops the child.
A_Timeout(t) ==
  /\ May("stall")
  /\ thread[t].pc = "wait"
  /\ Alive(thread[t].child)
  /\ lockHolders' = lockHolders \ {t}
  /\ thread' = [thread EXCEPT ![t].pc = "stop"]
  /\ UNCHANGED <<ctl, agentUp, run, proc, pidfile, stateDir, level>>

\* _stop_process: SIGTERM, then SIGKILL a second later; either ends the child.
A_Terminate(t) ==
  /\ thread[t].pc = "stop"
  /\ thread' = [thread EXCEPT ![t].pc = "stopping"]
  /\ Signal(thread[t].child)
  /\ UNCHANGED <<lockHolders, ctl, agentUp, run, pidfile, stateDir, level>>

\* The child is gone; or it outlives SIGKILL by more than a second, and the
\* TimeoutExpired of the last communicate leaves the thread.
A_Stopped(t) ==
  /\ thread[t].pc = "stopping"
  /\ ~Alive(thread[t].child) \/ May("survive_kill")
  /\ EndPulse(t)
  /\ UNCHANGED <<lockHolders, agentUp, run, proc, pidfile, stateDir, level>>

\* The agent's process ends: its descriptors are closed, its children live on
\* until systemd kills the unit's control group.
AgentCrash ==
  /\ May("agent_crash")
  /\ agentUp
  /\ agentUp' = FALSE
  /\ ctl' = None
  /\ thread' = [t \in Threads |-> IdleThread]
  /\ lockHolders' = lockHolders \ Threads
  /\ UNCHANGED <<run, proc, pidfile, stateDir, level>>

\* Restart=on-failure, once nothing of the old control group is left.
AgentRestart ==
  /\ ~agentUp
  /\ \A p \in Pids : ~AliveAgent(p)
  /\ agentUp' = TRUE
  /\ UNCHANGED <<lockHolders, ctl, thread, run, proc, pidfile, stateDir, level>>

-----------------------------------------------------------------------------
(* pcdog-test: the *-on commands (_set_active)                             *)

D_Start(r, c) ==
  /\ r \in scenario.runs
  /\ c \in scenario.commands
  /\ run[r].pc = "idle"
  /\ IF c \in OnCommands
       THEN /\ run' = [run EXCEPT ![r] = [IdleRun EXCEPT !.cmd = c, !.pc = "scan",
                                                         !.todo = DIAGNOSTIC_GPIOS]]
            /\ stateDir' = TRUE
       ELSE /\ run' = [run EXCEPT ![r] = [IdleRun EXCEPT !.cmd = c, !.pc = "read",
                                                         !.todo = Targets(c)]]
            /\ UNCHANGED stateDir
  /\ UNCHANGED <<lockHolders, ctl, agentUp, thread, proc, pidfile, level>>

\* _active_gpios reads one pid file.
D_Scan(r) ==
  /\ run[r].pc = "scan"
  /\ run[r].todo # <<>>
  /\ LET g == Head(run[r].todo) IN
       IF IsOwner(pidfile[g])
         THEN run' = [run EXCEPT ![r].active = @ \cup {g}, ![r].todo = Tail(@)]
         ELSE run' = [run EXCEPT ![r].pc = "scan_unlink"]
  /\ UNCHANGED <<lockHolders, ctl, agentUp, thread, proc, pidfile, stateDir, level>>

\* ... and unlinks it when it named no owner a moment ago.
D_ScanUnlink(r) ==
  /\ run[r].pc = "scan_unlink"
  /\ pidfile' = [pidfile EXCEPT ![Head(run[r].todo)] = None]
  /\ run' = [run EXCEPT ![r].pc = "scan", ![r].todo = Tail(@)]
  /\ UNCHANGED <<lockHolders, ctl, agentUp, thread, proc, stateDir, level>>

\* _set_active's except branch: stop what this call started, then fail.
Abort(r) ==
  run' = [run EXCEPT ![r].pc = "read", ![r].todo = run[r].started,
                     ![r].owners = <<>>, ![r].failed = TRUE, ![r].cur = None]

\* The lock is taken only when no line was found active.
D_Lock(r) ==
  LET begin == [run EXCEPT ![r].pc = "spawn", ![r].todo = Targets(run[r].cmd)] IN
  /\ run[r].pc = "scan"
  /\ run[r].todo = <<>>
  /\ \/ run[r].active # {} /\ run' = begin /\ UNCHANGED lockHolders
     \/ run[r].active = {} /\ lockHolders = {} /\ run' = begin /\ lockHolders' = {r}
     \/ run[r].active = {} /\ lockHolders # {} /\ Abort(r) /\ UNCHANGED lockHolders
  /\ UNCHANGED <<ctl, agentUp, thread, proc, pidfile, stateDir, level>>

\* A line found active is left alone.
D_Skip(r) ==
  /\ run[r].pc = "spawn"
  /\ run[r].todo # <<>>
  /\ Head(run[r].todo) \in run[r].active
  /\ run' = [run EXCEPT ![r].todo = Tail(@)]
  /\ UNCHANGED <<lockHolders, ctl, agentUp, thread, proc, pidfile, stateDir, level>>

\* Fault variant of D_Spawn: the lock's descriptor is not passed to gpioset.
D_SpawnCloexec(r) ==
  /\ run[r].pc = "spawn"
  /\ run[r].todo # <<>>
  /\ Head(run[r].todo) \notin run[r].active
  /\ \E p \in Pids :
       /\ FreePid(p)
       /\ proc' = [proc EXCEPT ![p] = Spawned("diag", Head(run[r].todo))]
       /\ run' = [run EXCEPT ![r].pc = "poll", ![r].cur = p]
  /\ UNCHANGED <<lockHolders, ctl, agentUp, thread, pidfile, stateDir, level>>

\* popen of one gpioset; pass_fds hands it the lock when this run holds it.
D_Spawn(r) ==
  /\ run[r].pc = "spawn"
  /\ run[r].todo # <<>>
  /\ Head(run[r].todo) \notin run[r].active
  /\ \/ \E p \in Pids :
          /\ FreePid(p)
          /\ proc' = [proc EXCEPT ![p] = Spawned("diag", Head(run[r].todo))]
          /\ lockHolders' = IF r \in lockHolders THEN lockHolders \cup {p} ELSE lockHolders
          /\ run' = [run EXCEPT ![r].pc = "poll", ![r].cur = p]
     \/ May("spawn_fail") /\ Abort(r) /\ UNCHANGED <<proc, lockHolders>>
  /\ UNCHANGED <<ctl, agentUp, thread, pidfile, stateDir, level>>

\* 50 ms later gpioset has its line or has exited; one that is still starting has not
\* exited, so it passes and is recorded like the first.
D_Poll(r) ==
  /\ run[r].pc = "poll"
  /\ proc[run[r].cur].st = "starting" => May("slow_start")
  /\ IF Alive(run[r].cur) THEN run' = [run EXCEPT ![r].pc = "record"] ELSE Abort(r)
  /\ UNCHANGED <<lockHolders, ctl, agentUp, thread, proc, pidfile, stateDir, level>>

\* The pid file is written; it may fail before, or (chmod) after the write.
D_Record(r) ==
  LET g == Head(run[r].todo) IN
  /\ run[r].pc = "record"
  /\ \/ /\ stateDir
        /\ pidfile' = [pidfile EXCEPT ![g] = run[r].cur]
        /\ run' = [run EXCEPT ![r].pc = "spawn", ![r].todo = Tail(@), ![r].cur = None,
                              ![r].started = Append(@, g)]
     \/ /\ ~stateDir \/ May("write_fail")
        /\ \E content \in {None} \cup (IF stateDir THEN {run[r].cur} ELSE {}) :
             pidfile' = [pidfile EXCEPT ![g] = content]
        /\ Abort(r)
  /\ UNCHANGED <<lockHolders, ctl, agentUp, thread, proc, stateDir, level>>

-----------------------------------------------------------------------------
(* pcdog-test: the *-off commands and the abort path (_stop_gpios)         *)

\* One pid file: unreadable is skipped, a live owner is noted for later.
D_Read(r) ==
  /\ run[r].pc = "read"
  /\ run[r].todo # <<>>
  /\ LET g == Head(run[r].todo)
         p == pidfile[g] IN
       run' = IF p = None
                THEN [run EXCEPT ![r].todo = Tail(@)]
              ELSE IF IsOwner(p)
                THEN [run EXCEPT ![r].todo = Tail(@),
                                 ![r].owners = Append(@, [gpio |-> g, pid |-> p])]
              ELSE [run EXCEPT ![r].pc = "read_unlink"]
  /\ UNCHANGED <<lockHolders, ctl, agentUp, thread, proc, pidfile, stateDir, level>>

D_ReadUnlink(r) ==
  /\ run[r].pc = "read_unlink"
  /\ pidfile' = [pidfile EXCEPT ![Head(run[r].todo)] = None]
  /\ run' = [run EXCEPT ![r].pc = "read", ![r].todo = Tail(@)]
  /\ UNCHANGED <<lockHolders, ctl, agentUp, thread, proc, stateDir, level>>

\* Fault variant of D_ReadDone: the owners are ended without setting LOW first.
D_ReadDoneNoLow(r) ==
  /\ run[r].pc = "read"
  /\ run[r].todo = <<>>
  /\ run' = [run EXCEPT ![r].pc = "low"]
  /\ UNCHANGED <<lockHolders, ctl, agentUp, thread, proc, pidfile, stateDir, level>>

\* All pid files are read: every owner's line is due for LOW.
D_ReadDone(r) ==
  /\ run[r].pc = "read"
  /\ run[r].todo = <<>>
  /\ run' = [run EXCEPT ![r].pc = "low",
               ![r].todo = [i \in 1..Len(run[r].owners) |-> run[r].owners[i].gpio]]
  /\ UNCHANGED <<lockHolders, ctl, agentUp, thread, proc, pidfile, stateDir, level>>

\* Fault variant of D_Low: the pid file of a line that failed is unlinked.
D_LowForgets(r) ==
  /\ run[r].pc = "low"
  /\ run[r].todo # <<>>
  /\ \/ /\ level' = [level EXCEPT ![Head(run[r].todo)] = "inactive"]
        /\ run' = [run EXCEPT ![r].todo = Tail(@)]
        /\ UNCHANGED pidfile
     \/ /\ May("pinctrl_fail")
        /\ pidfile' = [pidfile EXCEPT ![Head(run[r].todo)] = None]
        /\ run' = [run EXCEPT ![r].pc = "finish", ![r].failed = TRUE]
        /\ UNCHANGED level
  /\ UNCHANGED <<lockHolders, ctl, agentUp, thread, proc, stateDir>>

\* pinctrl set <gpio> op dl. Its failure, which after a timeout may have set the
\* line all the same, keeps every owner and its pid file.
D_Low(r) ==
  /\ run[r].pc = "low"
  /\ run[r].todo # <<>>
  /\ \/ /\ level' = [level EXCEPT ![Head(run[r].todo)] = "inactive"]
        /\ run' = [run EXCEPT ![r].todo = Tail(@)]
     \/ /\ May("pinctrl_fail")
        /\ level' \in {level, [level EXCEPT ![Head(run[r].todo)] = "inactive"]}
        /\ run' = [run EXCEPT ![r].pc = "finish", ![r].failed = TRUE]
  /\ UNCHANGED <<lockHolders, ctl, agentUp, thread, proc, pidfile, stateDir>>

\* Fault variant of D_Kill: the pid file goes, the process is not signalled.
D_KillNobody(r) ==
  /\ run[r].pc = "low"
  /\ run[r].todo = <<>>
  /\ run[r].owners # <<>>
  /\ run' = [run EXCEPT ![r].pc = "kill_unlink"]
  /\ UNCHANGED <<lockHolders, ctl, agentUp, thread, proc, pidfile, stateDir, level>>

\* os.kill(pid, SIGTERM); a pid without a process is ignored.
D_Kill(r) ==
  /\ run[r].pc = "low"
  /\ run[r].todo = <<>>
  /\ run[r].owners # <<>>
  /\ Signal(Head(run[r].owners).pid)
  /\ run' = [run EXCEPT ![r].pc = "kill_unlink"]
  /\ UNCHANGED <<lockHolders, ctl, agentUp, thread, pidfile, stateDir, level>>

\* Fault variant of D_KillUnlink: the loop ends after the first owner.
D_KillUnlinkFirst(r) ==
  /\ run[r].pc = "kill_unlink"
  /\ pidfile' = [pidfile EXCEPT ![Head(run[r].owners).gpio] = None]
  /\ run' = [run EXCEPT ![r].pc = "low", ![r].owners = <<>>]
  /\ UNCHANGED <<lockHolders, ctl, agentUp, thread, proc, stateDir, level>>

\* ... and unlinks its pid file, whatever that file names by now.
D_KillUnlink(r) ==
  /\ run[r].pc = "kill_unlink"
  /\ pidfile' = [pidfile EXCEPT ![Head(run[r].owners).gpio] = None]
  /\ run' = [run EXCEPT ![r].pc = "low", ![r].owners = Tail(@)]
  /\ UNCHANGED <<lockHolders, ctl, agentUp, thread, proc, stateDir, level>>

\* The command is done: every line is started, every owner is ended, or LOW failed.
AtEnd(r) ==
  \/ run[r].pc = "spawn" /\ run[r].todo = <<>>
  \/ run[r].pc = "low" /\ run[r].todo = <<>> /\ run[r].owners = <<>>
  \/ run[r].pc = "finish"

\* The invocation ends and closes its own descriptor of the lock file. A
\* successful all_off also removes the state directory when it is empty; a file
\* that a failed write left without a pid in it keeps it.
D_Finish(r) ==
  /\ AtEnd(r)
  /\ run' = [run EXCEPT ![r] = IdleRun]
  /\ lockHolders' = lockHolders \ {r}
  /\ \/ /\ run[r].cmd = "all_off"
        /\ ~run[r].failed
        /\ \A g \in Lines : pidfile[g] = None
        /\ stateDir' = FALSE
     \/ /\ \/ run[r].cmd # "all_off"
           \/ run[r].failed
           \/ May("write_fail")
           \/ \E g \in Lines : pidfile[g] # None
        /\ UNCHANGED stateDir
  /\ UNCHANGED <<ctl, agentUp, thread, proc, pidfile, level>>

\* SIGKILL of the invocation between any two of its steps.
D_Killed(r) ==
  /\ May("cli_killed")
  /\ run[r].pc # "idle"
  /\ run' = [run EXCEPT ![r] = IdleRun]
  /\ lockHolders' = lockHolders \ {r}
  /\ UNCHANGED <<ctl, agentUp, thread, proc, pidfile, stateDir, level>>

-----------------------------------------------------------------------------
AgentStep(t) ==
  \/ A_Lock(t) \/ A_Spawn(t) \/ A_Reap(t) \/ A_Timeout(t) \/ A_Terminate(t) \/ A_Stopped(t)

OnStep(r) ==
  \/ D_Scan(r) \/ D_ScanUnlink(r) \/ D_Lock(r) \/ D_Skip(r) \/ D_Spawn(r) \/ D_Poll(r)
  \/ D_Record(r)

StopStep(r) ==
  \/ D_Read(r) \/ D_ReadUnlink(r) \/ D_ReadDone(r) \/ D_Low(r) \/ D_Kill(r) \/ D_KillUnlink(r)
  \/ D_Finish(r)

RunStep(r) == OnStep(r) \/ StopStep(r)

Next ==
  /\ \/ \E p \in Pids : ProcRequest(p) \/ ProcToggle(p) \/ ProcEnd(p)
     \/ \E t \in Threads : AgentStep(t) \/ \E g \in Lines : A_Begin(t, g)
     \/ AgentCrash \/ AgentRestart
     \/ \E r \in Runs :
          RunStep(r) \/ D_Killed(r) \/ \E c \in OnCommands \cup OffCommands : D_Start(r, c)
  /\ UNCHANGED scenario

Spec == Init /\ [][Next]_vars

\* The operating system schedules every thread and process that can go on, and
\* a signalled process ends. Nobody has to send a request or give a command, and
\* a gpioset that stalls need not finish its toggle.
Fairness ==
  /\ \A t \in Threads : WF_sysVars(AgentStep(t))
  /\ \A r \in Runs : WF_sysVars(RunStep(r))
  /\ \A p \in Pids :
       /\ WF_sysVars(ProcRequest(p))
       /\ WF_sysVars(proc[p].term /\ ProcEnd(p))
       /\ WF_sysVars(~May("stall") /\ ProcToggle(p))

FairSpec == Spec /\ Fairness
-----------------------------------------------------------------------------
(* Properties                                                              *)

ThreadStates ==
  [pc : {"idle", "lock", "spawn"}, gpio : Lines, child : {None}]
    \cup [pc : {"wait", "stop", "stopping"}, gpio : Lines, child : Pids]

\* What a stop notes of an owner it will end.
Owners == [gpio : Lines, pid : Pids]

RunStates ==
  [pc : {"idle", "scan", "scan_unlink", "spawn", "poll", "record", "read", "read_unlink",
         "low", "kill_unlink", "finish"},
   cmd : OnCommands \cup OffCommands, todo : Seq(Lines), active : SUBSET Lines,
   started : Seq(Lines), owners : Seq(Owners),
   cur : Pids \cup {None}, failed : BOOLEAN]

ProcStates ==
  [owner : {"none", "agent", "diag"}, gpio : Lines,
   st : {"none", "starting", "driving"}, term : BOOLEAN]

\* A run in the middle of a line still has that line at the head of its list, and
\* has a process of its own exactly between popen and the pid file.
RunShape(s) ==
  /\ s.pc \in {"scan_unlink", "poll", "record", "read_unlink"} => s.todo # <<>>
  /\ s.pc = "kill_unlink" => s.owners # <<>>
  /\ s.pc \in {"poll", "record"} <=> s.cur # None

\* Every variable has its type, and the loop positions of runs are consistent.
TypeOK ==
  /\ scenario \in Scenarios
  /\ lockHolders \subseteq Threads \cup Runs \cup Pids
  /\ ctl \in Threads \cup {None}
  /\ agentUp \in BOOLEAN
  /\ thread \in [Threads -> ThreadStates]
  /\ run \in [Runs -> RunStates]
  /\ \A r \in Runs : RunShape(run[r])
  /\ proc \in [Pids -> ProcStates]
  /\ pidfile \in [Lines -> Pids \cup {None}]
  /\ stateDir \in BOOLEAN
  /\ level \in [Lines -> {"active", "inactive"}]

\* POWER and RESET pulses exclude each other down to the processes: never two
\* live gpioset children of the agent, although a timed-out pulse gives up the
\* flock before its child is stopped (PulseController). SIGKILL ending a child
\* within the second _stop_process waits is what this rests on.
SinglePulse ==
  May("survive_kill") \/ \A p, q \in Pids : AliveAgent(p) /\ AliveAgent(q) => p = q

\* The two programs never own outputs at the same time.
ExclusiveOwnership ==
  \A p, q \in Pids : ~(AliveAgent(p) /\ AliveDiag(q))

\* ... which holds when all-on and all-off alone are given, one at a time, and no
\* failure but that of popen or a slow start: every diagnostic gpioset then has the
\* lock.
ExclusiveWithAllCommands ==
  /\ \A r, s \in scenario.runs : r = s
  /\ scenario.commands \subseteq {"all_on", "all_off"}
  /\ scenario.faults \subseteq {"spawn_fail", "slow_start", "pid_reuse"}
  => ExclusiveOwnership

\* The agent never starts a gpioset while a diagnostic gpioset that inherited
\* the lock is alive, whether or not the run that started it has ended.
NoPulseUnderInheritedLock ==
  [][\A p \in Pids : AliveAgent(p)' /\ ~AliveAgent(p) => lockHolders \subseteq Threads]_vars

\* A diagnostic gpioset that was driving its line and is ended by a command
\* leaves that line LOW: no stop releases a line at its active level. Only a process
\* that died by itself, one that got a dead owner's pid, or one whose slow start ended
\* after its line was set LOW, may.
OffReleasesAtLow ==
  [][\A p \in Pids :
       /\ ~May("die") /\ ~May("pid_reuse") /\ ~May("slow_start")
       /\ AliveDiag(p) /\ proc[p].st = "driving" /\ ~Alive(p)'
       => level'[proc[p].gpio] = "inactive"]_vars

\* Once no command is running, every diagnostic gpioset that nobody signalled is
\* the one its pid file names: some *-off still ends it.
FindableOwners ==
  (\A r \in Runs : run[r].pc = "idle") =>
    \A p \in Pids : AliveDiag(p) /\ ~proc[p].term => pidfile[proc[p].gpio] = p

\* Commands are given one at a time and are not killed, their pid files can be
\* written, and a gpioset ends only when it is told to.
OrderlyCommands ==
  /\ \A r, s \in scenario.runs : r = s
  /\ scenario.faults \cap {"cli_killed", "write_fail", "die"} = {}

\* ... then no gpioset is ever lost, whatever else fails.
OrderlyOwnersFindable == OrderlyCommands => FindableOwners

\* A successful *-off has signalled every diagnostic gpioset of its lines and left those
\* lines LOW; one whose slow start ended in between is signalled, but drives its line.
OffLeavesNothing ==
  OrderlyCommands =>
    \A r \in Runs :
      AtEnd(r) /\ run[r].cmd \in OffCommands /\ ~run[r].failed =>
        \A p \in Pids :
          /\ AliveDiag(p)
          /\ \E i \in DOMAIN Targets(run[r].cmd) : Targets(run[r].cmd)[i] = proc[p].gpio
          => proc[p].term /\ (May("slow_start") \/ level[proc[p].gpio] = "inactive")

\* Every pulse that was begun gives the controller back, whatever happens to its
\* gpioset: the agent does not answer OUTPUT_BUSY for ever.
PulseEnds ==
  \A t \in Threads : ctl = t ~> ctl # t

\* After a successful all_off every descriptor its gpiosets inherited is closed
\* in the end, so the agent can pulse again.
OffFreesLock ==
  \A r \in Runs :
    (AtEnd(r) /\ run[r].cmd = "all_off" /\ ~run[r].failed) ~> lockHolders \cap Pids = {}
=============================================================================
