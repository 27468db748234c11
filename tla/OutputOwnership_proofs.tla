----------------------- MODULE OutputOwnership_proofs -----------------------
(***************************************************************************)
(* Proofs about OutputOwnership, for any threads, runs, pids and scenarios:*)
(* its types, the exclusive use of the lock by a pulse, that the agent     *)
(* never has two gpioset children, and that both locks come back when      *)
(* nobody is left who uses them.                                           *)
(***************************************************************************)
EXTENDS OutputOwnership, SequenceTheorems, TLAPS

LEMMA TargetsType ==
  /\ DIAGNOSTIC_GPIOS \in Seq(Lines)
  /\ \A c : Targets(c) \in Seq(Lines) /\ Targets(c) # <<>>
  <1>1. /\ <<"gpio17">> \in Seq(Lines) /\ <<"gpio17">> # <<>>
        /\ <<"gpio18">> \in Seq(Lines) /\ <<"gpio18">> # <<>>
        /\ DIAGNOSTIC_GPIOS \in Seq(Lines) /\ DIAGNOSTIC_GPIOS # <<>>
    BY DEF Lines, DIAGNOSTIC_GPIOS
  <1>2. QED
    BY <1>1 DEF Targets

LEMMA EmptySeqs == <<>> \in Seq(Lines) /\ <<>> \in Seq(Owners)
  OBVIOUS

LEMMA IdleRunType == IdleRun \in RunStates /\ RunShape(IdleRun)
  <1>1. IdleRun \in RunStates
    BY EmptySeqs DEF IdleRun, RunStates, OffCommands
  <1>2. RunShape(IdleRun)
    BY DEF IdleRun, RunShape
  <1>3. QED
    BY <1>1, <1>2

LEMMA ProcTypes ==
  /\ NoProc \in ProcStates
  /\ \A g \in Lines : Spawned("agent", g) \in ProcStates /\ Spawned("diag", g) \in ProcStates
  /\ \A s \in ProcStates : s.gpio \in Lines
  /\ \A s \in ProcStates : [s EXCEPT !.st = "driving"] \in ProcStates
  /\ \A s \in ProcStates : [s EXCEPT !.term = TRUE] \in ProcStates
  BY DEF NoProc, ProcStates, Spawned, Lines

LEMMA SignalType ==
  ASSUME TypeOK, NEW p \in Pids, Signal(p)
  PROVE  proc' \in [Pids -> ProcStates]
  BY ProcTypes DEF TypeOK, Signal

LEMMA ProcTypeOK ==
  ASSUME TypeOK, UNCHANGED scenario, NEW p \in Pids, ProcRequest(p) \/ ProcToggle(p) \/ ProcEnd(p)
  PROVE  TypeOK'
  <1>1. CASE ProcRequest(p)
    <2>1. proc' \in [Pids -> ProcStates]
      BY <1>1, ProcTypes DEF TypeOK, ProcRequest
    <2>2. /\ lockHolders' \subseteq lockHolders
          /\ level' \in [Lines -> {"active", "inactive"}]
      BY <1>1 DEF TypeOK, ProcRequest
    <2>3. QED
      BY <1>1, <2>1, <2>2 DEF TypeOK, ProcRequest
  <1>2. CASE ProcToggle(p)
    BY <1>2, ProcTypes DEF TypeOK, ProcToggle
  <1>3. CASE ProcEnd(p)
    <2>1. level' \in [Lines -> {"active", "inactive"}]
      BY <1>3, ProcTypes DEF TypeOK, ProcEnd
    <2>2. QED
      BY <1>3, <2>1, ProcTypes DEF TypeOK, ProcEnd
  <1>4. QED
    BY <1>1, <1>2, <1>3

LEMMA AgentTypeOK ==
  ASSUME TypeOK, UNCHANGED scenario, NEW t \in Threads,
         AgentStep(t) \/ \E g \in Lines : A_Begin(t, g)
  PROVE  TypeOK'
  <1> USE DEF TypeOK, RunShape, ThreadStates, IdleThread, EndPulse
  <1>1. ASSUME NEW g \in Lines, A_Begin(t, g)  PROVE TypeOK'
    BY <1>1 DEF A_Begin
  <1>2. CASE A_Lock(t)
    BY <1>2 DEF A_Lock, Lines
  <1>3. CASE A_Spawn(t)
    <2>1. /\ proc' \in [Pids -> ProcStates]
          /\ lockHolders' \subseteq lockHolders
          /\ ctl' \in Threads \cup {None}
      BY SMTT(30), <1>3, ProcTypes DEF A_Spawn
    <2>2. thread' \in [Threads -> ThreadStates]
      <3>1. thread[t] \in ThreadStates
        OBVIOUS
      <3>2. \A p \in Pids : [thread[t] EXCEPT !.pc = "wait", !.child = p] \in ThreadStates
        BY <3>1
      <3>3. IdleThread \in ThreadStates
        BY DEF Lines
      <3>4. \/ \E p \in Pids : thread' = [thread EXCEPT ![t].pc = "wait", ![t].child = p]
            \/ thread' = [thread EXCEPT ![t] = IdleThread]
        BY <1>3 DEF A_Spawn
      <3> HIDE DEF ThreadStates, IdleThread
      <3>5. QED
        BY <3>2, <3>3, <3>4
    <2>3. QED
      BY <1>3, <2>1, <2>2 DEF A_Spawn
  <1>4. CASE A_Reap(t)
    BY <1>4 DEF A_Reap, Lines
  <1>5. CASE A_Timeout(t)
    BY <1>5 DEF A_Timeout
  <1>6. CASE A_Terminate(t)
    <2>1. thread[t].child \in Pids
      BY <1>6 DEF A_Terminate
    <2>2. proc' \in [Pids -> ProcStates]
      BY <1>6, <2>1, SignalType DEF A_Terminate
    <2>3. thread' \in [Threads -> ThreadStates]
      BY <1>6 DEF A_Terminate
    <2>4. QED
      BY <1>6, <2>2, <2>3 DEF A_Terminate
  <1>7. CASE A_Stopped(t)
    BY <1>7 DEF A_Stopped, Lines
  <1>8. QED
    BY <1>1, <1>2, <1>3, <1>4, <1>5, <1>6, <1>7 DEF AgentStep

LEMMA SystemTypeOK ==
  ASSUME TypeOK, UNCHANGED scenario, AgentCrash \/ AgentRestart
  PROVE  TypeOK'
  <1>1. CASE AgentCrash
    <2>1. IdleThread \in ThreadStates
      BY DEF IdleThread, ThreadStates, Lines
    <2>2. QED
      BY <1>1, <2>1 DEF TypeOK, AgentCrash
  <1>2. CASE AgentRestart
    BY <1>2 DEF TypeOK, AgentRestart
  <1>3. QED
    BY <1>1, <1>2

\* A step of a run changes its record alone: it is enough to type the new record.
LEMMA RunUpdate ==
  ASSUME TypeOK, NEW r \in Runs, NEW x \in RunStates, RunShape(x),
         run' = [run EXCEPT ![r] = x]
  PROVE  run' \in [Runs -> RunStates] /\ \A q \in Runs : RunShape(run'[q])
  BY DEF TypeOK

LEMMA AbortType ==
  ASSUME TypeOK, NEW r \in Runs, Abort(r)
  PROVE  run' \in [Runs -> RunStates] /\ \A q \in Runs : RunShape(run'[q])
  <1> DEFINE x == [run[r] EXCEPT !.pc = "read", !.todo = run[r].started,
                                 !.owners = <<>>, !.failed = TRUE, !.cur = None]
  <1>1. run[r] \in RunStates
    BY DEF TypeOK
  <1>2. x \in RunStates
    BY <1>1, EmptySeqs DEF RunStates
  <1>3. RunShape(x)
    BY <1>1 DEF RunShape, RunStates
  <1>4. run' = [run EXCEPT ![r] = x]
    BY DEF Abort
  <1>5. QED
    BY <1>2, <1>3, <1>4, RunUpdate

LEMMA RunTypeOK ==
  ASSUME TypeOK, UNCHANGED scenario, NEW r \in Runs,
         RunStep(r) \/ D_Killed(r) \/ \E c \in OnCommands \cup OffCommands : D_Start(r, c)
  PROVE  TypeOK'
  <1> DEFINE s == run[r]
             Typed == run' \in [Runs -> RunStates] /\ \A q \in Runs : RunShape(run'[q])
  <1>a. s \in RunStates /\ RunShape(s)
    BY DEF TypeOK
  <1>b. s.todo # <<>> => Head(s.todo) \in Lines /\ Tail(s.todo) \in Seq(Lines)
    BY <1>a, HeadTailProperties DEF RunStates
  <1>c. s.owners # <<>> => /\ Head(s.owners) \in Owners
                           /\ Tail(s.owners) \in Seq(Owners)
    BY <1>a, HeadTailProperties DEF RunStates
  <1>1. ASSUME NEW c \in OnCommands \cup OffCommands, D_Start(r, c)  PROVE TypeOK'
    <2> DEFINE x == [IdleRun EXCEPT !.cmd = c, !.pc = "scan", !.todo = DIAGNOSTIC_GPIOS]
               y == [IdleRun EXCEPT !.cmd = c, !.pc = "read", !.todo = Targets(c)]
    <2>1. x \in RunStates /\ y \in RunStates
      BY ConstantsAssumption, IdleRunType, TargetsType DEF RunStates
    <2>a. RunShape(x) /\ RunShape(y)
      BY DEF RunShape, IdleRun
    <2>2. run' = [run EXCEPT ![r] = x] \/ run' = [run EXCEPT ![r] = y]
      BY <1>1 DEF D_Start
    <2>3. Typed
      BY <2>1, <2>a, <2>2, RunUpdate
    <2>4. QED
      BY <1>1, <2>3 DEF TypeOK, D_Start
  <1>2. CASE D_Scan(r)
    <2> DEFINE x == [s EXCEPT !.active = @ \cup {Head(s.todo)}, !.todo = Tail(@)]
               y == [s EXCEPT !.pc = "scan_unlink"]
    <2>1. x \in RunStates /\ y \in RunStates
      BY <1>a, <1>b, <1>c, <1>2 DEF RunStates, D_Scan
    <2>2. RunShape(x) /\ RunShape(y)
      BY <1>a, <1>b, <1>c, <1>2 DEF RunShape, RunStates, D_Scan
    <2>3. run' = [run EXCEPT ![r] = x] \/ run' = [run EXCEPT ![r] = y]
      BY <1>2 DEF D_Scan
    <2>4. Typed
      BY <2>1, <2>2, <2>3, RunUpdate
    <2>5. QED
      BY <1>2, <2>4, <1>a, <1>b, <1>c DEF TypeOK, D_Scan
  <1>3. CASE D_ScanUnlink(r)
    <2> DEFINE x == [s EXCEPT !.pc = "scan", !.todo = Tail(@)]
    <2>0. s.pc = "scan_unlink" /\ s.todo # <<>>
      BY <1>a, <1>3 DEF RunShape, D_ScanUnlink
    <2>1. x \in RunStates
      BY <1>a, <1>b, <2>0 DEF RunStates
    <2>2. RunShape(x)
      BY <1>a, <1>b, <1>c, <1>3 DEF RunShape, RunStates, D_ScanUnlink
    <2>3. run' = [run EXCEPT ![r] = x]
      BY <1>3 DEF D_ScanUnlink
    <2>4. Typed
      BY <2>1, <2>2, <2>3, RunUpdate
    <2>5. QED
      BY <1>3, <2>4, <1>a, <1>b, <1>c DEF TypeOK, D_ScanUnlink
  <1>4. CASE D_Lock(r)
    <2> DEFINE x == [s EXCEPT !.pc = "spawn", !.todo = Targets(s.cmd)]
    <2>1. x \in RunStates
      BY <1>a, <1>b, <1>c, <1>4, TargetsType DEF RunStates, D_Lock
    <2>2. RunShape(x)
      BY <1>a, <1>b, <1>c, <1>4, TargetsType DEF RunShape, RunStates, D_Lock
    <2>3. run' = [run EXCEPT ![r] = x] \/ Abort(r)
      BY <1>4 DEF D_Lock
    <2>4. Typed
      BY <2>1, <2>2, <2>3, RunUpdate, AbortType
    <2>5. QED
      BY <1>4, <2>4, <1>a, <1>b, <1>c DEF TypeOK, D_Lock
  <1>5. CASE D_Skip(r)
    <2> DEFINE x == [s EXCEPT !.todo = Tail(@)]
    <2>1. x \in RunStates
      BY <1>a, <1>b, <1>c, <1>5 DEF RunStates, D_Skip
    <2>2. RunShape(x)
      BY <1>a, <1>b, <1>c, <1>5 DEF RunShape, RunStates, D_Skip
    <2>3. run' = [run EXCEPT ![r] = x]
      BY <1>5 DEF D_Skip
    <2>4. Typed
      BY <2>1, <2>2, <2>3, RunUpdate
    <2>5. QED
      BY <1>5, <2>4, <1>a, <1>b, <1>c DEF TypeOK, D_Skip
  <1>6. CASE D_Spawn(r)
    <2>1. ASSUME NEW p \in Pids, run' = [run EXCEPT ![r] = [s EXCEPT !.pc = "poll", !.cur = p]]
          PROVE  Typed
      <3>1. [s EXCEPT !.pc = "poll", !.cur = p] \in RunStates
        BY <1>a DEF RunStates
      <3>2. RunShape([s EXCEPT !.pc = "poll", !.cur = p])
        BY <1>6, <1>a, ConstantsAssumption DEF RunShape, RunStates, D_Spawn
      <3>3. QED
        BY <2>1, <3>1, <3>2, RunUpdate
    <2>2. Typed
      BY <1>6, <2>1, AbortType DEF D_Spawn
    <2>3. QED
      BY SMTT(30), <1>6, <2>2, <1>b, ProcTypes DEF TypeOK, D_Spawn
  <1>7. CASE D_Poll(r)
    <2> DEFINE x == [s EXCEPT !.pc = "record"]
    <2>1. x \in RunStates
      BY <1>a, <1>b, <1>c, <1>7 DEF RunStates, D_Poll
    <2>2. RunShape(x)
      BY <1>a, <1>b, <1>c, <1>7 DEF RunShape, RunStates, D_Poll
    <2>3. run' = [run EXCEPT ![r] = x] \/ Abort(r)
      BY <1>7 DEF D_Poll
    <2>4. Typed
      BY <2>1, <2>2, <2>3, RunUpdate, AbortType
    <2>5. QED
      BY <1>7, <2>4, <1>a, <1>b, <1>c DEF TypeOK, D_Poll
  <1>8. CASE D_Record(r)
    <2> DEFINE x == [s EXCEPT !.pc = "spawn", !.todo = Tail(@), !.cur = None,
                            !.started = Append(@, Head(s.todo))]
    <2>0. s.todo # <<>> /\ Append(s.started, Head(s.todo)) \in Seq(Lines)
      BY <1>a, <1>b, <1>8, AppendProperties DEF RunShape, RunStates, D_Record
    <2>1. x \in RunStates
      BY <1>a, <1>b, <2>0 DEF RunStates
    <2>2. RunShape(x)
      BY <1>a, <1>b, <1>c, <1>8, TargetsType DEF RunShape, RunStates, D_Record
    <2>3. run' = [run EXCEPT ![r] = x] \/ Abort(r)
      BY <1>8 DEF D_Record
    <2>4. Typed
      BY <2>1, <2>2, <2>3, RunUpdate, AbortType
    <2>5. s.cur \in Pids
      BY <1>a, <1>8 DEF RunShape, RunStates, D_Record
    <2>6. pidfile' \in [Lines -> Pids \cup {None}]
      BY <1>8, <2>5 DEF TypeOK, D_Record
    <2>7. QED
      BY <1>8, <2>4, <2>6 DEF TypeOK, D_Record
  <1>9. CASE D_Read(r)
    <2> DEFINE o == [gpio |-> Head(s.todo), pid |-> pidfile[Head(s.todo)]]
               x == [s EXCEPT !.todo = Tail(@)]
               y == [s EXCEPT !.todo = Tail(@), !.owners = Append(@, o)]
               z == [s EXCEPT !.pc = "read_unlink"]
    <2>0. s.pc = "read" /\ s.todo # <<>>
      BY <1>9 DEF D_Read
    <2>1. x \in RunStates /\ z \in RunStates
      BY <1>a, <1>b, <2>0 DEF RunStates
    <2>2. RunShape(x) /\ RunShape(y) /\ RunShape(z)
      BY <1>a, <2>0 DEF RunShape, RunStates
    <2>3. ASSUME pidfile[Head(s.todo)] # None  PROVE y \in RunStates
      <3>1. o \in Owners
        BY <1>b, <2>0, <2>3 DEF TypeOK, Owners
      <3>2. Append(s.owners, o) \in Seq(Owners)
        BY <1>a, <3>1, AppendProperties DEF RunStates
      <3>3. QED
        BY <1>a, <1>b, <2>0, <3>2 DEF RunStates
    <2>4. CASE run' = [run EXCEPT ![r] = x] \/ run' = [run EXCEPT ![r] = z]
      <3>1. Typed
        BY <2>1, <2>2, <2>4, RunUpdate
      <3>2. QED
        BY <1>9, <3>1 DEF TypeOK, D_Read
    <2>5. CASE pidfile[Head(s.todo)] # None /\ run' = [run EXCEPT ![r] = y]
      <3>1. Typed
        BY <2>2, <2>3, <2>5, RunUpdate
      <3>2. QED
        BY <1>9, <3>1 DEF TypeOK, D_Read
    <2>6. QED
      BY <1>9, <2>4, <2>5 DEF D_Read
  <1>10. CASE D_ReadUnlink(r)
    <2> DEFINE x == [s EXCEPT !.pc = "read", !.todo = Tail(@)]
    <2>0. s.pc = "read_unlink" /\ s.todo # <<>>
      BY <1>a, <1>10 DEF RunShape, D_ReadUnlink
    <2>1. x \in RunStates
      BY <1>a, <1>b, <2>0 DEF RunStates
    <2>2. RunShape(x)
      BY <1>a, <1>b, <1>c, <1>10 DEF RunShape, RunStates, D_ReadUnlink
    <2>3. run' = [run EXCEPT ![r] = x]
      BY <1>10 DEF D_ReadUnlink
    <2>4. Typed
      BY <2>1, <2>2, <2>3, RunUpdate
    <2>5. QED
      BY <1>10, <2>4, <1>a, <1>b, <1>c DEF TypeOK, D_ReadUnlink
  <1>11. CASE D_ReadDone(r)
    <2> DEFINE x == [s EXCEPT !.pc = "low",
                            !.todo = [i \in 1..Len(s.owners) |-> s.owners[i].gpio]]
    <2>0. [i \in 1..Len(s.owners) |-> s.owners[i].gpio] \in Seq(Lines)
      <3>1. s.owners \in [1..Len(s.owners) -> Owners] /\ Len(s.owners) \in Nat
        BY <1>a, LenProperties DEF RunStates
      <3>2. \A i \in 1..Len(s.owners) : s.owners[i].gpio \in Lines
        BY <3>1 DEF Owners
      <3>3. [i \in 1..Len(s.owners) |-> s.owners[i].gpio] \in [1..Len(s.owners) -> Lines]
        BY <3>2
      <3>4. QED
        BY <3>1, <3>3, SeqDef
    <2>1. x \in RunStates
      BY <1>a, <2>0 DEF RunStates
    <2>2. RunShape(x)
      BY <1>a, <1>b, <1>c, <1>11 DEF RunShape, RunStates, D_ReadDone
    <2>3. run' = [run EXCEPT ![r] = x]
      BY <1>11 DEF D_ReadDone
    <2>4. Typed
      BY <2>1, <2>2, <2>3, RunUpdate
    <2>5. QED
      BY <1>11, <2>4, <1>a, <1>b, <1>c DEF TypeOK, D_ReadDone
  <1>12. CASE D_Low(r)
    <2> DEFINE x == [s EXCEPT !.todo = Tail(@)]
               y == [s EXCEPT !.pc = "finish", !.failed = TRUE]
    <2>1. x \in RunStates /\ y \in RunStates
      BY <1>a, <1>b, <1>c, <1>12 DEF RunStates, D_Low
    <2>2. RunShape(x) /\ RunShape(y)
      BY <1>a, <1>b, <1>c, <1>12 DEF RunShape, RunStates, D_Low
    <2>3. run' = [run EXCEPT ![r] = x] \/ run' = [run EXCEPT ![r] = y]
      BY <1>12 DEF D_Low
    <2>4. Typed
      BY <2>1, <2>2, <2>3, RunUpdate
    <2>5. QED
      BY <1>12, <2>4, <1>a, <1>b, <1>c DEF TypeOK, D_Low
  <1>13. CASE D_Kill(r)
    <2> DEFINE x == [s EXCEPT !.pc = "kill_unlink"]
    <2>1. x \in RunStates
      BY <1>a, <1>b, <1>c, <1>13 DEF RunStates, D_Kill
    <2>2. RunShape(x)
      BY <1>a, <1>b, <1>c, <1>13 DEF RunShape, RunStates, D_Kill
    <2>3. run' = [run EXCEPT ![r] = x]
      BY <1>13 DEF D_Kill
    <2>4. Typed
      BY <2>1, <2>2, <2>3, RunUpdate
    <2>5. proc' \in [Pids -> ProcStates]
      BY <1>13, <1>c, SignalType DEF D_Kill, Owners
    <2>6. QED
      BY <1>13, <2>4, <2>5 DEF TypeOK, D_Kill
  <1>14. CASE D_KillUnlink(r)
    <2> DEFINE x == [s EXCEPT !.pc = "low", !.owners = Tail(@)]
    <2>0. s.owners # <<>>
      BY <1>a, <1>14 DEF RunShape, D_KillUnlink
    <2>1. x \in RunStates
      BY <1>a, <1>c, <2>0 DEF RunStates
    <2>2. RunShape(x)
      BY <1>a, <1>b, <1>c, <1>14 DEF RunShape, RunStates, D_KillUnlink
    <2>3. run' = [run EXCEPT ![r] = x]
      BY <1>14 DEF D_KillUnlink
    <2>4. Typed
      BY <2>1, <2>2, <2>3, RunUpdate
    <2>5. QED
      BY <1>14, <2>4, <1>a, <1>b, <1>c DEF TypeOK, D_KillUnlink
  <1>15. CASE D_Finish(r)
    <2>1. Typed
      BY <1>15, RunUpdate, IdleRunType DEF D_Finish
    <2>2. QED
      BY <1>15, <2>1 DEF TypeOK, D_Finish
  <1>16. CASE D_Killed(r)
    <2>1. Typed
      BY <1>16, RunUpdate, IdleRunType DEF D_Killed
    <2>2. QED
      BY <1>16, <2>1 DEF TypeOK, D_Killed
  <1>17. QED
    BY <1>1, <1>2, <1>3, <1>4, <1>5, <1>6, <1>7, <1>8,
       <1>9, <1>10, <1>11, <1>12, <1>13, <1>14, <1>15, <1>16 DEF RunStep, OnStep, StopStep

LEMMA InitType == Init => TypeOK
  <1>1. IdleThread \in ThreadStates
    BY DEF IdleThread, ThreadStates, Lines
  <1>2. QED
    BY <1>1, IdleRunType, ProcTypes DEF Init, TypeOK

LEMMA TypeInductive == TypeOK /\ [Next]_vars => TypeOK'
  <1> SUFFICES ASSUME TypeOK, [Next]_vars  PROVE TypeOK'
    OBVIOUS
  <1>1. CASE Next
    BY <1>1, ProcTypeOK, AgentTypeOK, SystemTypeOK, RunTypeOK DEF Next
  <1>2. CASE UNCHANGED vars
    BY <1>2 DEF TypeOK, RunShape, vars, sysVars
  <1>3. QED
    BY <1>1, <1>2

\* The variables of the agent, the runs, the gpioset processes and the outputs
\* always have their types (state kept by hardware_agent.py, gpio_ownership.py
\* and diagnostic_controls.py).
THEOREM TypeCorrect == Spec => []TypeOK
  BY InitType, TypeInductive, PTL DEF Spec

-----------------------------------------------------------------------------
(* The lock and the children of the agent                                  *)

\* A request thread past its first step has the controller's lock, and nobody is
\* past it while the agent is down.
ControllerHeld ==
  \A t \in Threads : thread[t].pc # "idle" => ctl = t /\ agentUp

\* While the agent runs, each live gpioset of its own is the child of a thread.
AgentChildren ==
  agentUp => \A p \in Pids : AliveAgent(p) =>
    \E t \in Threads : thread[t].pc \in {"wait", "stop", "stopping"} /\ thread[t].child = p

\* The agent has at most one live gpioset.
OneChild == \A p, q \in Pids : AliveAgent(p) /\ AliveAgent(q) => p = q

\* From taking the lock until its gpioset has ended or timed out, a pulse has the
\* lock to itself: no other thread, no pcdog-test run and no gpioset that
\* inherited a descriptor shares it (GpioPulseExecutor.pulse, OutputLock).
PulseOwnsLock ==
  \A t \in Threads :
    thread[t].pc \in {"spawn", "wait"} => lockHolders = {t} /\ ctl = t

\* PulseOwnsLock alone is not inductive: that ctl = t at the moment the lock is
\* taken comes from the earlier step that took the controller's lock.
LockInv == TypeOK /\ ControllerHeld /\ PulseOwnsLock

LEMMA LockInvProc ==
  ASSUME LockInv, NEW p \in Pids, ProcRequest(p) \/ ProcToggle(p) \/ ProcEnd(p)
  PROVE  ControllerHeld' /\ PulseOwnsLock'
  <1>1. /\ thread' = thread /\ ctl' = ctl /\ agentUp' = agentUp
        /\ lockHolders' = lockHolders \/ lockHolders' = lockHolders \ {p}
    BY DEF ProcRequest, ProcToggle, ProcEnd
  <1>2. p \notin Threads
    BY ConstantsAssumption
  <1>3. QED
    BY <1>1, <1>2 DEF LockInv, ControllerHeld, PulseOwnsLock

LEMMA LockInvAgent ==
  ASSUME LockInv, NEW t \in Threads,
         AgentStep(t) \/ \E g \in Lines : A_Begin(t, g)
  PROVE  ControllerHeld' /\ PulseOwnsLock'
  <1> USE DEF LockInv, TypeOK, ControllerHeld, PulseOwnsLock, EndPulse, IdleThread
  <1>1. ASSUME NEW g \in Lines, A_Begin(t, g)  PROVE ControllerHeld' /\ PulseOwnsLock'
    BY <1>1, ConstantsAssumption DEF A_Begin
  <1>2. CASE A_Lock(t)
    BY <1>2 DEF A_Lock
  <1>3. CASE A_Spawn(t)
    BY <1>3 DEF A_Spawn
  <1>4. CASE A_Reap(t)
    BY <1>4 DEF A_Reap
  <1>5. CASE A_Timeout(t)
    BY <1>5 DEF A_Timeout
  <1>6. CASE A_Terminate(t)
    BY <1>6 DEF A_Terminate
  <1>7. CASE A_Stopped(t)
    BY <1>7 DEF A_Stopped
  <1>8. QED
    BY <1>1, <1>2, <1>3, <1>4, <1>5, <1>6, <1>7 DEF AgentStep

LEMMA LockInvSystem ==
  ASSUME LockInv, AgentCrash \/ AgentRestart
  PROVE  ControllerHeld' /\ PulseOwnsLock'
  <1>1. CASE AgentCrash
    BY <1>1 DEF AgentCrash, IdleThread, ControllerHeld, PulseOwnsLock
  <1>2. CASE AgentRestart
    BY <1>2 DEF AgentRestart, LockInv, ControllerHeld, PulseOwnsLock
  <1>3. QED
    BY <1>1, <1>2

\* A command takes the lock only when it is free, hands it on only when it has it,
\* and gives up its own descriptor only: a pulse that has the lock keeps it.
LEMMA LockInvRun ==
  ASSUME LockInv, NEW r \in Runs,
         RunStep(r) \/ D_Killed(r) \/ \E c \in OnCommands \cup OffCommands : D_Start(r, c)
  PROVE  ControllerHeld' /\ PulseOwnsLock'
  <1>1. thread' = thread /\ ctl' = ctl /\ agentUp' = agentUp
    BY DEF RunStep, OnStep, StopStep, D_Start, D_Scan, D_ScanUnlink, D_Lock, D_Skip, D_Spawn,
           D_Poll, D_Record, D_Read, D_ReadUnlink, D_ReadDone, D_Low, D_Kill,
           D_KillUnlink, D_Finish, D_Killed
  <1>2. \/ lockHolders' = lockHolders
        \/ lockHolders = {}
        \/ r \in lockHolders
        \/ lockHolders' = lockHolders \ {r}
    BY DEF RunStep, OnStep, StopStep, D_Start, D_Scan, D_ScanUnlink, D_Lock, D_Skip, D_Spawn,
           D_Poll, D_Record, D_Read, D_ReadUnlink, D_ReadDone, D_Low, D_Kill,
           D_KillUnlink, D_Finish, D_Killed
  <1>3. r \notin Threads
    BY ConstantsAssumption
  <1>4. QED
    BY <1>1, <1>2, <1>3 DEF LockInv, ControllerHeld, PulseOwnsLock

LEMMA LockInvInductive == LockInv /\ [Next]_vars => LockInv'
  <1> SUFFICES ASSUME LockInv, [Next]_vars  PROVE LockInv'
    OBVIOUS
  <1>1. TypeOK'
    BY TypeInductive DEF LockInv
  <1>2. CASE Next
    BY <1>1, <1>2, LockInvProc, LockInvAgent, LockInvSystem, LockInvRun DEF Next, LockInv
  <1>3. CASE UNCHANGED vars
    BY <1>1, <1>3 DEF vars, sysVars, LockInv, ControllerHeld, PulseOwnsLock
  <1>4. QED
    BY <1>2, <1>3

\* A pulse has the output lock to itself from taking it to the end of its gpioset
\* or its timeout, whatever fails and however many commands run at the same time
\* (GpioPulseExecutor.pulse under OutputLock).
THEOREM PulseOwnsLockHolds == Spec => []PulseOwnsLock
  <1>1. Init => LockInv
    BY InitType DEF Init, LockInv, ControllerHeld, PulseOwnsLock, IdleThread
  <1>2. LockInv => PulseOwnsLock
    BY DEF LockInv
  <1>3. QED
    BY <1>1, <1>2, LockInvInductive, PTL DEF Spec

-----------------------------------------------------------------------------
\* A step of a gpioset process starts no process.
LEMMA ProcStepSpawnsNothing ==
  ASSUME TypeOK, NEW p \in Pids, ProcRequest(p) \/ ProcToggle(p) \/ ProcEnd(p),
         NEW q \in Pids, AliveAgent(q)'
  PROVE  AliveAgent(q)
  <1>1. proc[p].st # "none" /\ proc \in [Pids -> ProcStates]
    BY DEF ProcRequest, ProcToggle, ProcEnd, Alive, TypeOK
  <1>2. \/ proc' = [proc EXCEPT ![p] = NoProc]
        \/ proc' = [proc EXCEPT ![p].st = "driving"]
    BY DEF ProcRequest, ProcToggle, ProcEnd
  <1>3. CASE proc' = [proc EXCEPT ![p] = NoProc]
    BY <1>1, <1>3 DEF AliveAgent, Alive, NoProc
  <1>4. CASE proc' = [proc EXCEPT ![p].st = "driving"]
    BY <1>1, <1>4 DEF AliveAgent, Alive, ProcStates
  <1>5. QED
    BY <1>2, <1>3, <1>4

\* A signal gives life to nothing.
LEMMA SignalSpawnsNothing ==
  ASSUME TypeOK, NEW p \in Pids, NEW q, Signal(q), AliveAgent(p)'
  PROVE  AliveAgent(p)
  <1>1. proc \in [Pids -> ProcStates]
    BY DEF TypeOK
  <1>2. proc' = proc \/ proc' = [proc EXCEPT ![q].term = TRUE]
    BY DEF Signal
  <1> QED BY <1>1, <1>2 DEF ProcStates, AliveAgent, Alive

\* A gpioset of the agent comes to life in the spawning step of a thread only.
LEMMA AgentSpawns ==
  ASSUME TypeOK, NEW p \in Pids, Next, AliveAgent(p)', ~AliveAgent(p)
  PROVE  \E t \in Threads : thread[t].pc = "spawn" /\ lockHolders' = lockHolders
  <1> USE DEF AliveAgent, Alive
  <1>1. ASSUME NEW q \in Pids, ProcRequest(q) \/ ProcToggle(q) \/ ProcEnd(q)  PROVE FALSE
    BY <1>1, ProcStepSpawnsNothing
  <1>2. ASSUME NEW t \in Threads, NEW g \in Lines, A_Begin(t, g)  PROVE FALSE
    BY <1>2 DEF A_Begin
  <1>3. ASSUME NEW t \in Threads, AgentStep(t)
        PROVE  thread[t].pc = "spawn" /\ lockHolders' = lockHolders
    <2>1. CASE A_Spawn(t)
      BY <2>1 DEF A_Spawn
    <2>2. CASE A_Terminate(t)
      BY <2>2, SignalSpawnsNothing DEF A_Terminate
    <2>3. CASE A_Lock(t) \/ A_Reap(t) \/ A_Timeout(t) \/ A_Stopped(t)
      BY <2>3 DEF A_Lock, A_Reap, A_Timeout, A_Stopped
    <2>4. QED
      BY <1>3, <2>1, <2>2, <2>3 DEF AgentStep
  <1>4. ASSUME AgentCrash \/ AgentRestart  PROVE FALSE
    BY <1>4 DEF AgentCrash, AgentRestart
  <1>5. ASSUME NEW r \in Runs, RunStep(r) \/ D_Killed(r) \/ \E c \in OnCommands \cup OffCommands : D_Start(r, c)
        PROVE  FALSE
    <2>1. CASE D_Spawn(r)
      BY <2>1 DEF D_Spawn, Spawned, TypeOK
    <2>2. CASE D_Kill(r)
      BY <2>2, SignalSpawnsNothing DEF D_Kill
    <2>3. CASE proc' = proc
      BY <2>3
    <2>4. QED
      BY <1>5, <2>1, <2>2, <2>3
         DEF RunStep, OnStep, StopStep, D_Start, D_Scan, D_ScanUnlink, D_Lock, D_Skip,
             D_Poll, D_Record, D_Read, D_ReadUnlink, D_ReadDone, D_Low,
             D_KillUnlink, D_Finish, D_Killed
  <1>6. QED
    BY <1>1, <1>2, <1>3, <1>4, <1>5 DEF Next

\* The agent starts no gpioset while a command, or a diagnostic gpioset that
\* inherited the lock from one, still has a descriptor of it.
THEOREM NoPulseUnderInheritedLockHolds == Spec => NoPulseUnderInheritedLock
  <1>1. LockInv /\ [Next]_vars =>
          [\A p \in Pids : AliveAgent(p)' /\ ~AliveAgent(p) => lockHolders \subseteq Threads]_vars
    <2> SUFFICES ASSUME LockInv, Next, NEW p \in Pids, AliveAgent(p)', ~AliveAgent(p)
                 PROVE  lockHolders \subseteq Threads
      OBVIOUS
    <2>1. PICK t \in Threads : thread[t].pc = "spawn"
      BY AgentSpawns DEF LockInv
    <2>2. QED
      BY <2>1 DEF LockInv, PulseOwnsLock
  <1>2. Init => LockInv
    BY InitType DEF Init, LockInv, ControllerHeld, PulseOwnsLock, IdleThread
  <1>3. QED
    BY <1>1, <1>2, LockInvInductive, PTL DEF Spec, NoPulseUnderInheritedLock

\* The inductive invariant of SinglePulse: between a timeout, when the flock is
\* already given up, and the end of the child the controller's lock still holds.
PulseInv == LockInv /\ (May("survive_kill") \/ (AgentChildren /\ OneChild))

LEMMA PulseInvInductive == PulseInv /\ [Next]_vars => PulseInv'
  <1>0. [Next]_vars => (May("survive_kill") <=> May("survive_kill")')
    BY DEF Next, vars, May
  <1> SUFFICES ASSUME PulseInv, [Next]_vars, ~May("survive_kill")
               PROVE  AgentChildren' /\ OneChild'
    BY <1>0, LockInvInductive DEF PulseInv
  <1>a. TypeOK /\ ControllerHeld /\ PulseOwnsLock /\ AgentChildren /\ OneChild
    BY DEF PulseInv, LockInv
  <1>b. ASSUME \A p \in Pids : AliveAgent(p)' => AliveAgent(p)
        PROVE  OneChild'
    BY <1>a, <1>b DEF OneChild
  <1>c. ASSUME thread' = thread, agentUp' = agentUp,
               \A p \in Pids : AliveAgent(p)' => AliveAgent(p)
        PROVE  AgentChildren' /\ OneChild'
    BY <1>a, <1>b, <1>c DEF AgentChildren
  <1>1. ASSUME NEW p \in Pids, ProcRequest(p) \/ ProcToggle(p) \/ ProcEnd(p)
        PROVE  AgentChildren' /\ OneChild'
    <2>1. thread' = thread /\ agentUp' = agentUp
      BY <1>1 DEF ProcRequest, ProcToggle, ProcEnd
    <2>2. \A q \in Pids : AliveAgent(q)' => AliveAgent(q)
      BY <1>1, <1>a, ProcStepSpawnsNothing
    <2>3. QED
      BY <1>c, <2>1, <2>2
  <1>2. ASSUME NEW t \in Threads, NEW g \in Lines, A_Begin(t, g)
        PROVE  AgentChildren' /\ OneChild'
    <2>1. \A q \in Pids : AliveAgent(q)' => AliveAgent(q)
      BY <1>2 DEF A_Begin, AliveAgent, Alive
    <2>2. AgentChildren'
      BY <1>2, <1>a, <2>1 DEF A_Begin, AgentChildren, TypeOK
    <2>3. QED
      BY <2>1, <2>2, <1>b
  <1>3. ASSUME NEW t \in Threads, AgentStep(t)
        PROVE  AgentChildren' /\ OneChild'
    <2> USE <1>a DEF AgentChildren, TypeOK, AliveAgent, Alive, EndPulse, IdleThread
    <2>1. CASE A_Spawn(t)
      <3>1. ASSUME NEW q \in Pids, AliveAgent(q)  PROVE FALSE
        BY <2>1, <3>1 DEF A_Spawn, ControllerHeld
      <3>2. CASE proc' = proc
        BY <2>1, <3>1, <3>2 DEF A_Spawn, OneChild
      <3>3. ASSUME NEW p \in Pids,
                   proc' = [proc EXCEPT ![p] = Spawned("agent", thread[t].gpio)],
                   thread' = [thread EXCEPT ![t].pc = "wait", ![t].child = p]
            PROVE  AgentChildren' /\ OneChild'
        <4>1. \A q \in Pids : AliveAgent(q)' => q = p
          BY <3>1, <3>3
        <4>2. thread'[t].pc = "wait" /\ thread'[t].child = p
          BY <3>3 DEF ThreadStates
        <4>3. QED
          BY <4>1, <4>2 DEF OneChild
      <3>4. QED
        BY <2>1, <3>2, <3>3 DEF A_Spawn
    <2>2. CASE A_Lock(t)
      BY <2>2, <1>b DEF A_Lock
    <2>3. CASE A_Reap(t) \/ A_Stopped(t)
      <3>1. ~AliveAgent(thread[t].child) /\ thread[t].pc \in {"wait", "stopping"}
        BY <2>3 DEF A_Reap, A_Stopped
      <3>2. ASSUME NEW q \in Pids, AliveAgent(q)  PROVE ~agentUp
        BY <3>1, <3>2 DEF ControllerHeld
      <3>3. QED
        BY <2>3, <3>2, <1>b DEF A_Reap, A_Stopped
    <2>4. CASE A_Timeout(t)
      BY <2>4, <1>b DEF A_Timeout
    <2>5. CASE A_Terminate(t)
      <3>1. \A q \in Pids : AliveAgent(q)' => AliveAgent(q)
        BY <2>5 DEF A_Terminate, Signal
      <3>2. AgentChildren'
        BY <2>5, <3>1 DEF A_Terminate
      <3>3. QED
        BY <3>1, <3>2, <1>b
    <2>6. QED
      BY <1>3, <2>1, <2>2, <2>3, <2>4, <2>5 DEF AgentStep
  <1>4. ASSUME AgentCrash \/ AgentRestart  PROVE AgentChildren' /\ OneChild'
    BY <1>4, <1>a, <1>b DEF AgentCrash, AgentRestart, AgentChildren, AliveAgent, Alive
  <1>5. ASSUME NEW r \in Runs, RunStep(r) \/ D_Killed(r) \/ \E c \in OnCommands \cup OffCommands : D_Start(r, c)
        PROVE  AgentChildren' /\ OneChild'
    <2>1. thread' = thread /\ agentUp' = agentUp
      BY <1>5 DEF RunStep, OnStep, StopStep, D_Start, D_Scan, D_ScanUnlink, D_Lock, D_Skip,
             D_Spawn, D_Poll, D_Record, D_Read, D_ReadUnlink, D_ReadDone, D_Low,
             D_Kill, D_KillUnlink, D_Finish, D_Killed
    <2>2. \A q \in Pids : AliveAgent(q)' => AliveAgent(q)
      <3> USE <1>a DEF AliveAgent, Alive
      <3>1. CASE D_Spawn(r)
        BY <3>1 DEF D_Spawn, Spawned, TypeOK
      <3>2. CASE D_Kill(r)
        BY <3>2 DEF D_Kill, Signal, TypeOK
      <3>3. CASE proc' = proc
        BY <3>3
      <3>4. QED
        BY <1>5, <3>1, <3>2, <3>3
           DEF RunStep, OnStep, StopStep, D_Start, D_Scan, D_ScanUnlink, D_Lock, D_Skip,
               D_Poll, D_Record, D_Read, D_ReadUnlink, D_ReadDone, D_Low,
               D_KillUnlink, D_Finish, D_Killed
    <2>3. QED
      BY <1>c, <2>1, <2>2
  <1>6. CASE UNCHANGED vars
    BY <1>6, <1>c DEF vars, sysVars, AliveAgent, Alive
  <1>7. QED
    BY <1>1, <1>2, <1>3, <1>4, <1>5, <1>6 DEF Next

\* The agent never has two live gpioset children, also when a pulse times out or
\* the agent itself crashes and is restarted, as long as SIGKILL ends a child
\* within the second _stop_process waits for it.
THEOREM SinglePulseHolds == Spec => []SinglePulse
  <1>1. Init => PulseInv
    BY InitType DEF Init, PulseInv, LockInv, ControllerHeld, PulseOwnsLock, IdleThread,
                    AgentChildren, OneChild, AliveAgent, Alive, NoProc
  <1>2. PulseInv => SinglePulse
    BY DEF PulseInv, SinglePulse, OneChild
  <1>3. QED
    BY <1>1, <1>2, PulseInvInductive, PTL DEF Spec
-----------------------------------------------------------------------------
(* What PulseEnds and OffFreesLock rest on: no lock is left behind         *)

\* The controller's lock belongs to a pulse that is under way, and the flock to
\* pulses, on-commands and diagnostic gpiosets that are: an off command, which
\* never takes the lock, waits for no one but the gpiosets it ends.
LocksInUse ==
  /\ ctl # None => thread[ctl].pc # "idle"
  /\ \A t \in Threads : t \in lockHolders => thread[t].pc \in {"spawn", "wait"}
  /\ \A r \in Runs : r \in lockHolders => run[r].pc # "idle" /\ run[r].cmd \in OnCommands
  /\ \A p \in Pids : p \in lockHolders => AliveDiag(p)

\* Only an on command looks for lines that are active (_set_active).
ScansToStart ==
  \A r \in Runs : run[r].pc \in {"scan", "scan_unlink"} => run[r].cmd \in OnCommands

\* LocksInUse needs ControllerHeld: a thread that ends a pulse may give the
\* controller's lock back because it is its own.
UseInv == LockInv /\ ScansToStart /\ LocksInUse

LEMMA UseInvProc ==
  ASSUME UseInv, NEW p \in Pids, ProcRequest(p) \/ ProcToggle(p) \/ ProcEnd(p)
  PROVE  LocksInUse'
  <1>1. /\ TypeOK /\ LocksInUse
        /\ thread' = thread /\ ctl' = ctl /\ run' = run
        /\ lockHolders' \subseteq lockHolders
    BY DEF UseInv, LockInv, ProcRequest, ProcToggle, ProcEnd
  <1>2. ASSUME NEW q \in Pids, q \in lockHolders'  PROVE AliveDiag(q)'
    <2>1. AliveDiag(q)
      BY <1>1, <1>2 DEF LocksInUse
    <2>2. CASE ProcRequest(p)
      BY <1>1, <1>2, <2>1, <2>2 DEF ProcRequest, AliveDiag, Alive, TypeOK, ProcStates
    <2>3. CASE ProcToggle(p)
      BY <1>1, <2>1, <2>3 DEF ProcToggle, AliveDiag, Alive, TypeOK
    <2>4. CASE ProcEnd(p)
      BY <1>1, <1>2, <2>1, <2>4 DEF ProcEnd, AliveDiag, Alive, TypeOK
    <2>5. QED
      BY <2>2, <2>3, <2>4
  <1>3. QED
    BY <1>1, <1>2 DEF LocksInUse

\* What lives in the list of processes stays there when a free pid is given away
\* or a signal is sent.
LEMMA DiagLivesOn ==
  ASSUME TypeOK, NEW q \in Pids, AliveDiag(q), NEW p,
         \/ Signal(p)
         \/ proc' = proc
         \/ ~Alive(p) /\ \E s \in ProcStates : proc' = [proc EXCEPT ![p] = s]
  PROVE  AliveDiag(q)'
  BY DEF TypeOK, ProcStates, AliveDiag, Alive, Signal

LEMMA UseInvAgent ==
  ASSUME UseInv, NEW t \in Threads, AgentStep(t) \/ \E g \in Lines : A_Begin(t, g)
  PROVE  LocksInUse'
  <1>1. TypeOK /\ ControllerHeld /\ PulseOwnsLock /\ LocksInUse /\ run' = run
    BY DEF UseInv, LockInv, AgentStep, A_Begin, A_Lock, A_Spawn, A_Reap, A_Timeout,
           A_Terminate, A_Stopped
  <1>2. t \notin Pids /\ t \notin Runs /\ t # None
    BY ConstantsAssumption
  <1> USE <1>1, <1>2 DEF LocksInUse, TypeOK, EndPulse, IdleThread, AliveDiag, Alive
  <1>3. ASSUME NEW g \in Lines, A_Begin(t, g)  PROVE LocksInUse'
    BY <1>3 DEF A_Begin
  <1>4. CASE A_Lock(t)
    <2>1. thread[t].pc = "lock" /\ t \notin lockHolders /\ proc' = proc
      BY <1>4 DEF A_Lock
    <2>2. CASE lockHolders' = {t} /\ thread' = [thread EXCEPT ![t].pc = "spawn"] /\ ctl' = ctl
      BY <2>1, <2>2 DEF ThreadStates
    <2>3. CASE lockHolders' = lockHolders /\ EndPulse(t)
      BY <2>1, <2>3
    <2>4. QED
      BY <1>4, <2>2, <2>3 DEF A_Lock
  <1>5. CASE A_Spawn(t)
    <2>1. thread[t].pc = "spawn" /\ ctl = t
      BY <1>5 DEF A_Spawn, ControllerHeld
    <2>2. ASSUME NEW p \in Pids, FreePid(p), lockHolders' = lockHolders, ctl' = ctl,
                 proc' = [proc EXCEPT ![p] = Spawned("agent", thread[t].gpio)],
                 thread' = [thread EXCEPT ![t].pc = "wait", ![t].child = p]
          PROVE  LocksInUse'
      BY <2>1, <2>2 DEF FreePid
    <2>3. CASE lockHolders' = lockHolders \ {t} /\ EndPulse(t) /\ proc' = proc
      BY <2>1, <2>3
    <2>4. QED
      BY <1>5, <2>2, <2>3 DEF A_Spawn
  <1>6. CASE A_Reap(t)
    BY <1>6 DEF A_Reap
  <1>7. CASE A_Timeout(t)
    BY <1>7 DEF A_Timeout
  <1>8. CASE A_Terminate(t)
    <2>1. t \notin lockHolders
      BY <1>8 DEF A_Terminate
    <2>2. \A q \in Pids : AliveDiag(q) => AliveDiag(q)'
      BY <1>8, DiagLivesOn DEF A_Terminate
    <2>3. QED
      BY <1>8, <2>1, <2>2 DEF A_Terminate
  <1>9. CASE A_Stopped(t)
    <2>1. t \notin lockHolders
      BY <1>9 DEF A_Stopped
    <2>2. QED
      BY <1>9, <2>1 DEF A_Stopped
  <1>10. QED
    BY <1>3, <1>4, <1>5, <1>6, <1>7, <1>8, <1>9 DEF AgentStep

LEMMA UseInvSystem ==
  ASSUME UseInv, AgentCrash \/ AgentRestart
  PROVE  LocksInUse'
  <1> USE ConstantsAssumption
      DEF UseInv, LockInv, TypeOK, LocksInUse, IdleThread, AliveDiag, Alive
  <1>1. CASE AgentCrash
    BY <1>1 DEF AgentCrash
  <1>2. CASE AgentRestart
    BY <1>2 DEF AgentRestart
  <1>3. QED
    BY <1>1, <1>2

\* A command that goes on is still the same command, and changes no other run.
LEMMA RunGoesOn ==
  ASSUME TypeOK, NEW r \in Runs, RunStep(r), ~D_Finish(r)
  PROVE  /\ run'[r].cmd = run[r].cmd /\ run'[r].pc # "idle"
         /\ run'[r].pc \in {"scan", "scan_unlink"} => run[r].pc \in {"scan", "scan_unlink"}
         /\ \A s \in Runs \ {r} : run'[s] = run[s]
  <1> USE DEF TypeOK, RunStates, Abort
  <1>1. CASE D_Scan(r)
    BY ZenonT(60), <1>1 DEF D_Scan
  <1>2. CASE D_ScanUnlink(r)
    BY <1>2 DEF D_ScanUnlink
  <1>3. CASE D_Lock(r)
    BY <1>3 DEF D_Lock
  <1>4. CASE D_Skip(r)
    BY <1>4 DEF D_Skip
  <1>5. CASE D_Spawn(r)
    BY <1>5 DEF D_Spawn
  <1>6. CASE D_Poll(r)
    BY <1>6 DEF D_Poll
  <1>7. CASE D_Record(r)
    BY <1>7 DEF D_Record
  <1>8. CASE D_Read(r)
    BY <1>8 DEF D_Read
  <1>9. CASE D_ReadUnlink(r)
    BY <1>9 DEF D_ReadUnlink
  <1>10. CASE D_ReadDone(r)
    BY <1>10 DEF D_ReadDone
  <1>11. CASE D_Low(r)
    <2>1. \/ run' = [run EXCEPT ![r].todo = Tail(@)]
          \/ run' = [run EXCEPT ![r].pc = "finish", ![r].failed = TRUE]
      BY <1>11 DEF D_Low
    <2>2. CASE run' = [run EXCEPT ![r].todo = Tail(@)]
      BY <1>11, <2>2 DEF D_Low
    <2>3. CASE run' = [run EXCEPT ![r].pc = "finish", ![r].failed = TRUE]
      BY <2>3
    <2>4. QED
      BY <2>1, <2>2, <2>3
  <1>12. CASE D_Kill(r)
    BY <1>12 DEF D_Kill
  <1>13. CASE D_KillUnlink(r)
    BY <1>13 DEF D_KillUnlink
  <1>14. QED
    BY <1>1, <1>2, <1>3, <1>4, <1>5, <1>6, <1>7, <1>8, <1>9, <1>10, <1>11, <1>12, <1>13
       DEF RunStep, OnStep, StopStep

LEMMA UseInvRun ==
  ASSUME UseInv, NEW r \in Runs,
         RunStep(r) \/ D_Killed(r) \/ \E c \in OnCommands \cup OffCommands : D_Start(r, c)
  PROVE  LocksInUse'
  <1>1. TypeOK /\ LocksInUse /\ thread' = thread /\ ctl' = ctl
    BY DEF UseInv, LockInv, RunStep, OnStep, StopStep, D_Start, D_Scan, D_ScanUnlink, D_Lock,
           D_Skip, D_Spawn, D_Poll, D_Record, D_Read, D_ReadUnlink, D_ReadDone, D_Low, D_Kill,
           D_KillUnlink, D_Finish, D_Killed
  <1>2. r \notin Threads /\ r \notin Pids
    BY ConstantsAssumption
  <1>a. ASSUME \A p \in Pids : p \in lockHolders' => AliveDiag(p)',
               r \in lockHolders' => run'[r].pc # "idle" /\ run'[r].cmd \in OnCommands,
               lockHolders' \subseteq lockHolders \cup Pids \cup {r},
               \A s \in Runs \ {r} : run'[s] = run[s]
        PROVE  LocksInUse'
    BY <1>1, <1>2, <1>a, ConstantsAssumption DEF LocksInUse
  <1>3. ASSUME NEW c \in OnCommands \cup OffCommands, D_Start(r, c)  PROVE LocksInUse'
    <2>1. r \notin lockHolders /\ lockHolders' = lockHolders /\ proc' = proc
      BY <1>1, <1>3 DEF D_Start, LocksInUse
    <2>2. \A s \in Runs \ {r} : run'[s] = run[s]
      BY <1>1, <1>3 DEF D_Start, TypeOK
    <2>3. QED
      BY <1>1, <1>a, <2>1, <2>2 DEF LocksInUse, AliveDiag, Alive
  <1>4. CASE D_Finish(r) \/ D_Killed(r)
    <2>1. lockHolders' = lockHolders \ {r} /\ proc' = proc
      BY <1>4 DEF D_Finish, D_Killed
    <2>2. \A s \in Runs \ {r} : run'[s] = run[s]
      BY <1>1, <1>4 DEF D_Finish, D_Killed, TypeOK
    <2>3. QED
      BY <1>1, <1>a, <2>1, <2>2 DEF LocksInUse, AliveDiag, Alive
  <1>5. ASSUME RunStep(r), ~D_Finish(r)  PROVE LocksInUse'
    <2>1. /\ run'[r].cmd = run[r].cmd /\ run'[r].pc # "idle"
          /\ \A s \in Runs \ {r} : run'[s] = run[s]
      BY <1>1, <1>5, RunGoesOn
    <2>2. CASE D_Spawn(r)
      <3>1. ASSUME NEW p \in Pids, FreePid(p),
                   proc' = [proc EXCEPT ![p] = Spawned("diag", Head(run[r].todo))],
                   lockHolders' = IF r \in lockHolders THEN lockHolders \cup {p} ELSE lockHolders
            PROVE  LocksInUse'
        <4>1. \A q \in Pids : q \in lockHolders => q # p /\ AliveDiag(q)
          BY <1>1, <3>1 DEF LocksInUse, FreePid, AliveDiag
        <4>2. \A q \in Pids : q # p => proc'[q] = proc[q]
          BY <1>1, <3>1 DEF TypeOK
        <4>3. AliveDiag(p)'
          BY <1>1, <3>1 DEF TypeOK, Spawned, AliveDiag, Alive
        <4>4. QED
          BY <1>1, <1>2, <1>a, <2>1, <3>1, <4>1, <4>2, <4>3 DEF LocksInUse, AliveDiag, Alive
      <3>2. CASE proc' = proc /\ lockHolders' = lockHolders
        BY <1>1, <1>a, <2>1, <3>2 DEF LocksInUse, AliveDiag, Alive
      <3>3. QED
        BY <2>2, <3>1, <3>2 DEF D_Spawn
    <2>3. CASE D_Lock(r)
      <3>1. proc' = proc /\ (lockHolders' = lockHolders \/ lockHolders' = {r})
        BY <2>3 DEF D_Lock
      <3>2. CASE lockHolders' = lockHolders
        BY <1>1, <1>a, <2>1, <3>1, <3>2 DEF LocksInUse, AliveDiag, Alive
      <3>3. CASE lockHolders' = {r}
        <4>1. run[r].cmd \in OnCommands
          BY <2>3 DEF D_Lock, UseInv, ScansToStart
        <4>2. QED
          BY <1>2, <1>a, <2>1, <3>3, <4>1
      <3>4. QED
        BY <3>1, <3>2, <3>3
    <2>4. CASE D_Kill(r)
      <3>1. \A q \in Pids : AliveDiag(q) => AliveDiag(q)'
        BY <1>1, <2>4, DiagLivesOn DEF D_Kill
      <3>2. QED
        BY <1>1, <1>a, <2>1, <2>4, <3>1 DEF LocksInUse, D_Kill
    <2>5. CASE lockHolders' = lockHolders /\ proc' = proc
      BY <1>1, <1>a, <2>1, <2>5 DEF LocksInUse, AliveDiag, Alive
    <2>6. QED
      BY <1>5, <2>2, <2>3, <2>4, <2>5
         DEF RunStep, OnStep, StopStep, D_Scan, D_ScanUnlink, D_Skip, D_Poll, D_Record,
             D_Read, D_ReadUnlink, D_ReadDone, D_Low, D_KillUnlink
  <1>6. QED
    BY <1>3, <1>4, <1>5

LEMMA ScansToStartKept ==
  ASSUME TypeOK, ScansToStart, Next
  PROVE  ScansToStart'
  <1> USE DEF TypeOK, ScansToStart
  <1>1. CASE run' = run
    BY <1>1
  <1>2. ASSUME NEW r \in Runs, NEW c \in OnCommands \cup OffCommands, D_Start(r, c)
        PROVE  ScansToStart'
    <2>1. /\ \A s \in Runs \ {r} : run'[s] = run[s]
          /\ run'[r].cmd = c /\ (c \notin OnCommands => run'[r].pc = "read")
      BY <1>2 DEF D_Start, IdleRun
    <2>2. QED
      BY <2>1
  <1>3. ASSUME NEW r \in Runs, D_Finish(r) \/ D_Killed(r)  PROVE ScansToStart'
    BY <1>3 DEF D_Finish, D_Killed, IdleRun
  <1>4. ASSUME NEW r \in Runs, RunStep(r), ~D_Finish(r)  PROVE ScansToStart'
    BY <1>4, RunGoesOn
  <1>5. QED
    BY <1>1, <1>2, <1>3, <1>4
       DEF Next, ProcRequest, ProcToggle, ProcEnd, AgentStep, A_Begin, A_Lock, A_Spawn, A_Reap,
           A_Timeout, A_Terminate, A_Stopped, AgentCrash, AgentRestart

LEMMA UseInvInductive == UseInv /\ [Next]_vars => UseInv'
  <1> SUFFICES ASSUME UseInv, [Next]_vars  PROVE UseInv'
    OBVIOUS
  <1>1. LockInv'
    BY LockInvInductive DEF UseInv
  <1>2. CASE Next
    <2>1. ScansToStart'
      BY <1>2, ScansToStartKept DEF UseInv, LockInv
    <2>2. LocksInUse'
      BY <1>2, UseInvProc, UseInvAgent, UseInvSystem, UseInvRun DEF Next
    <2>3. QED
      BY <1>1, <2>1, <2>2 DEF UseInv
  <1>3. CASE UNCHANGED vars
    BY <1>1, <1>3 DEF vars, sysVars, UseInv, ScansToStart, LocksInUse, AliveDiag, Alive
  <1>4. QED
    BY <1>2, <1>3

NobodyIsAtWork ==
  /\ \A t \in Threads : thread[t].pc = "idle"
  /\ \A r \in Runs : run[r].cmd \in OnCommands => run[r].pc = "idle"
  /\ \A p \in Pids : ~AliveDiag(p)

\* No lock outlives its use, whatever fails, crashes or is killed: with no pulse,
\* no on command and no diagnostic gpioset under way both locks are free. This is
\* the safety half of PulseEnds and OffFreesLock (PulseController._pulse's finally,
\* OutputLock.release, the descriptor gpioset inherits).
THEOREM LocksAreReturned ==
  Spec => [](LocksInUse /\ (NobodyIsAtWork => ctl = None /\ lockHolders = {}))
  <1>1. Init => UseInv
    BY InitType DEF Init, UseInv, LockInv, ControllerHeld, PulseOwnsLock, IdleThread,
                    ScansToStart, LocksInUse, IdleRun
  <1>2. UseInv => LocksInUse /\ (NobodyIsAtWork => ctl = None /\ lockHolders = {})
    BY DEF UseInv, LockInv, TypeOK, LocksInUse, NobodyIsAtWork
  <1>3. QED
    BY <1>1, <1>2, UseInvInductive, PTL DEF Spec
=============================================================================
