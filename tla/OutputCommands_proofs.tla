----------------------- MODULE OutputCommands_proofs -----------------------
(***************************************************************************)
(* Proofs about the pcdog-test commands of OutputOwnership, for any        *)
(* threads, runs, pids and scenarios: what one operator who gives one      *)
(* command at a time can rely on, and what a stop does to its lines        *)
(* whoever else runs. The invariants follow a run through its lists of     *)
(* lines: what is still to do, what a stop has noted, and what the pid     *)
(* files say of the gpioset processes that are alive.                      *)
(***************************************************************************)
EXTENDS OutputOwnership_proofs

\* g is an element of the sequence s.
In(g, s) == \E i \in 1..Len(s) : s[i] = g

\* A line that a stop works on.
Noted(g, s) == \E o \in Owners : In(o, s.owners) /\ o.gpio = g

\* A gpioset may still be starting when it is recorded: then nothing is known of the
\* level that it leaves its line at.
Slow == May("slow_start")

\* No diagnostic process keeps line g active.
LowLine(g) ==
  Slow \/ \A p \in Pids : AliveDiag(p) /\ proc[p].gpio = g => level[g] = "inactive"

Starting == {"scan", "scan_unlink", "spawn", "poll", "record"}
Reading == {"read", "read_unlink"}
Ending == {"low", "kill_unlink"}

\* Only commands of the scenario run; a process that a thread waits for is the
\* agent's own; one process drives a line.
OnlyScenarioRuns ==
  \A r \in Runs : run[r].pc # "idle" => r \in scenario.runs /\ run[r].cmd \in scenario.commands
ChildIsAgents ==
  \A t \in Threads : thread[t].child \in Pids => ~AliveDiag(thread[t].child)
DrivesAlone ==
  \A p, q \in Pids :
    proc[p].st = "driving" /\ proc[q].st = "driving" /\ proc[p].gpio = proc[q].gpio => p = q

\* A run that starts lines: the process between popen and its pid file is the
\* run's own. A pid file is unlinked when it names no owner.
StartShape(s) ==
  /\ s.pc \in Starting => stateDir /\ s.cmd \in OnCommands
  /\ s.pc = "finish" => s.failed
  /\ s.pc \in {"scan_unlink", "read_unlink"} => ~IsOwner(pidfile[Head(s.todo)])
  /\ s.pc \in {"poll", "record"} /\ Alive(s.cur) =>
       AliveDiag(s.cur) /\ ~proc[s.cur].term /\ proc[s.cur].gpio = Head(s.todo)
  /\ s.pc = "record" => Slow \/ proc[s.cur].st = "driving"

\* A run that stops lines: the pid files still name what it noted; the lines it
\* noted are LOW before the first process is signalled.
StopShape(s) ==
  /\ s.pc \in Reading \cup Ending =>
       \A o \in Owners : In(o, s.owners) => pidfile[o.gpio] \in {o.pid, None}
  /\ s.pc \in Ending => \A g \in Lines : Noted(g, s) => In(g, s.todo) \/ LowLine(g)
  /\ s.pc = "kill_unlink" =>
       s.todo = <<>> /\ (AliveDiag(Head(s.owners).pid) => proc[Head(s.owners).pid].term)

\* A stop has not lost line g: it will look at it, has noted it, or found or left
\* it without a pid file.
Kept(g, s) == pidfile[g] = None \/ Noted(g, s) \/ (s.pc \in Reading /\ In(g, s.todo))
OffShape(s) ==
  s.cmd \in OffCommands /\ s.pc \in Reading \cup Ending =>
    \A g \in Lines : In(g, Targets(s.cmd)) => Kept(g, s)

Driving ==
  Slow \/ \A p \in Pids : AliveDiag(p) =>
    proc[p].st = "driving" \/ \E r \in Runs : run[r].pc = "poll" /\ run[r].cur = p

\* Every diagnostic process is named by its pid file, about to be, or signalled
\* after its line was set LOW.
NamedOrEnded ==
  \A p \in Pids : AliveDiag(p) =>
    \/ pidfile[proc[p].gpio] = p
    \/ proc[p].term /\ (Slow \/ level[proc[p].gpio] = "inactive")
    \/ \E r \in Runs : run[r].cur = p

Shape(s) == StartShape(s) /\ StopShape(s) /\ OffShape(s)
Orderly == (\A r \in Runs : Shape(run[r])) /\ Driving /\ NamedOrEnded

\* The lists a run that starts lines works on name no line twice.
LineLists == {<<>>, <<"gpio17">>, <<"gpio18">>, DIAGNOSTIC_GPIOS}

\* A line that is to be started has no pid file: the scan has unlinked it, or found
\* the line active.
ScanShape(s) ==
  /\ s.pc \in {"scan", "scan_unlink"} =>
       \A g \in Lines : g \in s.active \/ In(g, s.todo) \/ pidfile[g] = None
  /\ s.pc \in {"spawn", "poll", "record"} =>
       /\ s.todo \in LineLists
       /\ \A g \in Lines : In(g, s.todo) => g \in s.active \/ pidfile[g] = None
  /\ s.pc \in {"poll", "record"} => Head(s.todo) \notin s.active
Scanned == \A r \in Runs : ScanShape(run[r])

CmdInv ==
  /\ TypeOK /\ OnlyScenarioRuns /\ ChildIsAgents /\ DrivesAlone
  /\ OrderlyCommands => Orderly /\ Scanned

\* The scenarios of ExclusiveWithAllCommands.
AllCommands ==
  /\ \A r, s \in scenario.runs : r = s
  /\ scenario.commands \subseteq {"all_on", "all_off"}
  /\ scenario.faults \subseteq {"spawn_fail", "slow_start", "pid_reuse"}

\* p, which may still be starting, is the only diagnostic process of g and nobody ends it.
Sole(p, g) ==
  /\ AliveDiag(p) /\ ~proc[p].term /\ proc[p].gpio = g
  /\ \A q \in Pids : AliveDiag(q) /\ proc[q].gpio = g => q = p
Owned(g) == pidfile[g] # None /\ Sole(pidfile[g], g)
AllNone == \A g \in Lines : pidfile[g] = None
AllOwned == \A g \in Lines : Owned(g)

\* Every diagnostic process is the one run s has just started or is in its pid file.
Fresh(s) == \A q \in Pids : AliveDiag(q) => q = s.cur \/ pidfile[proc[q].gpio] = q

OwnersKnown == \A p \in Pids : Alive(p) => proc[p].owner # "none"
DiagLocked == \A p \in Pids : AliveDiag(p) => p \in lockHolders
AgentWaits == agentUp /\ \A t \in Threads : thread[t].pc \notin {"stop", "stopping"}

\* Between commands all lines are owned or none is; a run that starts lines has
\* the lock, or has nothing to start.
WholeShape(r) ==
  LET s == run[r] IN
  /\ s.pc = "idle" => AllNone \/ AllOwned
  /\ s.pc \in {"scan", "scan_unlink"} =>
       \/ AllNone /\ s.active = {}
       \/ AllOwned /\ s.pc = "scan" /\ \A g \in Lines : g \in s.active \/ In(g, s.todo)
  /\ s.pc \in {"spawn", "poll", "record"} =>
       \/ /\ s.active = {} /\ r \in lockHolders /\ Fresh(s)
          /\ s.pc = "record" => AliveDiag(s.cur)
          /\ \A g \in Lines : \/ pidfile[g] = None /\ In(g, s.todo)
                              \/ Owned(g) /\ In(g, s.started)
       \/ s.active = Lines /\ s.pc = "spawn" /\ AllOwned
  /\ s.pc \in Reading \cup Ending => \A g \in Lines : Kept(g, s)
  /\ s.pc # "finish"
Whole == \A r \in scenario.runs : WholeShape(r)

AllInv == AllCommands => OwnersKnown /\ DiagLocked /\ AgentWaits /\ Whole
-----------------------------------------------------------------------------
(* Lists of lines and owners                                               *)

LEMMA InEmpty == \A g : ~In(g, <<>>)
  BY DEF In

LEMMA InTail ==
  ASSUME NEW S, NEW s \in Seq(S), s # <<>>, NEW g
  PROVE  In(g, s) <=> g = Head(s) \/ In(g, Tail(s))
  <1>1. /\ Len(s) \in Nat /\ Len(s) # 0 /\ Head(s) = s[1]
        /\ Len(Tail(s)) = Len(s) - 1 /\ \A i \in 1..Len(Tail(s)) : Tail(s)[i] = s[i + 1]
    BY HeadTailProperties, LenProperties, EmptySeq
  <1>2. ASSUME NEW i \in 1..Len(s), s[i] = g
        PROVE  g = Head(s) \/ In(g, Tail(s))
    <2>1. CASE i = 1
      BY <1>1, <1>2, <2>1
    <2>2. CASE i # 1
      <3>1. i - 1 \in 1..Len(Tail(s)) /\ Tail(s)[i - 1] = s[(i - 1) + 1] /\ (i - 1) + 1 = i
        BY <1>1, <2>2
      <3> QED BY <1>2, <3>1 DEF In
    <2> QED BY <2>1, <2>2
  <1>3. ASSUME NEW i \in 1..Len(Tail(s)), Tail(s)[i] = g
        PROVE  In(g, s)
    <2>1. i + 1 \in 1..Len(s) /\ s[i + 1] = g
      BY <1>1, <1>3
    <2> QED BY <2>1 DEF In
  <1>4. 1 \in 1..Len(s)
    BY <1>1
  <1> QED BY <1>1, <1>2, <1>3, <1>4 DEF In

LEMMA InAppend ==
  ASSUME NEW S, NEW s \in Seq(S), NEW x \in S, NEW g
  PROVE  In(g, Append(s, x)) <=> In(g, s) \/ g = x
  <1>1. /\ Len(s) \in Nat /\ Len(Append(s, x)) = Len(s) + 1
        /\ \A i \in 1..Len(s) : Append(s, x)[i] = s[i]
        /\ Append(s, x)[Len(s) + 1] = x
    BY AppendProperties, LenProperties
  <1>2. \A i : i \in 1..Len(Append(s, x)) <=> i \in 1..Len(s) \/ i = Len(s) + 1
    BY <1>1
  <1> QED BY <1>1, <1>2 DEF In

LEMMA InTargets ==
  /\ \A g \in Lines : In(g, DIAGNOSTIC_GPIOS) /\ In(g, Targets("all_on")) /\ In(g, Targets("all_off"))
  /\ \A c, g : (\E i \in DOMAIN Targets(c) : Targets(c)[i] = g) => In(g, Targets(c))
  <1>1. /\ Len(DIAGNOSTIC_GPIOS) = 2 /\ DIAGNOSTIC_GPIOS[1] = "gpio17"
        /\ DIAGNOSTIC_GPIOS[2] = "gpio18"
    BY DEF DIAGNOSTIC_GPIOS
  <1>2. \A g \in Lines : In(g, DIAGNOSTIC_GPIOS)
    BY <1>1 DEF In, Lines
  <1>3. Targets("all_on") = DIAGNOSTIC_GPIOS /\ Targets("all_off") = DIAGNOSTIC_GPIOS
    BY DEF Targets
  <1>4. \A c : DOMAIN Targets(c) = 1..Len(Targets(c))
    BY TargetsType, LenProperties
  <1> QED BY <1>2, <1>3, <1>4 DEF In

LEMMA ListTail ==
  ASSUME NEW s \in LineLists, s # <<>>
  PROVE  Tail(s) \in LineLists /\ ~In(Head(s), Tail(s))
  <1>1. ASSUME NEW x, s = <<x>>
        PROVE  Tail(s) = <<>>
    BY <1>1
  <1>2. CASE s = <<"gpio17">> \/ s = <<"gpio18">>
    BY <1>1, <1>2, InEmpty DEF LineLists
  <1>3. CASE s = DIAGNOSTIC_GPIOS
    <2>1. Tail(s) = <<"gpio18">> /\ Head(s) = "gpio17"
      BY <1>3 DEF DIAGNOSTIC_GPIOS
    <2>2. ~In("gpio17", <<"gpio18">>)
      BY DEF In
    <2> QED BY <2>1, <2>2 DEF LineLists
  <1> QED BY <1>2, <1>3 DEF LineLists

LEMMA TargetsAreLists == \A c : Targets(c) \in LineLists
  BY DEF Targets, LineLists, DIAGNOSTIC_GPIOS

LEMMA RunFacts ==
  ASSUME TypeOK, NEW r \in Runs
  PROVE  /\ run[r] \in RunStates /\ RunShape(run[r])
         /\ run[r].todo \in Seq(Lines) /\ run[r].started \in Seq(Lines)
         /\ run[r].owners \in Seq(Owners) /\ run[r].active \subseteq Lines
         /\ run[r].todo # <<>> =>
              Head(run[r].todo) \in Lines /\ Tail(run[r].todo) \in Seq(Lines)
         /\ run[r].owners # <<>> =>
              /\ Head(run[r].owners) \in Owners /\ Tail(run[r].owners) \in Seq(Owners)
              /\ Head(run[r].owners).gpio \in Lines /\ Head(run[r].owners).pid \in Pids
         /\ run[r].pc \in {"poll", "record"} => run[r].cur \in Pids
         /\ run[r].pc \notin {"poll", "record"} => run[r].cur = None
  <1>1. /\ run[r] \in RunStates /\ RunShape(run[r])
        /\ run[r].todo \in Seq(Lines) /\ run[r].started \in Seq(Lines)
        /\ run[r].owners \in Seq(Owners) /\ run[r].active \subseteq Lines
    BY DEF TypeOK, RunStates
  <1>2. ASSUME run[r].owners # <<>>
        PROVE  Head(run[r].owners) \in Owners /\ Tail(run[r].owners) \in Seq(Owners)
    BY <1>1, <1>2, HeadTailProperties
  <1>3. \A o \in Owners : o.gpio \in Lines /\ o.pid \in Pids
    BY DEF Owners
  <1>4. ASSUME run[r].todo # <<>>
        PROVE  Head(run[r].todo) \in Lines /\ Tail(run[r].todo) \in Seq(Lines)
    BY <1>1, <1>4, HeadTailProperties
  <1>5. /\ run[r].pc \in {"poll", "record"} => run[r].cur \in Pids
        /\ run[r].pc \notin {"poll", "record"} => run[r].cur = None
    BY <1>1 DEF RunShape, RunStates
  <1> QED BY <1>1, <1>2, <1>3, <1>4, <1>5

-----------------------------------------------------------------------------
(* Steps that are not a command's                                          *)

EnvStep ==
  \/ \E p \in Pids : ProcRequest(p) \/ ProcToggle(p) \/ ProcEnd(p)
  \/ \E t \in Threads : AgentStep(t) \/ \E g \in Lines : A_Begin(t, g)
  \/ AgentCrash \/ AgentRestart

CommandStep(r) == RunStep(r) \/ D_Killed(r) \/ \E c \in OnCommands \cup OffCommands : D_Start(r, c)

\* They start no diagnostic process and change one only by letting it take its
\* line or end; a process that drives its line ends by itself or when signalled.
SameDiag ==
  /\ \A q \in Pids : AliveDiag(q)' =>
       /\ AliveDiag(q) /\ proc'[q].gpio = proc[q].gpio /\ proc'[q].term = proc[q].term
       /\ proc[q].st = "driving" => proc'[q].st = "driving"
  /\ \A q \in Pids : Alive(q)' /\ (\E r \in Runs : run[r].cur = q) /\ (Alive(q) => AliveDiag(q)) =>
       AliveDiag(q)'
  /\ \A q \in Pids :
       AliveDiag(q) /\ proc[q].st = "driving" /\ ~proc[q].term /\ ~May("die") => proc'[q] = proc[q]
  /\ \A q \in Pids :
       proc[q].st = "driving" =>
         level'[proc[q].gpio] = level[proc[q].gpio] \/ level'[proc[q].gpio] = "inactive"
  /\ UNCHANGED <<run, pidfile, stateDir>>

LEMMA ProcSameDiag ==
  ASSUME TypeOK, NEW p \in Pids, ProcRequest(p) \/ ProcToggle(p) \/ ProcEnd(p)
  PROVE  SameDiag
  <1> USE DEF TypeOK, ProcStates, NoProc, AliveDiag, Alive, SameDiag
  <1>1. CASE ProcRequest(p)
    BY <1>1 DEF ProcRequest
  <1>2. CASE ProcToggle(p)
    BY <1>2 DEF ProcToggle
  <1>3. CASE ProcEnd(p)
    BY <1>3 DEF ProcEnd
  <1> QED BY <1>1, <1>2, <1>3

LEMMA AgentSameDiag ==
  ASSUME TypeOK, ChildIsAgents, EnvStep,
         \A p \in Pids : ~(ProcRequest(p) \/ ProcToggle(p) \/ ProcEnd(p))
  PROVE  SameDiag
  <1> USE DEF TypeOK, AliveDiag, Alive
  <1>1. ASSUME UNCHANGED <<proc, level, run, pidfile, stateDir>>
        PROVE  SameDiag
    BY <1>1 DEF SameDiag
  <1>2. ASSUME NEW t \in Threads, A_Spawn(t)
        PROVE  SameDiag
    <2>1. CASE UNCHANGED proc
      BY <1>1, <1>2, <2>1 DEF A_Spawn
    <2>2. ASSUME NEW p \in Pids, FreePid(p),
                 proc' = [proc EXCEPT ![p] = Spawned("agent", thread[t].gpio)]
          PROVE  SameDiag
      BY <1>2, <2>2 DEF A_Spawn, FreePid, Spawned, SameDiag
    <2> QED BY <1>2, <2>1, <2>2 DEF A_Spawn
  <1>3. ASSUME NEW t \in Threads, A_Terminate(t)
        PROVE  SameDiag
    <2>1. thread[t].child \in Pids /\ ~AliveDiag(thread[t].child)
      BY <1>3 DEF A_Terminate, ThreadStates, ChildIsAgents
    <2> QED BY <1>3, <2>1 DEF A_Terminate, Signal, ProcStates, SameDiag
  <1>4. ASSUME NEW t \in Threads, AgentStep(t) \/ \E g \in Lines : A_Begin(t, g)
        PROVE  SameDiag
    BY <1>1, <1>2, <1>3, <1>4
    DEF AgentStep, A_Begin, A_Lock, A_Reap, A_Timeout, A_Stopped
  <1>5. ASSUME AgentCrash \/ AgentRestart
        PROVE  SameDiag
    BY <1>1, <1>5 DEF AgentCrash, AgentRestart
  <1> QED BY <1>4, <1>5 DEF EnvStep

LEMMA EnvSameDiag ==
  ASSUME TypeOK, ChildIsAgents, EnvStep
  PROVE  SameDiag
  <1> QED BY ProcSameDiag, AgentSameDiag

\* ... so they keep what is known of the runs and of the processes.
LEMMA EnvKeepsOrderly ==
  ASSUME TypeOK, OnlyScenarioRuns, OrderlyCommands, Orderly, SameDiag, UNCHANGED scenario
  PROVE  Orderly'
  <1>0. Slow' <=> Slow
    BY DEF Slow, May
  <1>1. Driving'
    BY <1>0 DEF Orderly, Driving, SameDiag
  <1>2. ~May("die")
    BY DEF OrderlyCommands, May
  <1>3. NamedOrEnded'
    <2> SUFFICES ASSUME NEW p \in Pids, AliveDiag(p)'
                 PROVE  \/ pidfile'[proc'[p].gpio] = p
                        \/ proc'[p].term /\ (Slow \/ level'[proc'[p].gpio] = "inactive")
                        \/ \E r \in Runs : run'[r].cur = p
      BY <1>0 DEF NamedOrEnded
    <2>1. AliveDiag(p) /\ proc'[p].gpio = proc[p].gpio /\ proc'[p].term = proc[p].term
      BY DEF SameDiag
    <2>2. CASE pidfile[proc[p].gpio] = p \/ \E r \in Runs : run[r].cur = p
      BY <2>1, <2>2 DEF SameDiag
    <2>3. CASE proc[p].st = "driving" /\ proc[p].term /\ level[proc[p].gpio] = "inactive"
      BY <2>1, <2>3 DEF SameDiag
    <2>4. CASE Slow /\ proc[p].term
      BY <2>1, <2>4
    <2> QED BY <2>1, <2>2, <2>3, <2>4 DEF Orderly, NamedOrEnded, Driving
  <1>4. ASSUME NEW r \in Runs
        PROVE  Shape(run[r])'
    <2> DEFINE s == run[r]
    <2>1. Shape(s) /\ run'[r] = s /\ s \in RunStates /\ RunShape(s)
      BY DEF Orderly, SameDiag, TypeOK
    <2>2. \A g \in Lines : ~IsOwner(pidfile[g]) => ~IsOwner(pidfile[g])'
      BY DEF TypeOK, IsOwner, SameDiag
    <2>3. ASSUME s.pc \in {"scan_unlink", "read_unlink"}
          PROVE  Head(s.todo) \in Lines
      BY <2>1, <2>3, RunFacts DEF RunShape
    <2>4. ASSUME s.pc \in {"poll", "record"}
          PROVE  s.cur \in Pids
      BY <2>1, <2>4 DEF RunShape, RunStates
    <2>5. ASSUME s.pc \in {"poll", "record"}, Alive(s.cur)'
          PROVE  AliveDiag(s.cur)' /\ ~proc'[s.cur].term /\ proc'[s.cur].gpio = Head(s.todo)
      <3>1. AliveDiag(s.cur)'
        BY <2>1, <2>4, <2>5 DEF Shape, StartShape, SameDiag
      <3>2. AliveDiag(s.cur)
        BY <2>4, <2>5, <3>1 DEF SameDiag
      <3> QED BY <2>1, <2>4, <2>5, <3>1, <3>2 DEF Shape, StartShape, SameDiag, AliveDiag
    <2>6. ASSUME s.pc = "record", ~Slow
          PROVE  proc'[s.cur].st = "driving"
      <3>1. Alive(s.cur) /\ proc[s.cur].st = "driving"
        BY <2>1, <2>6 DEF Shape, StartShape, Alive
      <3>2. AliveDiag(s.cur) /\ ~proc[s.cur].term
        BY <2>1, <2>6, <3>1 DEF Shape, StartShape
      <3> QED BY <1>2, <2>4, <2>6, <3>1, <3>2 DEF SameDiag
    <2>7. StartShape(s)'
      BY <1>0, <2>1, <2>2, <2>3, <2>5, <2>6 DEF Shape, StartShape, SameDiag
    <2>8. ASSUME s.pc \in Ending, NEW g \in Lines, LowLine(g)
          PROVE  LowLine(g)'
      <3> SUFFICES ASSUME ~Slow, NEW p \in Pids, AliveDiag(p)', proc'[p].gpio = g
                   PROVE  level'[g] = "inactive"
        BY <1>0 DEF LowLine
      <3>1. AliveDiag(p) /\ proc[p].gpio = g
        BY DEF SameDiag
      <3>2. \A q \in Runs : run[q].pc # "poll"
        BY <2>8 DEF OnlyScenarioRuns, OrderlyCommands, Ending
      <3>3. proc[p].st = "driving"
        BY <3>1, <3>2 DEF Orderly, Driving
      <3> QED BY <2>8, <3>1, <3>3 DEF SameDiag, LowLine
    <2>9. ASSUME s.pc = "kill_unlink"
          PROVE  Head(s.owners).pid \in Pids
      BY <2>1, <2>9, RunFacts DEF RunShape
    <2>10. StopShape(s)'
      BY <2>1, <2>8, <2>9 DEF Shape, StopShape, SameDiag, Noted
    <2>11. OffShape(s)'
      BY <2>1 DEF Shape, OffShape, SameDiag, Kept, Noted
    <2> QED BY <2>1, <2>7, <2>10, <2>11 DEF Shape
  <1> QED BY <1>1, <1>3, <1>4 DEF Orderly

-----------------------------------------------------------------------------
(* Steps of the one command that runs                                      *)

\* One command at a time: when r runs, every other run is idle. No step changes what
\* may happen.
Fine(r) ==
  /\ TypeOK /\ OnlyScenarioRuns /\ OrderlyCommands /\ Orderly /\ Scanned
  /\ r \in Runs /\ r \in scenario.runs /\ (Slow' <=> Slow)

LEMMA SlowSame == ASSUME NEW r, Fine(r) PROVE Slow' <=> Slow
  BY DEF Fine

LEMMA OthersIdle ==
  ASSUME NEW r, Fine(r), NEW q \in Runs, q # r
  PROVE  run[q].pc = "idle" /\ run[q].cur = None
  <1>1. run[q].pc = "idle"
    BY DEF Fine, OnlyScenarioRuns, OrderlyCommands
  <1> QED BY <1>1, RunFacts DEF Fine

LEMMA RunKeeps ==
  ASSUME NEW r, Fine(r), \A q \in Runs \ {r} : run'[q] = run[q],
         Shape(run[r])', Driving', NamedOrEnded'
  PROVE  Orderly'
  <1>1. ASSUME NEW q \in Runs, q # r
        PROVE  Shape(run[q])'
    <2>1. run'[q].pc = "idle"
      BY <1>1, OthersIdle
    <2> QED BY <2>1 DEF Shape, StartShape, StopShape, OffShape, Starting, Reading, Ending
  <1> QED BY <1>1 DEF Orderly

\* A step that starts and signals nothing and leaves the pid files alone.
LEMMA NamesKeep ==
  ASSUME NEW r, Fine(r), UNCHANGED <<proc, pidfile>>,
         \A q \in Runs \ {r} : run'[q] = run[q],
         \A g \in Lines : level'[g] = level[g] \/ level'[g] = "inactive",
         \/ run'[r].cur = run[r].cur /\ (run[r].pc = "poll" => Slow \/ proc[run[r].cur].st = "driving")
         \/ run[r].cur \in Pids => ~Alive(run[r].cur)
  PROVE  Driving' /\ NamedOrEnded'
  <1>1. Driving /\ NamedOrEnded /\ r \in Runs /\ proc \in [Pids -> ProcStates]
    BY DEF Fine, Orderly, TypeOK
  <1>2. \A p \in Pids : AliveDiag(p)' = AliveDiag(p) /\ proc[p].gpio \in Lines
    BY <1>1 DEF AliveDiag, Alive, ProcStates
  <1>3. Driving'
    BY <1>1, <1>2, SlowSame DEF Driving, AliveDiag
  <1>4. NamedOrEnded'
    BY <1>1, <1>2, SlowSame DEF NamedOrEnded, AliveDiag
  <1> QED BY <1>3, <1>4

\* A pid file that names no owner is not missed.
LEMMA UnlinkKeeps ==
  ASSUME NEW r, Fine(r), UNCHANGED <<proc, level>>, NEW g \in Lines,
         pidfile' = [pidfile EXCEPT ![g] = None], ~IsOwner(pidfile[g]),
         \A q \in Runs \ {r} : run'[q] = run[q],
         run'[r].cur = run[r].cur, run[r].pc # "poll"
  PROVE  Driving' /\ NamedOrEnded'
  <1>1. Driving /\ NamedOrEnded /\ r \in Runs /\ pidfile \in [Lines -> Pids \cup {None}]
    BY DEF Fine, Orderly, TypeOK
  <1>2. \A p \in Pids : AliveDiag(p)' = AliveDiag(p) /\ (pidfile[g] = p => ~AliveDiag(p))
    BY ConstantsAssumption DEF AliveDiag, Alive, IsOwner
  <1>3. Driving'
    BY <1>1, <1>2, SlowSame DEF Driving
  <1>4. \A h \in Lines : h # g => pidfile'[h] = pidfile[h]
    BY <1>1
  <1>5. \A p \in Pids : proc[p].gpio \in Lines
    BY DEF Fine, TypeOK, ProcStates
  <1>6. NamedOrEnded'
    BY <1>1, <1>2, <1>4, <1>5, SlowSame DEF NamedOrEnded
  <1> QED BY <1>3, <1>6

\* The record a run has after the failure of a start.
LEMMA AbortShape ==
  ASSUME NEW r, Fine(r), Abort(r), run[r].pc \in Starting
  PROVE  /\ \A q \in Runs \ {r} : run'[q] = run[q]
         /\ Shape(run[r])'
         /\ run'[r].cur = None /\ run'[r].pc = "read" /\ run'[r].todo = run[r].started
  <1>1. /\ run[r] \in RunStates /\ run \in [Runs -> RunStates] /\ r \in Runs
        /\ run[r].cmd \in OnCommands
    BY DEF Fine, TypeOK, Orderly, Shape, StartShape
  <1>2. /\ run'[r].pc = "read" /\ run'[r].owners = <<>> /\ run'[r].cmd \in OnCommands
        /\ run'[r].cur = None /\ run'[r].todo = run[r].started
    BY <1>1 DEF Abort, RunStates
  <1>3. run'[r].cmd \notin OffCommands
    BY <1>2 DEF OnCommands, OffCommands
  <1>4. Shape(run[r])'
    BY <1>2, <1>3, InEmpty
    DEF Shape, StartShape, StopShape, OffShape, Starting, Reading, Ending
  <1> QED BY <1>1, <1>2, <1>4 DEF Abort

LEMMA StartKeeps ==
  ASSUME NEW r, Fine(r), NEW c \in OnCommands \cup OffCommands, D_Start(r, c)
  PROVE  Orderly'
  <1>1. run \in [Runs -> RunStates] /\ r \in Runs
    BY DEF Fine, TypeOK
  <1>2. /\ \A q \in Runs \ {r} : run'[q] = run[q]
        /\ run[r].pc = "idle" /\ UNCHANGED <<proc, pidfile, level>>
        /\ run'[r].cmd = c /\ run'[r].owners = <<>> /\ run'[r].cur = None
        /\ \/ c \in OnCommands /\ run'[r].pc = "scan" /\ stateDir' = TRUE
           \/ c \in OffCommands /\ run'[r].pc = "read" /\ run'[r].todo = Targets(c)
    <2> DEFINE on == [IdleRun EXCEPT !.cmd = c, !.pc = "scan", !.todo = DIAGNOSTIC_GPIOS]
               off == [IdleRun EXCEPT !.cmd = c, !.pc = "read", !.todo = Targets(c)]
    <2>1. /\ on.cmd = c /\ on.owners = <<>> /\ on.cur = None /\ on.pc = "scan"
          /\ off.cmd = c /\ off.owners = <<>> /\ off.cur = None /\ off.pc = "read"
          /\ off.todo = Targets(c)
      BY DEF IdleRun
    <2>2. /\ run[r].pc = "idle" /\ UNCHANGED <<proc, pidfile, level>>
          /\ \/ c \in OnCommands /\ run' = [run EXCEPT ![r] = on] /\ stateDir' = TRUE
             \/ c \in OffCommands /\ run' = [run EXCEPT ![r] = off]
      BY DEF D_Start
    <2> HIDE DEF on, off
    <2>3. CASE c \in OnCommands /\ run' = [run EXCEPT ![r] = on] /\ stateDir' = TRUE
      BY <1>1, <2>1, <2>2, <2>3
    <2>4. CASE c \in OffCommands /\ run' = [run EXCEPT ![r] = off]
      BY <1>1, <2>1, <2>2, <2>4
    <2> QED BY <2>2, <2>3, <2>4
  <1>3. run[r].cur = None
    BY <1>1, <1>2, RunFacts DEF Fine
  <1>4. Driving' /\ NamedOrEnded'
    BY <1>2, <1>3, NamesKeep
  <1>5. Shape(run[r])'
    BY <1>2, InEmpty
    DEF Shape, StartShape, StopShape, OffShape, Kept, Starting, Reading, Ending
  <1> QED BY <1>2, <1>4, <1>5, RunKeeps

LEMMA ScanKeeps ==
  ASSUME NEW r, Fine(r), D_Scan(r)
  PROVE  Orderly'
  <1>1. run \in [Runs -> RunStates] /\ run[r] \in RunStates /\ r \in Runs /\ Shape(run[r])
    BY DEF Fine, TypeOK, Orderly
  <1>2. /\ \A q \in Runs \ {r} : run'[q] = run[q]
        /\ run[r].pc = "scan" /\ UNCHANGED <<proc, pidfile, level, stateDir>>
        /\ run'[r].cmd = run[r].cmd /\ run'[r].cur = run[r].cur
        /\ \/ run'[r].pc = "scan"
           \/ /\ run'[r].pc = "scan_unlink" /\ run'[r].todo = run[r].todo
              /\ ~IsOwner(pidfile[Head(run[r].todo)])
    BY <1>1 DEF D_Scan, RunStates
  <1>3. Driving' /\ NamedOrEnded'
    BY <1>2, NamesKeep
  <1>4. Shape(run[r])'
    BY <1>1, <1>2
    DEF Shape, StartShape, StopShape, OffShape, Starting, Reading, Ending, IsOwner, AliveDiag, Alive
  <1> QED BY <1>2, <1>3, <1>4, RunKeeps

LEMMA ScanUnlinkKeeps ==
  ASSUME NEW r, Fine(r), D_ScanUnlink(r)
  PROVE  Orderly'
  <1>1. run \in [Runs -> RunStates] /\ run[r] \in RunStates /\ r \in Runs /\ Shape(run[r])
    BY DEF Fine, TypeOK, Orderly
  <1>2. /\ \A q \in Runs \ {r} : run'[q] = run[q]
        /\ run[r].pc = "scan_unlink" /\ UNCHANGED <<proc, level, stateDir>>
        /\ pidfile' = [pidfile EXCEPT ![Head(run[r].todo)] = None]
        /\ run'[r].cmd = run[r].cmd /\ run'[r].cur = run[r].cur /\ run'[r].pc = "scan"
    BY <1>1 DEF D_ScanUnlink, RunStates
  <1>3. Head(run[r].todo) \in Lines /\ ~IsOwner(pidfile[Head(run[r].todo)])
    BY <1>1, <1>2, RunFacts DEF Fine, RunShape, Shape, StartShape
  <1>4. Driving' /\ NamedOrEnded'
    BY <1>2, <1>3, UnlinkKeeps
  <1>5. Shape(run[r])'
    BY <1>1, <1>2 DEF Shape, StartShape, StopShape, OffShape, Starting, Reading, Ending
  <1> QED BY <1>2, <1>4, <1>5, RunKeeps

LEMMA LockKeeps ==
  ASSUME NEW r, Fine(r), D_Lock(r)
  PROVE  Orderly'
  <1>1. run \in [Runs -> RunStates] /\ run[r] \in RunStates /\ r \in Runs /\ Shape(run[r])
    BY DEF Fine, TypeOK, Orderly
  <1>2. run[r].pc = "scan" /\ UNCHANGED <<proc, pidfile, level, stateDir>> /\ run[r].cur = None
    BY <1>1, RunFacts DEF D_Lock, Fine
  <1>3. CASE Abort(r)
    <2>1. Driving' /\ NamedOrEnded'
      BY <1>2, <1>3, AbortShape, NamesKeep DEF Starting
    <2> QED BY <1>2, <1>3, <2>1, AbortShape, RunKeeps DEF Starting
  <1>4. CASE run' = [run EXCEPT ![r].pc = "spawn", ![r].todo = Targets(run[r].cmd)]
    <2>1. /\ \A q \in Runs \ {r} : run'[q] = run[q]
          /\ run'[r].pc = "spawn" /\ run'[r].cur = run[r].cur /\ run'[r].cmd = run[r].cmd
      BY <1>1, <1>4 DEF RunStates
    <2>2. Driving' /\ NamedOrEnded'
      BY <1>2, <2>1, NamesKeep
    <2>3. Shape(run[r])'
      BY <1>1, <1>2, <2>1 DEF Shape, StartShape, StopShape, OffShape, Starting, Reading, Ending
    <2> QED BY <2>1, <2>2, <2>3, RunKeeps
  <1> QED BY <1>3, <1>4 DEF D_Lock

LEMMA SkipKeeps ==
  ASSUME NEW r, Fine(r), D_Skip(r)
  PROVE  Orderly'
  <1>1. run \in [Runs -> RunStates] /\ run[r] \in RunStates /\ r \in Runs /\ Shape(run[r])
    BY DEF Fine, TypeOK, Orderly
  <1>2. /\ \A q \in Runs \ {r} : run'[q] = run[q]
        /\ run[r].pc = "spawn" /\ UNCHANGED <<proc, pidfile, level, stateDir>>
        /\ run'[r].cmd = run[r].cmd /\ run'[r].cur = run[r].cur /\ run'[r].pc = "spawn"
    BY <1>1 DEF D_Skip, RunStates
  <1>3. Driving' /\ NamedOrEnded'
    BY <1>2, NamesKeep
  <1>4. Shape(run[r])'
    BY <1>1, <1>2 DEF Shape, StartShape, StopShape, OffShape, Starting, Reading, Ending
  <1> QED BY <1>2, <1>3, <1>4, RunKeeps

LEMMA SpawnKeeps ==
  ASSUME NEW r, Fine(r), D_Spawn(r)
  PROVE  Orderly'
  <1>1. /\ run \in [Runs -> RunStates] /\ run[r] \in RunStates /\ r \in Runs /\ Shape(run[r])
        /\ proc \in [Pids -> ProcStates] /\ Driving /\ NamedOrEnded
    BY DEF Fine, TypeOK, Orderly
  <1>2. run[r].pc = "spawn" /\ UNCHANGED <<pidfile, level, stateDir>> /\ run[r].cur = None
    BY <1>1, RunFacts DEF D_Spawn, Fine
  <1>3. CASE Abort(r) /\ UNCHANGED proc
    <2>1. Driving' /\ NamedOrEnded'
      BY <1>2, <1>3, AbortShape, NamesKeep DEF Starting
    <2> QED BY <1>2, <1>3, <2>1, AbortShape, RunKeeps DEF Starting
  <1>4. ASSUME NEW p \in Pids, ~Alive(p),
               proc' = [proc EXCEPT ![p] = Spawned("diag", Head(run[r].todo))],
               run' = [run EXCEPT ![r].pc = "poll", ![r].cur = p]
        PROVE  Orderly'
    <2>1. /\ \A q \in Runs \ {r} : run'[q] = run[q]
          /\ run'[r].pc = "poll" /\ run'[r].cur = p /\ run'[r].cmd = run[r].cmd
          /\ run'[r].todo = run[r].todo
      BY <1>1, <1>4 DEF RunStates
    <2>2. /\ AliveDiag(p)' /\ ~proc'[p].term /\ proc'[p].gpio = Head(run[r].todo)
          /\ \A q \in Pids \ {p} : proc'[q] = proc[q] /\ AliveDiag(q)' = AliveDiag(q)
      BY <1>1, <1>4 DEF Spawned, AliveDiag, Alive
    <2>3. Driving'
      BY <1>1, <1>2, <2>1, <2>2, SlowSame DEF Driving
    <2>4. NamedOrEnded'
      BY <1>1, <1>2, <2>1, <2>2, SlowSame, ConstantsAssumption DEF NamedOrEnded
    <2>5. Shape(run[r])'
      BY <1>1, <1>2, <2>1, <2>2
      DEF Shape, StartShape, StopShape, OffShape, Starting, Reading, Ending
    <2> QED BY <2>1, <2>3, <2>4, <2>5, RunKeeps
  <1> QED BY <1>3, <1>4 DEF D_Spawn, FreePid

LEMMA PollKeeps ==
  ASSUME NEW r, Fine(r), D_Poll(r)
  PROVE  Orderly'
  <1>1. /\ run \in [Runs -> RunStates] /\ run[r] \in RunStates /\ r \in Runs /\ Shape(run[r])
        /\ proc \in [Pids -> ProcStates]
    BY DEF Fine, TypeOK, Orderly
  <1>2. /\ run[r].pc = "poll" /\ UNCHANGED <<proc, pidfile, level, stateDir>>
        /\ run[r].cur \in Pids /\ (Slow \/ proc[run[r].cur].st # "starting")
    BY <1>1, RunFacts DEF D_Poll, Fine, Slow
  <1>3. CASE Abort(r) /\ ~Alive(run[r].cur)
    <2>1. Driving' /\ NamedOrEnded'
      BY <1>2, <1>3, AbortShape, NamesKeep DEF Starting
    <2> QED BY <1>2, <1>3, <2>1, AbortShape, RunKeeps DEF Starting
  <1>4. CASE run' = [run EXCEPT ![r].pc = "record"] /\ Alive(run[r].cur)
    <2>1. /\ \A q \in Runs \ {r} : run'[q] = run[q]
          /\ run'[r].pc = "record" /\ run'[r].cur = run[r].cur /\ run'[r].cmd = run[r].cmd
          /\ run'[r].todo = run[r].todo
      BY <1>1, <1>4 DEF RunStates
    <2>2. Slow \/ proc[run[r].cur].st = "driving"
      BY <1>1, <1>2, <1>4 DEF Alive, ProcStates
    <2>3. Driving' /\ NamedOrEnded'
      BY <1>2, <2>1, <2>2, NamesKeep
    <2>4. Shape(run[r])'
      BY <1>1, <1>2, <2>1, <2>2, SlowSame
      DEF Shape, StartShape, StopShape, OffShape, Starting, Reading, Ending, AliveDiag, Alive
    <2> QED BY <2>1, <2>3, <2>4, RunKeeps
  <1> QED BY <1>3, <1>4 DEF D_Poll

\* The line had no pid file, so nothing else that is to be found again is on it.
LEMMA RecordKeeps ==
  ASSUME NEW r, Fine(r), D_Record(r)
  PROVE  Orderly'
  <1> DEFINE g == Head(run[r].todo)
             p == run[r].cur
  <1>1. /\ run \in [Runs -> RunStates] /\ run[r] \in RunStates /\ r \in Runs /\ Shape(run[r])
        /\ pidfile \in [Lines -> Pids \cup {None}] /\ Driving /\ NamedOrEnded
        /\ \A q \in Pids : proc[q].gpio \in Lines
    BY DEF Fine, TypeOK, Orderly, ProcStates
  <1>2. /\ run[r].pc = "record" /\ UNCHANGED <<proc, level, stateDir>>
        /\ p \in Pids /\ g \in Lines /\ stateDir /\ ~May("write_fail")
    BY <1>1, RunFacts
    DEF D_Record, Fine, RunShape, Shape, StartShape, Starting, OrderlyCommands, May
  <1>3. /\ pidfile' = [pidfile EXCEPT ![g] = p]
        /\ run' = [run EXCEPT ![r].pc = "spawn", ![r].todo = Tail(@), ![r].cur = None,
                              ![r].started = Append(@, g)]
    BY <1>2 DEF D_Record
  <1>4. /\ \A q \in Runs \ {r} : run'[q] = run[q]
        /\ run'[r].pc = "spawn" /\ run'[r].cur = None /\ run'[r].cmd = run[r].cmd
    BY <1>1, <1>3 DEF RunStates
  <1>5. pidfile[g] = None
    <2>1. run[r].todo \in Seq(Lines) /\ run[r].todo # <<>>
      BY <1>1, <1>2, RunFacts DEF Fine, RunShape
    <2>2. In(g, run[r].todo)
      BY <2>1, InTail
    <2> QED BY <1>1, <1>2, <2>2 DEF Fine, Scanned, ScanShape
  <1>6. AliveDiag(p) => proc[p].gpio = g
    BY <1>1, <1>2 DEF Shape, StartShape, AliveDiag
  <1> HIDE DEF g
  <1>7. Driving'
    <2> SUFFICES ASSUME ~Slow, NEW q \in Pids, AliveDiag(q)
                 PROVE  proc[q].st = "driving"
      BY <1>2, SlowSame DEF Driving, AliveDiag, Alive
    <2>1. \A x \in Runs : run[x].pc # "poll" \/ run[x].cur # q
      BY <1>2, OthersIdle
    <2> QED BY <1>1, <2>1 DEF Driving
  <1>8. ASSUME NEW q \in Pids, AliveDiag(q)
        PROVE  \/ pidfile'[proc[q].gpio] = q
               \/ proc[q].term /\ (Slow \/ level[proc[q].gpio] = "inactive")
    <2>1. CASE q = p
      BY <1>1, <1>2, <1>3, <1>6, <1>8, <2>1
    <2>2. CASE q # p
      <3>1. pidfile[proc[q].gpio] = q => pidfile'[proc[q].gpio] = q
        BY <1>1, <1>2, <1>3, <1>5, ConstantsAssumption
      <3>2. \A x \in Runs : run[x].cur # q
        BY <2>2, OthersIdle, ConstantsAssumption
      <3> QED BY <1>1, <1>8, <3>1, <3>2 DEF NamedOrEnded
    <2> QED BY <2>1, <2>2
  <1>9. NamedOrEnded'
    BY <1>2, <1>8, SlowSame DEF NamedOrEnded, AliveDiag, Alive
  <1>10. Shape(run[r])'
    BY <1>1, <1>2, <1>4 DEF Shape, StartShape, StopShape, OffShape, Starting, Reading, Ending
  <1> HIDE DEF p
  <1> QED BY <1>4, <1>7, <1>9, <1>10, RunKeeps

\* A stop loses no line: what it had to look at is noted or has no pid file.
LEMMA ReadKept ==
  ASSUME TypeOK, NEW r \in Runs, D_Read(r) \/ D_ReadUnlink(r) \/ D_ReadDone(r),
         NEW g \in Lines, Kept(g, run[r])
  PROVE  Kept(g, run[r])'
  <1> DEFINE s == run[r]
             h == Head(s.todo)
  <1>1. /\ run \in [Runs -> RunStates] /\ s \in RunStates /\ s.todo \in Seq(Lines)
        /\ s.owners \in Seq(Owners) /\ pidfile \in [Lines -> Pids \cup {None}]
    BY RunFacts DEF TypeOK
  <1>2. CASE D_ReadDone(r)
    <2>1. s.todo = <<>> /\ run'[r].owners = s.owners /\ UNCHANGED pidfile
      BY <1>1, <1>2 DEF D_ReadDone, RunStates
    <2> QED BY <2>1, InEmpty DEF Kept, Noted
  <1>3. s.pc = "read_unlink" => s.todo # <<>>
    BY RunFacts DEF RunShape
  <1>4. ASSUME s.todo # <<>>
        PROVE  In(g, s.todo) => g = h \/ In(g, Tail(s.todo))
    BY <1>1, <1>4, InTail
  <1>5. CASE D_ReadUnlink(r)
    <2>1. /\ run'[r].owners = s.owners /\ run'[r].pc = "read" /\ run'[r].todo = Tail(s.todo)
          /\ pidfile' = [pidfile EXCEPT ![h] = None] /\ s.todo # <<>>
      BY <1>1, <1>3, <1>5 DEF D_ReadUnlink, RunStates
    <2> HIDE DEF h
    <2>2. pidfile[g] = None => pidfile'[g] = None
      BY <1>1, <2>1
    <2>3. g = h => pidfile'[g] = None
      BY <1>1, <2>1
    <2> QED BY <1>4, <2>1, <2>2, <2>3 DEF Kept, Noted, Reading
  <1>6. CASE D_Read(r)
    <2>1. s.todo # <<>> /\ s.pc = "read" /\ UNCHANGED pidfile /\ h \in Lines
      BY <1>6, RunFacts DEF D_Read
    <2>2. CASE run' = [run EXCEPT ![r].pc = "read_unlink"]
      <3>1. run'[r].owners = s.owners /\ run'[r].pc = "read_unlink" /\ run'[r].todo = s.todo
        BY <1>1, <2>2 DEF RunStates
      <3> QED BY <2>1, <3>1 DEF Kept, Noted, Reading
    <2>3. CASE pidfile[h] = None /\ run' = [run EXCEPT ![r].todo = Tail(@)]
      <3>1. run'[r].owners = s.owners /\ run'[r].pc = "read" /\ run'[r].todo = Tail(s.todo)
        BY <1>1, <2>1, <2>3 DEF RunStates
      <3> HIDE DEF h
      <3> QED BY <1>4, <2>1, <2>3, <3>1 DEF Kept, Noted, Reading
    <2>4. CASE /\ pidfile[h] # None
               /\ run' = [run EXCEPT ![r].todo = Tail(@),
                                     ![r].owners = Append(@, [gpio |-> h, pid |-> pidfile[h]])]
      <3> DEFINE o == [gpio |-> h, pid |-> pidfile[h]]
      <3>1. /\ run'[r].owners = Append(s.owners, o) /\ run'[r].pc = "read"
            /\ run'[r].todo = Tail(s.todo)
        BY <1>1, <2>1, <2>4 DEF RunStates
      <3>2. o \in Owners /\ o.gpio = h
        BY <1>1, <2>1, <2>4 DEF Owners
      <3> HIDE DEF o, h
      <3>3. \A x : In(x, Append(s.owners, o)) <=> In(x, s.owners) \/ x = o
        BY <1>1, <3>2, InAppend
      <3> QED BY <1>4, <2>1, <3>1, <3>2, <3>3 DEF Kept, Noted, Reading
    <2> QED BY <1>6, <2>2, <2>3, <2>4 DEF D_Read
  <1> QED BY <1>2, <1>5, <1>6

LEMMA EndKept ==
  ASSUME TypeOK, NEW r \in Runs, D_Low(r) \/ D_Kill(r) \/ D_KillUnlink(r),
         NEW g \in Lines, Kept(g, run[r])
  PROVE  Kept(g, run[r])'
  <1> DEFINE s == run[r]
  <1>1. /\ run \in [Runs -> RunStates] /\ s \in RunStates
        /\ s.owners \in Seq(Owners) /\ pidfile \in [Lines -> Pids \cup {None}]
    BY RunFacts DEF TypeOK
  <1>2. s.pc \notin Reading
    BY DEF D_Low, D_Kill, D_KillUnlink, Reading
  <1>3. CASE D_Low(r) \/ D_Kill(r)
    <2>1. run'[r].owners = s.owners /\ UNCHANGED pidfile
      BY <1>1, <1>3 DEF D_Low, D_Kill, RunStates
    <2> QED BY <1>2, <2>1 DEF Kept, Noted
  <1>4. CASE D_KillUnlink(r)
    <2> DEFINE o == Head(s.owners)
    <2>1. /\ run'[r].owners = Tail(s.owners) /\ s.owners # <<>> /\ o \in Owners
          /\ o.gpio \in Lines /\ pidfile' = [pidfile EXCEPT ![o.gpio] = None]
      BY <1>1, <1>4, RunFacts DEF D_KillUnlink, RunStates, RunShape
    <2> HIDE DEF o
    <2>2. \A x : In(x, s.owners) => x = o \/ In(x, Tail(s.owners))
      BY <1>1, <2>1, InTail DEF o
    <2>3. pidfile[g] = None \/ g = o.gpio => pidfile'[g] = None
      BY <1>1, <2>1
    <2> QED BY <1>2, <2>1, <2>2, <2>3 DEF Kept, Noted
  <1> QED BY <1>3, <1>4

LEMMA ReadKeeps ==
  ASSUME NEW r, Fine(r), D_Read(r)
  PROVE  Orderly'
  <1> DEFINE s == run[r]
             h == Head(s.todo)
  <1>1. /\ run \in [Runs -> RunStates] /\ s \in RunStates /\ r \in Runs /\ Shape(s)
        /\ s.owners \in Seq(Owners) /\ pidfile \in [Lines -> Pids \cup {None}]
    BY RunFacts DEF Fine, TypeOK, Orderly
  <1>2. /\ s.pc = "read" /\ UNCHANGED <<proc, pidfile, level, stateDir>> /\ h \in Lines
        /\ \A q \in Runs \ {r} : run'[q] = run[q]
    BY <1>1, RunFacts DEF D_Read, Fine
  <1>3. \/ /\ run'[r].pc = "read" /\ run'[r].owners = s.owners
           /\ run'[r].cmd = s.cmd /\ run'[r].cur = s.cur
        \/ /\ run'[r].pc = "read" /\ run'[r].cmd = s.cmd /\ run'[r].cur = s.cur
           /\ run'[r].owners = Append(s.owners, [gpio |-> h, pid |-> pidfile[h]])
           /\ pidfile[h] # None
        \/ /\ run'[r].pc = "read_unlink" /\ run'[r].owners = s.owners /\ ~IsOwner(pidfile[h])
           /\ run'[r].cmd = s.cmd /\ run'[r].cur = s.cur /\ run'[r].todo = s.todo
    BY <1>1, <1>2 DEF D_Read, RunStates
  <1>4. Driving' /\ NamedOrEnded'
    BY <1>2, <1>3, NamesKeep
  <1>5. StartShape(s)'
    BY <1>1, <1>2, <1>3 DEF Shape, StartShape, Starting, IsOwner, AliveDiag, Alive
  <1>6. StopShape(s)'
    <2>1. \A o \in Owners : In(o, s.owners) => pidfile[o.gpio] \in {o.pid, None}
      BY <1>1, <1>2 DEF Shape, StopShape, Reading
    <2>2. \A o \in Owners : In(o, run'[r].owners) => pidfile[o.gpio] \in {o.pid, None}
      <3>1. CASE run'[r].owners = s.owners
        BY <2>1, <3>1
      <3>2. CASE /\ run'[r].owners = Append(s.owners, [gpio |-> h, pid |-> pidfile[h]])
                 /\ pidfile[h] # None
        <4> DEFINE x == [gpio |-> h, pid |-> pidfile[h]]
        <4>1. x \in Owners /\ x.gpio = h /\ x.pid = pidfile[h]
          BY <1>1, <1>2, <3>2 DEF Owners
        <4>2. run'[r].owners = Append(s.owners, x)
          BY <3>2
        <4> HIDE DEF x, h
        <4>3. \A o : In(o, Append(s.owners, x)) <=> In(o, s.owners) \/ o = x
          BY <1>1, <4>1, InAppend
        <4> QED BY <2>1, <4>1, <4>2, <4>3
      <3> QED BY <1>3, <3>1, <3>2
    <2> QED BY <1>2, <1>3, <2>2 DEF StopShape, Reading, Ending
  <1>7. OffShape(s)'
    BY <1>1, <1>2, <1>3, ReadKept DEF Shape, OffShape, Reading, Fine
  <1>8. Shape(s)'
    BY <1>5, <1>6, <1>7 DEF Shape
  <1> QED BY <1>2, <1>4, <1>8, RunKeeps

LEMMA ReadUnlinkKeeps ==
  ASSUME NEW r, Fine(r), D_ReadUnlink(r)
  PROVE  Orderly'
  <1> DEFINE s == run[r]
             h == Head(s.todo)
  <1>1. /\ run \in [Runs -> RunStates] /\ s \in RunStates /\ r \in Runs /\ Shape(s)
        /\ pidfile \in [Lines -> Pids \cup {None}]
    BY DEF Fine, TypeOK, Orderly
  <1>2. /\ s.pc = "read_unlink" /\ UNCHANGED <<proc, level, stateDir>>
        /\ pidfile' = [pidfile EXCEPT ![h] = None]
        /\ \A q \in Runs \ {r} : run'[q] = run[q]
        /\ run'[r].pc = "read" /\ run'[r].owners = s.owners
        /\ run'[r].cmd = s.cmd /\ run'[r].cur = s.cur
    BY <1>1 DEF D_ReadUnlink, RunStates
  <1>3. h \in Lines /\ ~IsOwner(pidfile[h])
    BY <1>1, <1>2, RunFacts DEF Fine, RunShape, Shape, StartShape
  <1> HIDE DEF h
  <1>4. Driving' /\ NamedOrEnded'
    BY <1>2, <1>3, UnlinkKeeps
  <1>5. \A g \in Lines : pidfile'[g] \in {pidfile[g], None}
    BY <1>1, <1>2
  <1>6. StartShape(s)' /\ StopShape(s)'
    BY <1>1, <1>2, <1>5 DEF Shape, StartShape, StopShape, Starting, Reading, Ending, Owners
  <1>7. OffShape(s)'
    BY <1>1, <1>2, ReadKept DEF Shape, OffShape, Reading, Fine
  <1>8. Shape(s)'
    BY <1>6, <1>7 DEF Shape
  <1> QED BY <1>2, <1>4, <1>8, RunKeeps

LEMMA ReadDoneKeeps ==
  ASSUME NEW r, Fine(r), D_ReadDone(r)
  PROVE  Orderly'
  <1> DEFINE s == run[r]
             lines == [i \in 1..Len(s.owners) |-> s.owners[i].gpio]
  <1>1. /\ run \in [Runs -> RunStates] /\ s \in RunStates /\ r \in Runs /\ Shape(s)
        /\ s.owners \in Seq(Owners)
    BY RunFacts DEF Fine, TypeOK, Orderly
  <1>2. /\ s.pc = "read" /\ UNCHANGED <<proc, pidfile, level, stateDir>>
        /\ \A q \in Runs \ {r} : run'[q] = run[q]
        /\ run'[r].pc = "low" /\ run'[r].owners = s.owners /\ run'[r].todo = lines
        /\ run'[r].cmd = s.cmd /\ run'[r].cur = s.cur
    BY <1>1 DEF D_ReadDone, RunStates
  <1>3. Driving' /\ NamedOrEnded'
    BY <1>2, NamesKeep
  <1>4. ASSUME NEW o \in Owners, In(o, s.owners)
        PROVE  In(o.gpio, lines)
    <2>1. PICK i \in 1..Len(s.owners) : s.owners[i] = o
      BY <1>4 DEF In
    <2>2. Len(lines) = Len(s.owners)
      BY <1>1, LenProperties
    <2>3. lines[i] = o.gpio
      BY <2>1
    <2> HIDE DEF lines
    <2> QED BY <2>2, <2>3 DEF In
  <1> HIDE DEF lines
  <1>5. StartShape(s)' /\ StopShape(s)'
    BY <1>1, <1>2, <1>4
    DEF Shape, StartShape, StopShape, Starting, Reading, Ending, Noted
  <1>6. OffShape(s)'
    BY <1>1, <1>2, ReadKept DEF Shape, OffShape, Reading, Fine
  <1>7. Shape(s)'
    BY <1>5, <1>6 DEF Shape
  <1> QED BY <1>2, <1>3, <1>7, RunKeeps

LEMMA LowKeeps ==
  ASSUME NEW r, Fine(r), D_Low(r)
  PROVE  Orderly'
  <1> DEFINE s == run[r]
             h == Head(s.todo)
  <1>1. /\ run \in [Runs -> RunStates] /\ s \in RunStates /\ r \in Runs /\ Shape(s)
        /\ s.todo \in Seq(Lines) /\ level \in [Lines -> {"active", "inactive"}]
    BY RunFacts DEF Fine, TypeOK, Orderly
  <1>2. /\ s.pc = "low" /\ s.todo # <<>> /\ UNCHANGED <<proc, pidfile, stateDir>> /\ h \in Lines
        /\ \A q \in Runs \ {r} : run'[q] = run[q]
        /\ run'[r].owners = s.owners /\ run'[r].cmd = s.cmd /\ run'[r].cur = s.cur
        /\ \/ /\ run'[r].pc = "low" /\ run'[r].todo = Tail(s.todo)
              /\ level' = [level EXCEPT ![h] = "inactive"]
           \/ /\ run'[r].pc = "finish" /\ run'[r].failed
              /\ level' \in {level, [level EXCEPT ![h] = "inactive"]}
    BY <1>1, RunFacts DEF D_Low, RunStates, Fine
  <1> HIDE DEF h
  <1>3. \A g \in Lines : level'[g] = level[g] \/ level'[g] = "inactive"
    BY <1>1, <1>2
  <1>4. Driving' /\ NamedOrEnded'
    BY <1>2, <1>3, NamesKeep
  <1>5. StartShape(s)'
    BY <1>1, <1>2 DEF Shape, StartShape, Starting
  <1>6. \A g \in Lines : LowLine(g) => LowLine(g)'
    BY <1>2, <1>3, SlowSame DEF LowLine, AliveDiag, Alive
  <1>7. ASSUME run'[r].pc = "low", NEW g \in Lines, Noted(g, s)
        PROVE  In(g, Tail(s.todo)) \/ LowLine(g)'
    <2>1. In(g, s.todo) \/ LowLine(g)
      BY <1>1, <1>2, <1>7 DEF Shape, StopShape, Ending
    <2>2. In(g, s.todo) => g = h \/ In(g, Tail(s.todo))
      BY <1>1, <1>2, InTail DEF h
    <2>3. g = h => LowLine(g)'
      BY <1>1, <1>2, <1>7 DEF LowLine
    <2> QED BY <1>6, <2>1, <2>2, <2>3
  <1>8. StopShape(s)'
    BY <1>1, <1>2, <1>7 DEF Shape, StopShape, Reading, Ending, Noted
  <1>9. OffShape(s)'
    BY <1>1, <1>2, EndKept DEF Shape, OffShape, Reading, Ending, Fine
  <1>10. Shape(s)'
    BY <1>5, <1>8, <1>9 DEF Shape
  <1> QED BY <1>2, <1>4, <1>10, RunKeeps

LEMMA KillKeeps ==
  ASSUME NEW r, Fine(r), D_Kill(r)
  PROVE  Orderly'
  <1> DEFINE s == run[r]
             p == Head(s.owners).pid
  <1>1. /\ run \in [Runs -> RunStates] /\ s \in RunStates /\ r \in Runs /\ Shape(s)
        /\ proc \in [Pids -> ProcStates] /\ Driving /\ NamedOrEnded
    BY DEF Fine, TypeOK, Orderly
  <1>2. /\ s.pc = "low" /\ s.todo = <<>> /\ UNCHANGED <<pidfile, level, stateDir>> /\ p \in Pids
        /\ \A q \in Runs \ {r} : run'[q] = run[q]
        /\ run'[r].owners = s.owners /\ run'[r].cmd = s.cmd /\ run'[r].cur = s.cur
        /\ run'[r].pc = "kill_unlink" /\ run'[r].todo = <<>>
        /\ proc' = IF Alive(p) THEN [proc EXCEPT ![p].term = TRUE] ELSE proc
    BY <1>1, RunFacts DEF D_Kill, RunStates, Fine, Signal
  <1> HIDE DEF p
  <1>3. /\ \A q \in Pids : /\ AliveDiag(q)' = AliveDiag(q)
                           /\ proc'[q].gpio = proc[q].gpio /\ proc'[q].st = proc[q].st
                           /\ proc[q].term => proc'[q].term
        /\ AliveDiag(p) => proc'[p].term
    BY <1>1, <1>2 DEF AliveDiag, Alive, ProcStates
  <1>4. Driving' /\ NamedOrEnded'
    BY <1>1, <1>2, <1>3, SlowSame DEF Driving, NamedOrEnded
  <1>5. StartShape(s)'
    BY <1>1, <1>2 DEF Shape, StartShape, Starting
  <1>6. \A g \in Lines : LowLine(g) => LowLine(g)'
    BY <1>2, <1>3, SlowSame DEF LowLine
  <1>7. StopShape(s)'
    BY <1>1, <1>2, <1>3, <1>6, InEmpty DEF Shape, StopShape, Reading, Ending, Noted, p
  <1>8. OffShape(s)'
    BY <1>1, <1>2, EndKept DEF Shape, OffShape, Reading, Ending, Fine
  <1>9. Shape(s)'
    BY <1>5, <1>7, <1>8 DEF Shape
  <1> QED BY <1>2, <1>4, <1>9, RunKeeps

\* The pid file that is unlinked names the process signalled, or none.
LEMMA KillUnlinkKeeps ==
  ASSUME NEW r, Fine(r), D_KillUnlink(r)
  PROVE  Orderly'
  <1> DEFINE s == run[r]
             o == Head(s.owners)
  <1>1. /\ run \in [Runs -> RunStates] /\ s \in RunStates /\ r \in Runs /\ Shape(s)
        /\ s.owners \in Seq(Owners) /\ pidfile \in [Lines -> Pids \cup {None}]
        /\ Driving /\ NamedOrEnded /\ \A q \in Pids : proc[q].gpio \in Lines
    BY RunFacts DEF Fine, TypeOK, Orderly, ProcStates
  <1>2. /\ s.pc = "kill_unlink" /\ s.owners # <<>> /\ UNCHANGED <<proc, level, stateDir>>
        /\ o \in Owners /\ o.gpio \in Lines /\ o.pid \in Pids
        /\ pidfile' = [pidfile EXCEPT ![o.gpio] = None]
        /\ \A q \in Runs \ {r} : run'[q] = run[q]
        /\ run'[r].owners = Tail(s.owners) /\ run'[r].cmd = s.cmd /\ run'[r].cur = s.cur
        /\ run'[r].pc = "low" /\ run'[r].todo = s.todo
    BY <1>1, RunFacts DEF D_KillUnlink, RunStates, Fine, RunShape
  <1> HIDE DEF o
  <1>3. \A x : In(x, s.owners) <=> x = o \/ In(x, Tail(s.owners))
    BY <1>1, <1>2, InTail DEF o
  <1>4. /\ s.todo = <<>> /\ pidfile[o.gpio] \in {o.pid, None} /\ LowLine(o.gpio)
        /\ AliveDiag(o.pid) => proc[o.pid].term
    BY <1>1, <1>2, <1>3, InEmpty DEF Shape, StopShape, Reading, Ending, Noted, o
  <1>5. \A q \in Pids : AliveDiag(q)' = AliveDiag(q)
    BY <1>2 DEF AliveDiag, Alive
  <1>6. Driving'
    BY <1>1, <1>2, <1>5, SlowSame DEF Driving
  <1>7. \A g \in Lines : g # o.gpio => pidfile'[g] = pidfile[g]
    BY <1>1, <1>2
  <1>8. ASSUME NEW q \in Pids, AliveDiag(q), proc[q].gpio = o.gpio, pidfile[proc[q].gpio] = q
        PROVE  proc[q].term /\ (Slow \/ level[proc[q].gpio] = "inactive")
    BY <1>4, <1>8, ConstantsAssumption DEF LowLine
  <1>9. NamedOrEnded'
    BY <1>1, <1>2, <1>5, <1>7, <1>8, SlowSame DEF NamedOrEnded
  <1>10. StartShape(s)'
    BY <1>1, <1>2 DEF Shape, StartShape, Starting
  <1>11. \A g \in Lines : LowLine(g) => LowLine(g)'
    BY <1>2, <1>5, SlowSame DEF LowLine
  <1>12. \A g \in Lines : pidfile'[g] \in {pidfile[g], None}
    BY <1>1, <1>2
  <1>13. StopShape(s)'
    BY <1>1, <1>2, <1>3, <1>11, <1>12
    DEF Shape, StopShape, Reading, Ending, Noted, Owners
  <1>14. OffShape(s)'
    BY <1>1, <1>2, EndKept DEF Shape, OffShape, Reading, Ending, Fine
  <1>15. Shape(s)'
    BY <1>10, <1>13, <1>14 DEF Shape
  <1> QED BY <1>2, <1>6, <1>9, <1>15, RunKeeps

LEMMA FinishKeeps ==
  ASSUME NEW r, Fine(r), D_Finish(r)
  PROVE  Orderly'
  <1>1. run \in [Runs -> RunStates] /\ run[r] \in RunStates /\ r \in Runs
    BY DEF Fine, TypeOK
  <1>2. /\ UNCHANGED <<proc, pidfile, level>> /\ run[r].pc \in {"spawn", "low", "finish"}
        /\ \A q \in Runs \ {r} : run'[q] = run[q]
        /\ run'[r].pc = "idle" /\ run'[r].cur = None
    BY <1>1 DEF D_Finish, AtEnd, IdleRun
  <1>3. run[r].cur = None
    BY <1>1, <1>2, RunFacts DEF Fine
  <1>4. Driving' /\ NamedOrEnded'
    BY <1>2, <1>3, NamesKeep
  <1>5. Shape(run[r])'
    BY <1>2 DEF Shape, StartShape, StopShape, OffShape, Starting, Reading, Ending
  <1> QED BY <1>2, <1>4, <1>5, RunKeeps

LEMMA CommandKeepsOrderly ==
  ASSUME NEW r, Fine(r), CommandStep(r)
  PROVE  Orderly'
  <1>1. ~D_Killed(r)
    BY DEF D_Killed, Fine, OrderlyCommands, May
  <1> QED BY <1>1, StartKeeps, ScanKeeps, ScanUnlinkKeeps, LockKeeps, SkipKeeps, SpawnKeeps,
             PollKeeps, RecordKeeps, ReadKeeps, ReadUnlinkKeeps, ReadDoneKeeps, LowKeeps,
             KillKeeps, KillUnlinkKeeps, FinishKeeps
          DEF CommandStep, RunStep, OnStep, StopStep

\* What a scan has found or unlinked is so until the line is started.
LEMMA ScanStarts ==
  ASSUME NEW r, Fine(r), NEW c \in OnCommands \cup OffCommands, D_Start(r, c)
  PROVE  ScanShape(run[r])'
  <1>1. run \in [Runs -> RunStates] /\ r \in Runs
    BY DEF Fine, TypeOK
  <1>2. CASE c \in OnCommands
    <2>1. run' = [run EXCEPT ![r] = [IdleRun EXCEPT !.cmd = c, !.pc = "scan",
                                                    !.todo = DIAGNOSTIC_GPIOS]]
      BY <1>2 DEF D_Start
    <2>2. run'[r].pc = "scan" /\ run'[r].todo = DIAGNOSTIC_GPIOS
      BY <1>1, <2>1 DEF IdleRun
    <2> QED BY <2>2, InTargets DEF ScanShape
  <1>3. CASE c \notin OnCommands
    <2>1. run' = [run EXCEPT ![r] = [IdleRun EXCEPT !.cmd = c, !.pc = "read",
                                                    !.todo = Targets(c)]]
      BY <1>3 DEF D_Start
    <2>2. run'[r].pc = "read"
      BY <1>1, <2>1 DEF IdleRun
    <2> QED BY <2>2 DEF ScanShape
  <1> QED BY <1>2, <1>3

LEMMA ScanGoesOn ==
  ASSUME NEW r, Fine(r), D_Scan(r) \/ D_ScanUnlink(r) \/ D_Lock(r)
  PROVE  ScanShape(run[r])'
  <1> DEFINE s == run[r]
             h == Head(s.todo)
  <1>1. /\ run \in [Runs -> RunStates] /\ s \in RunStates /\ r \in Runs /\ ScanShape(s)
        /\ pidfile \in [Lines -> Pids \cup {None}] /\ s.todo \in Seq(Lines)
        /\ s.pc = "scan_unlink" => s.todo # <<>>
    BY RunFacts DEF Fine, TypeOK, Scanned, RunShape
  <1>2. ASSUME s.todo # <<>>
        PROVE  \A g : In(g, s.todo) => g = h \/ In(g, Tail(s.todo))
    BY <1>1, <1>2, InTail
  <1> HIDE DEF h
  <1>3. CASE D_Scan(r)
    <2>1. /\ s.pc = "scan" /\ s.todo # <<>> /\ UNCHANGED pidfile
          /\ \/ /\ run'[r].pc = "scan" /\ run'[r].todo = Tail(s.todo)
                /\ run'[r].active = s.active \cup {h}
             \/ /\ run'[r].pc = "scan_unlink" /\ run'[r].todo = s.todo
                /\ run'[r].active = s.active
      BY <1>1, <1>3 DEF D_Scan, RunStates, h
    <2> QED BY <1>1, <1>2, <2>1 DEF ScanShape
  <1>4. CASE D_ScanUnlink(r)
    <2>1. /\ s.pc = "scan_unlink" /\ pidfile' = [pidfile EXCEPT ![h] = None]
          /\ run'[r].pc = "scan" /\ run'[r].todo = Tail(s.todo)
          /\ run'[r].active = s.active
      BY <1>1, <1>4 DEF D_ScanUnlink, RunStates, h
    <2>2. \A g \in Lines : pidfile[g] = None \/ g = h => pidfile'[g] = None
      BY <1>1, <2>1
    <2> QED BY <1>1, <1>2, <2>1, <2>2 DEF ScanShape
  <1>5. CASE D_Lock(r)
    <2>1. /\ s.pc = "scan" /\ s.todo = <<>> /\ UNCHANGED pidfile
          /\ \/ Abort(r)
             \/ /\ run'[r].pc = "spawn" /\ run'[r].todo = Targets(s.cmd)
                /\ run'[r].active = s.active
      BY <1>1, <1>5 DEF D_Lock, RunStates
    <2>2. Abort(r) => run'[r].pc = "read"
      BY <1>1 DEF Abort, RunStates
    <2> QED BY <1>1, <2>1, <2>2, InEmpty, TargetsAreLists DEF ScanShape
  <1> QED BY <1>3, <1>4, <1>5

LEMMA ScanLasts ==
  ASSUME NEW r, Fine(r), D_Skip(r) \/ D_Spawn(r) \/ D_Poll(r) \/ D_Record(r)
  PROVE  ScanShape(run[r])'
  <1> DEFINE s == run[r]
             h == Head(s.todo)
  <1>1. /\ run \in [Runs -> RunStates] /\ s \in RunStates /\ r \in Runs /\ ScanShape(s)
        /\ pidfile \in [Lines -> Pids \cup {None}] /\ s.todo \in Seq(Lines)
        /\ s.todo # <<>> /\ s.todo \in LineLists
    BY RunFacts DEF Fine, TypeOK, Scanned, RunShape, ScanShape, D_Skip, D_Spawn, D_Poll, D_Record
  <1>2. /\ Tail(s.todo) \in LineLists /\ ~In(h, Tail(s.todo))
        /\ \A g : In(g, Tail(s.todo)) => In(g, s.todo)
    BY <1>1, InTail, ListTail
  <1>3. CASE Abort(r)
    <2>1. run'[r].pc = "read"
      BY <1>1, <1>3 DEF Abort, RunStates
    <2> QED BY <2>1 DEF ScanShape
  <1>4. CASE D_Skip(r)
    <2>1. /\ s.pc = "spawn" /\ UNCHANGED pidfile
          /\ run'[r].pc = "spawn" /\ run'[r].todo = Tail(s.todo) /\ run'[r].active = s.active
      BY <1>1, <1>4 DEF D_Skip, RunStates
    <2> HIDE DEF h
    <2> QED BY <1>1, <1>2, <2>1 DEF ScanShape
  <1>5. CASE D_Spawn(r) /\ ~Abort(r)
    <2>1. /\ s.pc = "spawn" /\ UNCHANGED pidfile /\ h \notin s.active
          /\ run'[r].pc = "poll" /\ run'[r].todo = s.todo /\ run'[r].active = s.active
      BY <1>1, <1>5 DEF D_Spawn, RunStates
    <2> QED BY <1>1, <2>1 DEF ScanShape
  <1>6. CASE D_Poll(r) /\ ~Abort(r)
    <2>1. /\ s.pc = "poll" /\ UNCHANGED pidfile
          /\ run'[r].pc = "record" /\ run'[r].todo = s.todo /\ run'[r].active = s.active
      BY <1>1, <1>6 DEF D_Poll, RunStates
    <2> QED BY <1>1, <2>1 DEF ScanShape
  <1>7. CASE D_Record(r) /\ ~Abort(r)
    <2>1. /\ s.pc = "record" /\ pidfile' = [pidfile EXCEPT ![h] = s.cur]
          /\ run'[r].pc = "spawn" /\ run'[r].todo = Tail(s.todo) /\ run'[r].active = s.active
      BY <1>1, <1>7 DEF D_Record, RunStates
    <2> HIDE DEF h
    <2>2. \A g \in Lines : g # h => pidfile'[g] = pidfile[g]
      BY <1>1, <2>1
    <2> QED BY <1>1, <1>2, <2>1, <2>2 DEF ScanShape
  <1> QED BY <1>3, <1>4, <1>5, <1>6, <1>7

LEMMA CommandKeepsScanned ==
  ASSUME NEW r, Fine(r), CommandStep(r), \A q \in Runs \ {r} : run'[q] = run[q]
  PROVE  Scanned'
  <1>1. run \in [Runs -> RunStates] /\ run[r] \in RunStates /\ r \in Runs
    BY DEF Fine, TypeOK
  <1>2. ASSUME NEW q \in Runs, q # r
        PROVE  ScanShape(run[q])'
    BY <1>2, OthersIdle DEF ScanShape
  <1>3. ~D_Killed(r)
    BY DEF D_Killed, Fine, OrderlyCommands, May
  <1>4. ASSUME StopStep(r)
        PROVE  ScanShape(run[r])'
    <2>1. CASE D_Read(r) \/ D_ReadUnlink(r) \/ D_ReadDone(r)
      <3>1. run'[r].pc \in {"read", "read_unlink", "low"}
        BY <1>1, <2>1 DEF D_Read, D_ReadUnlink, D_ReadDone, RunStates
      <3> QED BY <3>1 DEF ScanShape
    <2>2. CASE D_Low(r) \/ D_Kill(r) \/ D_KillUnlink(r)
      <3>1. run'[r].pc \in {"low", "kill_unlink", "finish"}
        BY <1>1, <2>2 DEF D_Low, D_Kill, D_KillUnlink, RunStates
      <3> QED BY <3>1 DEF ScanShape
    <2>3. CASE D_Finish(r)
      <3>1. run'[r].pc = "idle"
        BY <1>1, <2>3 DEF D_Finish, IdleRun
      <3> QED BY <3>1 DEF ScanShape
    <2> QED BY <1>4, <2>1, <2>2, <2>3 DEF StopStep
  <1>5. ScanShape(run[r])'
    BY <1>3, <1>4, ScanStarts, ScanGoesOn, ScanLasts DEF CommandStep, RunStep, OnStep
  <1> QED BY <1>2, <1>5 DEF Scanned

-----------------------------------------------------------------------------
(* What holds whatever commands are given                                  *)

\* A command starts at most one process, with a pid that is free.
LEMMA CommandProc ==
  ASSUME TypeOK, NEW r \in Runs, CommandStep(r)
  PROVE  /\ UNCHANGED <<thread, agentUp>>
         /\ \/ \A q \in Pids : /\ proc'[q].owner = proc[q].owner /\ proc'[q].st = proc[q].st
                               /\ proc'[q].gpio = proc[q].gpio
            \/ \E p \in Pids : /\ FreePid(p) /\ proc'[p].st = "starting" /\ proc'[p].owner = "diag"
                               /\ \A q \in Pids \ {p} : proc'[q] = proc[q]
  <1>1. UNCHANGED <<thread, agentUp>>
    BY DEF CommandStep, RunStep, OnStep, StopStep, D_Start, D_Scan, D_ScanUnlink, D_Lock, D_Skip,
           D_Spawn, D_Poll, D_Record, D_Read, D_ReadUnlink, D_ReadDone, D_Low, D_Kill,
           D_KillUnlink, D_Finish, D_Killed
  <1>2. CASE D_Spawn(r)
    BY <1>2 DEF D_Spawn, Spawned, TypeOK
  <1>3. CASE D_Kill(r)
    <2>1. \E p : proc' = proc \/ proc' = [proc EXCEPT ![p].term = TRUE]
      BY <1>3 DEF D_Kill, Signal
    <2>2. proc \in [Pids -> ProcStates]
      BY DEF TypeOK
    <2> QED BY <1>1, <2>1, <2>2 DEF ProcStates
  <1>4. CASE proc' = proc
    BY <1>1, <1>4
  <1>5. proc' = proc \/ D_Spawn(r) \/ D_Kill(r)
    BY DEF CommandStep, RunStep, OnStep, StopStep, D_Start, D_Scan, D_ScanUnlink, D_Lock, D_Skip,
           D_Poll, D_Record, D_Read, D_ReadUnlink, D_ReadDone, D_Low,
           D_KillUnlink, D_Finish, D_Killed
  <1> QED BY <1>1, <1>2, <1>3, <1>4, <1>5

LEMMA CommandRun ==
  ASSUME TypeOK, NEW r \in Runs, CommandStep(r)
  PROVE  /\ \A q \in Runs \ {r} : run'[q] = run[q]
         /\ \/ run[r].pc # "idle" /\ run'[r].cmd = run[r].cmd
            \/ run'[r].pc = "idle"
            \/ r \in scenario.runs /\ run'[r].cmd \in scenario.commands
  <1>1. run \in [Runs -> RunStates] /\ run[r] \in RunStates
    BY DEF TypeOK
  <1>2. ASSUME NEW c \in OnCommands \cup OffCommands, D_Start(r, c)
        PROVE  /\ \A q \in Runs \ {r} : run'[q] = run[q]
               /\ r \in scenario.runs /\ run'[r].cmd \in scenario.commands
    BY ZenonT(30), <1>1, <1>2 DEF D_Start, IdleRun
  <1>3. CASE D_Finish(r) \/ D_Killed(r)
    BY <1>1, <1>3 DEF D_Finish, D_Killed, IdleRun
  <1>4. CASE OnStep(r)
    <2>1. CASE D_Scan(r) \/ D_ScanUnlink(r) \/ D_Skip(r)
      BY <1>1, <2>1 DEF D_Scan, D_ScanUnlink, D_Skip, RunStates
    <2>2. CASE D_Lock(r)
      BY <1>1, <2>2 DEF D_Lock, Abort, RunStates
    <2>3. CASE D_Spawn(r)
      BY <1>1, <2>3 DEF D_Spawn, Abort, RunStates
    <2>4. CASE D_Poll(r)
      BY <1>1, <2>4 DEF D_Poll, Abort, RunStates
    <2>5. CASE D_Record(r)
      BY <1>1, <2>5 DEF D_Record, Abort, RunStates
    <2> QED BY <1>4, <2>1, <2>2, <2>3, <2>4, <2>5 DEF OnStep
  <1>5. CASE D_Read(r) \/ D_ReadUnlink(r) \/ D_ReadDone(r) \/ D_Low(r) \/ D_Kill(r) \/ D_KillUnlink(r)
    <2>1. CASE D_Read(r)
      BY <1>1, <2>1 DEF D_Read, RunStates
    <2>2. CASE D_ReadUnlink(r) \/ D_ReadDone(r)
      BY <1>1, <2>2 DEF D_ReadUnlink, D_ReadDone, RunStates
    <2>3. CASE D_Low(r)
      BY <1>1, <2>3 DEF D_Low, RunStates
    <2>4. CASE D_Kill(r) \/ D_KillUnlink(r)
      BY <1>1, <2>4 DEF D_Kill, D_KillUnlink, RunStates
    <2> QED BY <1>5, <2>1, <2>2, <2>3, <2>4
  <1> QED BY <1>2, <1>3, <1>4, <1>5 DEF CommandStep, RunStep, StopStep

Basics == TypeOK /\ OnlyScenarioRuns /\ ChildIsAgents /\ DrivesAlone

LEMMA CommandKeepsBasics ==
  ASSUME Basics, UNCHANGED scenario, NEW r \in Runs, CommandStep(r)
  PROVE  OnlyScenarioRuns' /\ ChildIsAgents' /\ DrivesAlone'
  <1> USE DEF Basics
  <1>1. OnlyScenarioRuns'
    BY CommandRun DEF OnlyScenarioRuns
  <1>2. ChildIsAgents'
    BY CommandProc DEF ChildIsAgents, AliveDiag, Alive, FreePid
  <1>3. DrivesAlone'
    BY CommandProc DEF DrivesAlone
  <1> QED BY <1>1, <1>2, <1>3

LEMMA EnvKeepsBasics ==
  ASSUME Basics, UNCHANGED scenario, EnvStep
  PROVE  SameDiag /\ OnlyScenarioRuns' /\ ChildIsAgents' /\ DrivesAlone'
  <1> USE DEF Basics
  <1>1. SameDiag
    BY EnvSameDiag
  <1>2. OnlyScenarioRuns'
    BY <1>1 DEF OnlyScenarioRuns, SameDiag
  <1>3. ASSUME NEW t \in Threads
        PROVE  \/ thread'[t].child \in {thread[t].child, None}
               \/ thread'[t].child \in Pids /\ ~AliveDiag(thread[t].child)'
    <2>1. thread \in [Threads -> ThreadStates]
      BY DEF TypeOK
    <2>2. CASE UNCHANGED thread \/ AgentCrash \/ \E u \in Threads, g \in Lines : A_Begin(u, g)
      BY <2>1, <2>2 DEF AgentCrash, A_Begin, IdleThread
    <2>3. ASSUME NEW u \in Threads, A_Spawn(u)
          PROVE  \/ thread'[t].child \in {thread[t].child, None}
                 \/ thread'[t].child \in Pids /\ ~AliveDiag(thread[t].child)'
      <3>1. CASE EndPulse(u)
        BY <2>1, <3>1 DEF EndPulse, IdleThread
      <3>2. ASSUME NEW p \in Pids,
                   proc' = [proc EXCEPT ![p] = Spawned("agent", thread[u].gpio)],
                   thread' = [thread EXCEPT ![u].pc = "wait", ![u].child = p]
            PROVE  \/ thread'[t].child = thread[t].child
                   \/ thread'[t].child \in Pids /\ ~AliveDiag(thread[t].child)'
        <4>1. thread'[t].child = IF t = u THEN p ELSE thread[t].child
          BY <2>1, <3>2 DEF ThreadStates
        <4>2. ~AliveDiag(p)'
          BY <3>2 DEF AliveDiag, Alive, Spawned, TypeOK
        <4> QED BY <4>1, <4>2 DEF AliveDiag, Alive
      <3> QED BY <2>3, <3>1, <3>2 DEF A_Spawn
    <2>4. ASSUME NEW u \in Threads,
                 A_Lock(u) \/ A_Reap(u) \/ A_Timeout(u) \/ A_Terminate(u) \/ A_Stopped(u)
          PROVE  thread'[t].child \in {thread[t].child, None}
      BY <2>1, <2>4 DEF A_Lock, A_Reap, A_Timeout, A_Terminate, A_Stopped, EndPulse, IdleThread,
                        ThreadStates
    <2> QED BY <2>2, <2>3, <2>4
            DEF EnvStep, AgentStep, ProcRequest, ProcToggle, ProcEnd, AgentRestart
  <1>4. ChildIsAgents'
    BY <1>1, <1>3, ConstantsAssumption DEF ChildIsAgents, SameDiag, AliveDiag, Alive
  <1>5. DrivesAlone'
    <2>1. proc \in [Pids -> ProcStates]
      BY DEF TypeOK
    <2>2. ASSUME NEW p \in Pids, ProcRequest(p)
          PROVE  DrivesAlone'
      BY <2>1, <2>2 DEF ProcRequest, DrivesAlone, NoProc, ProcStates
    <2>3. ASSUME \A q \in Pids : proc'[q].st = "driving" =>
                   proc[q].st = "driving" /\ proc'[q].gpio = proc[q].gpio
          PROVE  DrivesAlone'
      BY <2>3 DEF DrivesAlone
    <2>4. ASSUME NEW p \in Pids, ProcToggle(p) \/ ProcEnd(p)
          PROVE  DrivesAlone'
      BY <2>1, <2>3, <2>4 DEF ProcToggle, ProcEnd, NoProc
    <2>5. ASSUME NEW t \in Threads, A_Spawn(t)
          PROVE  DrivesAlone'
      BY <2>1, <2>3, <2>5 DEF A_Spawn, Spawned
    <2>6. ASSUME NEW t \in Threads, A_Terminate(t)
          PROVE  DrivesAlone'
      BY <2>1, <2>3, <2>6 DEF A_Terminate, Signal, ProcStates
    <2>7. CASE UNCHANGED proc
      BY <2>7 DEF DrivesAlone
    <2> QED BY <2>2, <2>4, <2>5, <2>6, <2>7
            DEF EnvStep, AgentStep, A_Begin, A_Lock, A_Reap, A_Timeout, A_Stopped, AgentCrash,
                AgentRestart
  <1> QED BY <1>1, <1>2, <1>4, <1>5

LEMMA NextSteps ==
  ASSUME TypeOK, Next
  PROVE  (EnvStep \/ \E r \in Runs : CommandStep(r)) /\ UNCHANGED scenario
  BY DEF Next, EnvStep, CommandStep

LEMMA CommandRuns ==
  ASSUME Basics, Basics', UNCHANGED scenario, NEW r \in Runs, CommandStep(r)
  PROVE  r \in scenario.runs
  <1>1. CASE run[r].pc # "idle"
    BY <1>1 DEF Basics, OnlyScenarioRuns
  <1>2. CASE run[r].pc = "idle"
    BY <1>2 DEF CommandStep, RunStep, OnStep, StopStep, D_Start, D_Scan, D_ScanUnlink, D_Lock,
                D_Skip, D_Spawn, D_Poll, D_Record, D_Read, D_ReadUnlink, D_ReadDone, D_Low,
                D_Kill, D_KillUnlink, D_Finish, AtEnd, D_Killed
  <1> QED BY <1>1, <1>2

LEMMA CmdInvInit == Init => CmdInv
  <1> SUFFICES ASSUME Init
               PROVE  CmdInv
    OBVIOUS
  <1>1. TypeOK
    BY InitType
  <1>2. /\ \A r \in Runs : run[r].pc = "idle"
        /\ \A p \in Pids : ~AliveDiag(p) /\ proc[p].st = "none"
        /\ \A t \in Threads : thread[t].child = None
    BY DEF Init, IdleRun, NoProc, IdleThread, AliveDiag, Alive
  <1>3. OnlyScenarioRuns /\ ChildIsAgents /\ DrivesAlone
    BY <1>2, ConstantsAssumption DEF OnlyScenarioRuns, ChildIsAgents, DrivesAlone
  <1>4. Orderly
    BY <1>2
    DEF Orderly, Shape, StartShape, StopShape, OffShape, Driving, NamedOrEnded, Starting,
        Reading, Ending
  <1>5. Scanned
    BY <1>2 DEF Scanned, ScanShape
  <1> QED BY <1>1, <1>3, <1>4, <1>5 DEF CmdInv

LEMMA CmdInvInductive == CmdInv /\ [Next]_vars => CmdInv'
  <1> SUFFICES ASSUME CmdInv, [Next]_vars
               PROVE  CmdInv'
    OBVIOUS
  <1>1. TypeOK'
    BY TypeInductive DEF CmdInv
  <1>2. CASE UNCHANGED vars
    <2>1. OnlyScenarioRuns' /\ ChildIsAgents' /\ DrivesAlone'
      BY <1>2
      DEF vars, sysVars, CmdInv, OnlyScenarioRuns, ChildIsAgents, DrivesAlone, AliveDiag, Alive
    <2>2. OrderlyCommands' => OrderlyCommands
      BY <1>2 DEF vars, sysVars, OrderlyCommands
    <2>0. Slow' <=> Slow
      BY <1>2 DEF vars, Slow, May
    <2>3. OrderlyCommands => Driving' /\ NamedOrEnded'
      BY <1>2, <2>0
      DEF vars, sysVars, CmdInv, Orderly, Driving, NamedOrEnded, AliveDiag, Alive, IsOwner
    <2>4. ASSUME OrderlyCommands, NEW r \in Runs
          PROVE  Shape(run[r])'
      BY <1>2, <2>0, <2>4
      DEF vars, sysVars, CmdInv, Orderly, Shape, StartShape, StopShape, OffShape, LowLine, Kept,
          AliveDiag, Alive, IsOwner
    <2>5. OrderlyCommands => Scanned'
      BY <1>2 DEF vars, sysVars, CmdInv, Scanned, ScanShape
    <2> QED BY <1>1, <2>1, <2>2, <2>3, <2>4, <2>5 DEF CmdInv, Orderly
  <1>3. ASSUME EnvStep, UNCHANGED scenario
        PROVE  CmdInv'
    <2>1. Basics
      BY DEF CmdInv, Basics
    <2>2. SameDiag /\ OnlyScenarioRuns' /\ ChildIsAgents' /\ DrivesAlone'
      BY <1>3, <2>1, EnvKeepsBasics
    <2>3. OrderlyCommands' => OrderlyCommands
      BY <1>3 DEF OrderlyCommands
    <2>4. OrderlyCommands => Orderly' /\ Scanned'
      <3>1. OrderlyCommands => Orderly'
        BY <1>3, <2>2, EnvKeepsOrderly DEF CmdInv
      <3>2. OrderlyCommands => Scanned'
        BY <2>2 DEF CmdInv, SameDiag, Scanned, ScanShape
      <3> QED BY <3>1, <3>2
    <2> QED BY <1>1, <2>2, <2>3, <2>4 DEF CmdInv
  <1>4. ASSUME NEW r \in Runs, CommandStep(r), UNCHANGED scenario
        PROVE  CmdInv'
    <2>1. Basics
      BY DEF CmdInv, Basics
    <2>2. OnlyScenarioRuns' /\ ChildIsAgents' /\ DrivesAlone'
      BY <1>4, <2>1, CommandKeepsBasics
    <2>3. OrderlyCommands' => OrderlyCommands
      BY <1>4 DEF OrderlyCommands
    <2>4. r \in scenario.runs
      BY <1>1, <1>4, <2>1, <2>2, CommandRuns DEF Basics
    <2>5. OrderlyCommands => Orderly' /\ Scanned'
      <3>1. OrderlyCommands => Fine(r)
        BY <1>4, <2>4 DEF CmdInv, Fine, Slow, May
      <3>2. \A q \in Runs \ {r} : run'[q] = run[q]
        BY <1>4, <2>1, CommandRun DEF Basics
      <3> QED BY <1>4, <3>1, <3>2, CommandKeepsOrderly, CommandKeepsScanned
    <2> QED BY <1>1, <2>2, <2>3, <2>5 DEF CmdInv
  <1> QED BY <1>2, <1>3, <1>4, NextSteps DEF CmdInv

\* As long as one operator gives one command at a time, no gpioset is lost: between
\* commands every diagnostic gpioset that nobody ended is named by its pid file
\* (_set_active, _stop_gpios), whatever else fails.
THEOREM OrderlyOwnersFindableHolds == Spec => []OrderlyOwnersFindable
  <1>1. ASSUME CmdInv
        PROVE  OrderlyOwnersFindable
    <2> SUFFICES ASSUME Orderly, \A r \in Runs : run[r].pc = "idle",
                        NEW p \in Pids, AliveDiag(p), ~proc[p].term
                 PROVE  pidfile[proc[p].gpio] = p
      BY <1>1 DEF CmdInv, OrderlyOwnersFindable, FindableOwners
    <2>1. \A r \in Runs : run[r].cur = None
      BY <1>1, RunFacts DEF CmdInv
    <2> QED BY <2>1, ConstantsAssumption DEF Orderly, NamedOrEnded
  <1> QED BY <1>1, CmdInvInit, CmdInvInductive, PTL DEF Spec

\* ... and when an *-off command ends without an error, every gpioset of its lines was
\* signalled, and its line, set LOW before, is LOW unless gpioset was still starting
\* then (_stop_gpios).
THEOREM OffLeavesNothingHolds == Spec => []OffLeavesNothing
  <1>1. ASSUME CmdInv
        PROVE  OffLeavesNothing
    <2> SUFFICES ASSUME OrderlyCommands, Orderly, NEW r \in Runs, AtEnd(r),
                        run[r].cmd \in OffCommands, ~run[r].failed,
                        NEW p \in Pids, AliveDiag(p),
                        \E i \in DOMAIN Targets(run[r].cmd) : Targets(run[r].cmd)[i] = proc[p].gpio
                 PROVE  proc[p].term /\ (Slow \/ level[proc[p].gpio] = "inactive")
      BY <1>1 DEF CmdInv, OffLeavesNothing, Slow
    <2>1. In(proc[p].gpio, Targets(run[r].cmd)) /\ proc[p].gpio \in Lines
      BY <1>1, InTargets DEF CmdInv, TypeOK, ProcStates
    <2>2. Shape(run[r])
      BY DEF Orderly
    <2>3. run[r].pc = "low" /\ run[r].todo = <<>> /\ run[r].owners = <<>>
      BY <2>2 DEF AtEnd, Shape, StartShape, Starting, OnCommands, OffCommands
    <2>4. pidfile[proc[p].gpio] = None
      BY <2>1, <2>2, <2>3, InEmpty DEF Shape, OffShape, Kept, Noted, Reading, Ending
    <2>5. \A q \in Runs : q # r => run[q].pc = "idle"
      BY <1>1, <2>3 DEF CmdInv, OnlyScenarioRuns, OrderlyCommands
    <2>6. \A q \in Runs : run[q].cur = None
      BY <1>1, <2>3, <2>5, RunFacts DEF CmdInv
    <2> QED BY <2>4, <2>6, ConstantsAssumption DEF Orderly, NamedOrEnded
  <1> QED BY <1>1, CmdInvInit, CmdInvInductive, PTL DEF Spec

-----------------------------------------------------------------------------
(* all_on and all_off alone                                                *)

\* One run at a time, all_on and all_off, nothing fails but popen.
AllFine(r) == Fine(r) /\ AllCommands /\ OwnersKnown /\ DiagLocked /\ AgentWaits /\ Whole

LEMMA AllIsOrderly == AllCommands => OrderlyCommands /\ ~May("die") /\ ~May("survive_kill")
                                     /\ ~May("stall") /\ ~May("agent_crash") /\ ~May("pinctrl_fail")
  BY DEF AllCommands, OrderlyCommands, May

\* A gpioset that lives keeps its descriptor of the lock; so does a run that goes on.
LEMMA EnvKeepsLock ==
  ASSUME TypeOK, EnvStep,
         NEW x \in Pids \cup Runs, x \in lockHolders, x \in Pids => Alive(x)'
  PROVE  x \in lockHolders'
  <1>1. x \notin Threads
    BY ConstantsAssumption
  <1>2. proc \in [Pids -> ProcStates]
    BY DEF TypeOK
  <1>3. ASSUME NEW p \in Pids, ProcRequest(p) \/ ProcToggle(p) \/ ProcEnd(p)
        PROVE  x \in lockHolders'
    <2>1. lockHolders' = lockHolders \/ (lockHolders' = lockHolders \ {p} /\ ~Alive(p)')
      BY <1>2, <1>3 DEF ProcRequest, ProcToggle, ProcEnd, Alive, NoProc
    <2> QED BY <2>1
  <1>4. ASSUME NEW t \in Threads, AgentStep(t) \/ \E g \in Lines : A_Begin(t, g)
        PROVE  x \in lockHolders'
    BY <1>1, <1>4
    DEF AgentStep, A_Begin, A_Lock, A_Spawn, A_Reap, A_Timeout, A_Terminate, A_Stopped
  <1>5. ASSUME AgentCrash \/ AgentRestart
        PROVE  x \in lockHolders'
    BY <1>1, <1>5 DEF AgentCrash, AgentRestart
  <1> QED BY <1>3, <1>4, <1>5 DEF EnvStep

\* A pulse and a diagnostic process would need the lock at the same time.
LEMMA NeverBoth ==
  ASSUME PulseInv, AllCommands, DiagLocked, AgentWaits,
         NEW p \in Pids, NEW q \in Pids, AliveAgent(p), AliveDiag(q)
  PROVE  FALSE
  <1>1. ~May("survive_kill")
    BY AllIsOrderly
  <1>2. PICK t \in Threads : thread[t].pc \in {"wait", "stop", "stopping"}
    BY <1>1 DEF PulseInv, AgentChildren, AgentWaits
  <1>3. lockHolders = {t}
    BY <1>1, <1>2 DEF PulseInv, LockInv, PulseOwnsLock, AgentWaits
  <1> QED BY <1>3, ConstantsAssumption DEF DiagLocked

\* ... so a gpioset that has its line to itself gets it, and lives until it is told to end.
LEMMA SoleLives ==
  ASSUME CmdInv, PulseInv, EnvStep, SameDiag, AllCommands, OwnersKnown, DiagLocked, AgentWaits,
         NEW p \in Pids, NEW g, Sole(p, g)
  PROVE  Sole(p, g)'
  <1>1. proc \in [Pids -> ProcStates] /\ AliveDiag(p) /\ ~proc[p].term
    BY DEF CmdInv, TypeOK, Sole
  <1>2. ASSUME NEW q \in Pids, ProcRequest(q) \/ ProcToggle(q) \/ ProcEnd(q)
        PROVE  AliveDiag(p)'
    <2>1. CASE q # p
      BY <1>1, <1>2, <2>1 DEF ProcRequest, ProcToggle, ProcEnd, AliveDiag, Alive
    <2>2. CASE q = p /\ ProcRequest(p)
      <3>1. ASSUME NEW x \in Pids, proc[x].st = "driving", proc[x].gpio = proc[p].gpio
            PROVE  FALSE
        <4>1. Alive(x) /\ x # p
          BY <2>2, <3>1 DEF ProcRequest, Alive
        <4>2. ~AliveDiag(x)
          BY <3>1, <4>1 DEF Sole
        <4>3. AliveAgent(x)
          BY <1>1, <4>1, <4>2 DEF OwnersKnown, AliveDiag, AliveAgent, ProcStates
        <4> QED BY <1>1, <4>3, NeverBoth
      <3>2. proc' = [proc EXCEPT ![p].st = "driving"]
        BY <2>2, <3>1 DEF ProcRequest
      <3> QED BY <1>1, <3>2 DEF AliveDiag, Alive, ProcStates
    <2>3. ~ProcToggle(p) /\ ~ProcEnd(p)
      BY <1>1, AllIsOrderly DEF ProcToggle, ProcEnd, AliveDiag
    <2> QED BY <1>2, <2>1, <2>2, <2>3
  <1>3. ASSUME NEW t \in Threads, AgentStep(t) \/ \E l \in Lines : A_Begin(t, l)
        PROVE  AliveDiag(p)'
    <2>1. ~A_Terminate(t)
      BY DEF A_Terminate, AgentWaits
    <2>2. CASE A_Spawn(t)
      BY <1>1, <2>2 DEF A_Spawn, FreePid, AliveDiag, Alive
    <2> QED BY <1>1, <1>3, <2>1, <2>2
            DEF AgentStep, A_Begin, A_Lock, A_Reap, A_Timeout, A_Stopped, AliveDiag, Alive
  <1>4. ASSUME AgentCrash \/ AgentRestart
        PROVE  AliveDiag(p)'
    BY <1>1, <1>4 DEF AgentCrash, AgentRestart, AliveDiag, Alive
  <1>5. AliveDiag(p)'
    BY <1>2, <1>3, <1>4 DEF EnvStep
  <1> QED BY <1>5 DEF Sole, SameDiag

\* The process that is about to be recorded has its line to itself: the scan left the
\* line without a pid file, and the lock kept everybody else out.
LEMMA RecordIsSole ==
  ASSUME TypeOK, NEW r \in Runs, run[r].pc = "record", run[r].active = {}, Fresh(run[r]),
         AliveDiag(run[r].cur), Shape(run[r]), ScanShape(run[r])
  PROVE  /\ run[r].cur \in Pids /\ Sole(run[r].cur, Head(run[r].todo))
         /\ Head(run[r].todo) \in Lines /\ pidfile[Head(run[r].todo)] = None
  <1> DEFINE h == Head(run[r].todo)
             p == run[r].cur
  <1>1. run[r].todo # <<>> /\ run[r].todo \in Seq(Lines) /\ h \in Lines
    BY RunFacts DEF TypeOK, RunShape
  <1>2. p \in Pids
    BY DEF TypeOK, RunStates, RunShape
  <1>3. ~proc[p].term /\ proc[p].gpio = h
    BY DEF Shape, StartShape, AliveDiag
  <1>4. In(h, run[r].todo)
    BY <1>1, InTail
  <1> HIDE DEF h, p
  <1>5. pidfile[h] = None
    BY <1>1, <1>4 DEF ScanShape
  <1>6. ASSUME NEW q \in Pids, AliveDiag(q), proc[q].gpio = h
        PROVE  q = p
    BY <1>5, <1>6, ConstantsAssumption DEF Fresh, p
  <1> QED BY <1>1, <1>2, <1>3, <1>5, <1>6 DEF Sole, h, p

LEMMA EnvKnowsOwners ==
  ASSUME TypeOK, EnvStep, OwnersKnown
  PROVE  OwnersKnown'
  <1>1. proc \in [Pids -> ProcStates]
    BY DEF TypeOK
  <1>2. ASSUME NEW p \in Pids, ProcRequest(p) \/ ProcToggle(p) \/ ProcEnd(p)
        PROVE  OwnersKnown'
    BY <1>1, <1>2 DEF ProcRequest, ProcToggle, ProcEnd, OwnersKnown, Alive, NoProc, ProcStates
  <1>3. ASSUME NEW t \in Threads, AgentStep(t) \/ \E g \in Lines : A_Begin(t, g)
        PROVE  OwnersKnown'
    <2>1. CASE A_Spawn(t)
      BY <1>1, <2>1 DEF A_Spawn, OwnersKnown, Alive, Spawned
    <2>2. CASE A_Terminate(t)
      BY <1>1, <2>2 DEF A_Terminate, Signal, OwnersKnown, Alive, ProcStates
    <2> QED BY <1>3, <2>1, <2>2
            DEF AgentStep, A_Begin, A_Lock, A_Reap, A_Timeout, A_Stopped, OwnersKnown, Alive
  <1>4. ASSUME AgentCrash \/ AgentRestart
        PROVE  OwnersKnown'
    BY <1>4 DEF AgentCrash, AgentRestart, OwnersKnown, Alive
  <1> QED BY <1>2, <1>3, <1>4 DEF EnvStep

LEMMA EnvKeepsAll ==
  ASSUME CmdInv, PulseInv, EnvStep, SameDiag, UNCHANGED scenario, AllCommands,
         OwnersKnown, DiagLocked, AgentWaits, Whole
  PROVE  OwnersKnown' /\ DiagLocked' /\ AgentWaits' /\ Whole'
  <1>1. DiagLocked'
    BY EnvKeepsLock DEF DiagLocked, SameDiag, AliveDiag, CmdInv
  <1>2. AgentWaits'
    <2>1. thread \in [Threads -> ThreadStates]
      BY DEF CmdInv, TypeOK
    <2>2. ~AgentCrash /\ ~AgentRestart
      BY AllIsOrderly DEF AgentCrash, AgentRestart, AgentWaits
    <2>3. ASSUME NEW p \in Pids, ProcRequest(p) \/ ProcToggle(p) \/ ProcEnd(p)
          PROVE  AgentWaits'
      BY <2>3 DEF ProcRequest, ProcToggle, ProcEnd, AgentWaits
    <2>4. ASSUME NEW t \in Threads, AgentStep(t) \/ \E g \in Lines : A_Begin(t, g)
          PROVE  agentUp' /\ \A u \in Threads : \/ thread'[u].pc = thread[u].pc
                                                \/ thread'[u].pc \in {"idle", "lock", "spawn", "wait"}
      <3> USE <2>1 DEF AgentWaits, EndPulse, IdleThread, ThreadStates
      <3>1. CASE \E g \in Lines : A_Begin(t, g)
        BY <3>1 DEF A_Begin
      <3>2. CASE A_Lock(t)
        BY <3>2 DEF A_Lock
      <3>3. CASE A_Spawn(t)
        BY <3>3 DEF A_Spawn
      <3>4. CASE A_Reap(t)
        BY <3>4 DEF A_Reap
      <3>5. ~A_Timeout(t) /\ ~A_Terminate(t) /\ ~A_Stopped(t)
        BY AllIsOrderly DEF A_Timeout, A_Terminate, A_Stopped
      <3> QED BY <2>4, <3>1, <3>2, <3>3, <3>4, <3>5 DEF AgentStep
    <2> QED BY <2>2, <2>3, <2>4 DEF EnvStep, AgentWaits
  <1>3. \A g \in Lines : Owned(g) => Owned(g)'
    <2> SUFFICES ASSUME NEW g \in Lines, Owned(g)
                 PROVE  Owned(g)'
      OBVIOUS
    <2>1. pidfile[g] \in Pids /\ pidfile'[g] = pidfile[g]
      BY DEF CmdInv, TypeOK, Owned, SameDiag
    <2>2. Sole(pidfile[g], g)'
      BY <2>1, SoleLives DEF Owned
    <2> QED BY <2>1, <2>2 DEF Owned, Sole, AliveDiag, Alive
  <1>4. ASSUME NEW r \in scenario.runs
        PROVE  WholeShape(r)'
    <2>1. r \in Runs
      BY ConstantsAssumption DEF CmdInv, TypeOK, ScenarioTypes
    <2>2. WholeShape(r) /\ UNCHANGED <<run, pidfile>>
      BY DEF Whole, SameDiag
    <2>3. r \in lockHolders => r \in lockHolders'
      BY <2>1, EnvKeepsLock, ConstantsAssumption DEF CmdInv
    <2>4. (AllNone => AllNone') /\ (AllOwned => AllOwned')
      BY <1>3, <2>2 DEF AllNone, AllOwned
    <2>5. Fresh(run[r]) => Fresh(run[r])'
      BY <2>2 DEF Fresh, SameDiag
    <2>6. CASE run[r].pc = "record"
      <3>1. /\ run[r].active = {} /\ Fresh(run[r]) /\ AliveDiag(run[r].cur)
            /\ Shape(run[r]) /\ ScanShape(run[r])
        BY <2>1, <2>2, <2>6, AllIsOrderly DEF WholeShape, CmdInv, Orderly, Scanned
      <3>2. PICK p \in Pids : p = run[r].cur /\ Sole(p, Head(run[r].todo))
        BY <2>1, <2>6, <3>1, RecordIsSole DEF CmdInv
      <3>3. PICK g \in Lines : g = Head(run[r].todo)
        BY <2>1, <2>6, <3>1, RecordIsSole DEF CmdInv
      <3>4. Sole(p, g)'
        BY <3>2, <3>3, SoleLives
      <3>5. AliveDiag(run[r].cur)'
        BY <2>2, <3>2, <3>4 DEF Sole, AliveDiag, Alive
      <3> QED BY <1>3, <2>2, <2>3, <2>4, <2>5, <2>6, <3>5 DEF WholeShape, Reading, Ending
    <2>7. CASE run[r].pc # "record"
      BY <1>3, <2>2, <2>3, <2>4, <2>5, <2>7 DEF WholeShape, Kept, Noted
    <2> QED BY <2>6, <2>7
  <1>5. Whole'
    BY <1>4 DEF Whole
  <1>6. OwnersKnown'
    BY EnvKnowsOwners DEF CmdInv
  <1> QED BY <1>1, <1>2, <1>5, <1>6

LEMMA CommandKeepsLock ==
  ASSUME TypeOK, NEW r \in Runs, CommandStep(r), NEW x \in Pids, x \in lockHolders
  PROVE  x \in lockHolders'
  <1>1. x # r
    BY ConstantsAssumption
  <1> QED BY <1>1
          DEF CommandStep, RunStep, OnStep, StopStep, D_Start, D_Scan, D_ScanUnlink, D_Lock, D_Skip,
              D_Spawn, D_Poll, D_Record, D_Read, D_ReadUnlink, D_ReadDone, D_Low, D_Kill,
              D_KillUnlink, D_Finish, D_Killed

\* A step that starts nothing keeps every gpioset's hold of the lock.
LEMMA LockedKeeps ==
  ASSUME NEW r, AllFine(r), CommandStep(r),
         \A q \in Pids : AliveDiag(q)' => AliveDiag(q)
  PROVE  DiagLocked'
  BY CommandKeepsLock DEF AllFine, Fine, DiagLocked

LEMMA OnlyR ==
  ASSUME NEW r, AllFine(r), UNCHANGED scenario, WholeShape(r)'
  PROVE  Whole'
  BY DEF AllFine, Fine, AllCommands, Whole

\* What stays when pid files and processes do.
LEMMA SameOwned ==
  ASSUME UNCHANGED <<proc, pidfile>>
  PROVE  /\ AllNone <=> AllNone'
         /\ AllOwned <=> AllOwned'
         /\ \A g : Owned(g) <=> Owned(g)'
         /\ \A q : AliveDiag(q) <=> AliveDiag(q)'
  BY DEF AllNone, AllOwned, Owned, Sole, AliveDiag, Alive

\* After a failed start the lines that are owned are due for the stop.
LEMMA AbortWhole ==
  ASSUME NEW r, AllFine(r), Abort(r), run[r].pc \in Starting, UNCHANGED pidfile,
         \A g \in Lines : pidfile[g] = None \/ In(g, run[r].started)
  PROVE  WholeShape(r)'
  <1>1. run'[r].pc = "read" /\ run'[r].todo = run[r].started
    BY AbortShape DEF AllFine
  <1> QED BY <1>1 DEF WholeShape, Kept, Reading, Ending

LEMMA StartWhole ==
  ASSUME NEW r, AllFine(r), NEW c \in OnCommands \cup OffCommands, D_Start(r, c)
  PROVE  DiagLocked' /\ WholeShape(r)'
  <1>1. run \in [Runs -> RunStates] /\ r \in Runs /\ WholeShape(r)
    BY DEF AllFine, Fine, TypeOK, Whole
  <1>2. /\ run[r].pc = "idle" /\ UNCHANGED <<proc, pidfile>>
        /\ run'[r].active = {}
        /\ \/ run'[r].pc = "scan" /\ run'[r].todo = DIAGNOSTIC_GPIOS
           \/ run'[r].pc = "read" /\ run'[r].todo = Targets("all_off")
    <2>1. c \in {"all_on", "all_off"} /\ run[r].pc = "idle" /\ UNCHANGED <<proc, pidfile>>
      BY DEF D_Start, AllFine, AllCommands
    <2>2. CASE c = "all_on"
      <3>1. run' = [run EXCEPT ![r] = [IdleRun EXCEPT !.cmd = c, !.pc = "scan",
                                                      !.todo = DIAGNOSTIC_GPIOS]]
        BY <2>2 DEF D_Start, OnCommands
      <3> QED BY <1>1, <2>1, <3>1 DEF IdleRun
    <2>3. CASE c = "all_off"
      <3>1. run' = [run EXCEPT ![r] = [IdleRun EXCEPT !.cmd = c, !.pc = "read",
                                                      !.todo = Targets(c)]]
        BY <2>3 DEF D_Start, OnCommands
      <3> QED BY <1>1, <2>1, <2>3, <3>1 DEF IdleRun
    <2> QED BY <2>1, <2>2, <2>3
  <1>3. AllNone \/ AllOwned
    BY <1>1, <1>2 DEF WholeShape
  <1>4. DiagLocked'
    BY <1>1, <1>2, SameOwned, LockedKeeps DEF CommandStep
  <1>5. WholeShape(r)'
    BY <1>2, <1>3, SameOwned, InTargets DEF WholeShape, Kept, Reading, Ending
  <1> QED BY <1>4, <1>5

LEMMA ScanWhole ==
  ASSUME NEW r, AllFine(r), D_Scan(r)
  PROVE  DiagLocked' /\ WholeShape(r)'
  <1> DEFINE s == run[r]
             h == Head(s.todo)
  <1>1. /\ run \in [Runs -> RunStates] /\ s \in RunStates /\ r \in Runs /\ WholeShape(r)
        /\ s.todo \in Seq(Lines)
    BY RunFacts DEF AllFine, Fine, TypeOK, Whole
  <1>2. /\ s.pc = "scan" /\ s.todo # <<>> /\ UNCHANGED <<proc, pidfile>> /\ h \in Lines
        /\ \/ /\ IsOwner(pidfile[h]) /\ run'[r].pc = "scan"
              /\ run'[r].active = s.active \cup {h} /\ run'[r].todo = Tail(s.todo)
           \/ /\ ~IsOwner(pidfile[h]) /\ run'[r].pc = "scan_unlink"
              /\ run'[r].active = s.active /\ run'[r].todo = s.todo
    BY <1>1, RunFacts DEF D_Scan, RunStates, AllFine, Fine
  <1> HIDE DEF h
  <1>3. DiagLocked'
    BY <1>1, <1>2, SameOwned, LockedKeeps DEF CommandStep, RunStep, OnStep
  <1>4. CASE AllNone /\ s.active = {}
    <2>1. ~IsOwner(pidfile[h])
      BY <1>2, <1>4 DEF AllNone, IsOwner
    <2>2. AllNone' /\ run'[r].active = {} /\ run'[r].pc = "scan_unlink"
      BY <1>2, <1>4, <2>1, SameOwned
    <2> QED BY <1>3, <2>2 DEF WholeShape, Reading, Ending
  <1>5. CASE AllOwned /\ \A g \in Lines : g \in s.active \/ In(g, s.todo)
    <2>1. IsOwner(pidfile[h])
      BY <1>2, <1>5 DEF IsOwner, AllOwned, Owned, Sole
    <2>2. \A g \in Lines : In(g, s.todo) => g = h \/ In(g, Tail(s.todo))
      BY <1>1, <1>2, InTail DEF h
    <2>3. AllOwned' /\ \A g \in Lines : g \in run'[r].active \/ In(g, run'[r].todo)
      BY <1>2, <1>5, <2>1, <2>2, SameOwned
    <2>4. run'[r].pc = "scan"
      BY <1>2, <2>1
    <2> QED BY <1>3, <2>3, <2>4 DEF WholeShape, Reading, Ending
  <1> QED BY <1>1, <1>2, <1>3, <1>4, <1>5 DEF WholeShape

LEMMA ScanUnlinkWhole ==
  ASSUME NEW r, AllFine(r), D_ScanUnlink(r)
  PROVE  DiagLocked' /\ WholeShape(r)'
  <1>1. /\ run \in [Runs -> RunStates] /\ run[r] \in RunStates /\ r \in Runs /\ WholeShape(r)
        /\ pidfile \in [Lines -> Pids \cup {None}]
    BY DEF AllFine, Fine, TypeOK, Whole
  <1>2. /\ run[r].pc = "scan_unlink" /\ UNCHANGED proc
        /\ pidfile' = [pidfile EXCEPT ![Head(run[r].todo)] = None]
        /\ run'[r].pc = "scan" /\ run'[r].active = run[r].active
    BY <1>1 DEF D_ScanUnlink, RunStates
  <1>3. AllNone /\ AllNone' /\ run[r].active = {}
    BY <1>1, <1>2 DEF WholeShape, AllNone
  <1>4. \A q \in Pids : AliveDiag(q)' <=> AliveDiag(q)
    BY <1>2 DEF AliveDiag, Alive
  <1>5. DiagLocked'
    BY <1>4, LockedKeeps DEF CommandStep, RunStep, OnStep
  <1>6. WholeShape(r)'
    BY <1>2, <1>3 DEF WholeShape, Reading, Ending
  <1> QED BY <1>5, <1>6

LEMMA LockWhole ==
  ASSUME NEW r, AllFine(r), D_Lock(r)
  PROVE  DiagLocked' /\ WholeShape(r)'
  <1> DEFINE s == run[r]
  <1>1. /\ run \in [Runs -> RunStates] /\ s \in RunStates /\ r \in Runs /\ WholeShape(r)
        /\ Shape(s) /\ s.active \subseteq Lines
    BY RunFacts DEF AllFine, Fine, TypeOK, Whole, Orderly
  <1>2. s.pc = "scan" /\ s.todo = <<>> /\ UNCHANGED <<proc, pidfile>>
    BY DEF D_Lock
  <1>3. DiagLocked'
    BY <1>1, <1>2, SameOwned, LockedKeeps DEF CommandStep, RunStep, OnStep
  <1>4. s.cmd = "all_on"
    BY <1>1, <1>2
    DEF AllFine, Fine, AllCommands, OnlyScenarioRuns, Shape, StartShape, Starting, OnCommands
  <1>5. (AllNone /\ s.active = {}) \/ (AllOwned /\ s.active = Lines)
    <2>1. \/ AllNone /\ s.active = {}
          \/ AllOwned /\ \A g \in Lines : g \in s.active \/ In(g, s.todo)
      BY <1>1, <1>2 DEF WholeShape
    <2>2. \A g \in Lines : ~In(g, s.todo)
      BY <1>2, InEmpty
    <2>3. (\A g \in Lines : g \in s.active) => s.active = Lines
      BY <1>1
    <2> QED BY <2>1, <2>2, <2>3
  <1>6. Lines # {}
    BY DEF Lines
  <1>7. CASE Abort(r) /\ s.active = {}
    BY <1>2, <1>5, <1>6, <1>7, <1>3, AbortWhole DEF AllNone, Starting
  <1>8. CASE /\ run' = [run EXCEPT ![r].pc = "spawn", ![r].todo = Targets(s.cmd)]
             /\ s.active = {} => lockHolders = {} /\ lockHolders' = {r}
    <2>1. run'[r].pc = "spawn" /\ run'[r].todo = Targets("all_on") /\ run'[r].active = s.active
      BY <1>1, <1>4, <1>8 DEF RunStates
    <2>2. s.active = {} => Fresh(run[r])'
      BY <1>2, <1>8, SameOwned DEF Fresh, DiagLocked, AllFine
    <2> QED BY <1>2, <1>3, <1>5, <1>6, <1>8, <2>1, <2>2, SameOwned, InTargets
            DEF WholeShape, AllNone, Reading, Ending
  <1> QED BY <1>7, <1>8 DEF D_Lock

LEMMA SkipWhole ==
  ASSUME NEW r, AllFine(r), D_Skip(r)
  PROVE  DiagLocked' /\ WholeShape(r)'
  <1>1. /\ run \in [Runs -> RunStates] /\ run[r] \in RunStates /\ r \in Runs /\ WholeShape(r)
    BY DEF AllFine, Fine, TypeOK, Whole
  <1>2. /\ run[r].pc = "spawn" /\ run[r].active # {} /\ UNCHANGED <<proc, pidfile>>
        /\ run'[r].pc = "spawn" /\ run'[r].active = run[r].active
    BY <1>1 DEF D_Skip, RunStates
  <1>3. DiagLocked'
    BY <1>1, <1>2, SameOwned, LockedKeeps DEF CommandStep, RunStep, OnStep
  <1>4. WholeShape(r)'
    BY <1>1, <1>2, SameOwned DEF WholeShape, Reading, Ending
  <1> QED BY <1>3, <1>4

\* A line is started by a run that has the lock, so its gpioset inherits it.
LEMMA SpawnWhole ==
  ASSUME NEW r, AllFine(r), D_Spawn(r)
  PROVE  DiagLocked' /\ WholeShape(r)'
  <1> DEFINE s == run[r]
  <1>1. /\ run \in [Runs -> RunStates] /\ s \in RunStates /\ r \in Runs /\ WholeShape(r)
        /\ proc \in [Pids -> ProcStates] /\ pidfile \in [Lines -> Pids \cup {None}]
        /\ s.todo \in Seq(Lines) /\ (s.todo # <<>> => Head(s.todo) \in Lines)
    BY RunFacts DEF AllFine, Fine, TypeOK, Whole
  <1>2. /\ s.pc = "spawn" /\ s.todo # <<>> /\ Head(s.todo) \notin s.active /\ UNCHANGED pidfile
    BY DEF D_Spawn
  <1>3. /\ s.active = {} /\ r \in lockHolders /\ Fresh(s)
        /\ \A g \in Lines : \/ pidfile[g] = None /\ In(g, s.todo)
                            \/ Owned(g) /\ In(g, s.started)
    BY <1>1, <1>2 DEF WholeShape
  <1>4. CASE Abort(r) /\ UNCHANGED proc
    <2>1. DiagLocked'
      BY <1>1, <1>2, <1>4, SameOwned, LockedKeeps DEF CommandStep, RunStep, OnStep
    <2> QED BY <1>2, <1>3, <1>4, <2>1, AbortWhole DEF Starting
  <1>5. ASSUME NEW p \in Pids, ~Alive(p),
               proc' = [proc EXCEPT ![p] = Spawned("diag", Head(s.todo))],
               lockHolders' = lockHolders \cup {p},
               run' = [run EXCEPT ![r].pc = "poll", ![r].cur = p]
        PROVE  DiagLocked' /\ WholeShape(r)'
    <2>1. /\ run'[r].pc = "poll" /\ run'[r].todo = s.todo /\ run'[r].active = s.active
          /\ run'[r].started = s.started
      BY <1>1, <1>5 DEF RunStates
    <2>2. \A q \in Pids \ {p} : proc'[q] = proc[q]
      BY <1>1, <1>5
    <2>3. DiagLocked'
      BY <1>5, <2>2 DEF DiagLocked, AllFine, AliveDiag, Alive
    <2>4. pidfile[Head(s.todo)] = None
      <3>1. In(Head(s.todo), s.todo)
        BY <1>1, <1>2, InTail
      <3> QED BY <1>1, <1>2, <3>1 DEF AllFine, Fine, Scanned, ScanShape
    <2>5. ASSUME NEW g \in Lines, Owned(g)
          PROVE  Owned(g)'
      <3>1. pidfile[g] \in Pids /\ pidfile[g] # p /\ g # Head(s.todo)
        BY <1>1, <1>5, <2>4, <2>5 DEF Owned, Sole, AliveDiag
      <3>2. proc'[p].gpio = Head(s.todo)
        BY <1>1, <1>5 DEF Spawned
      <3> QED BY <1>2, <2>2, <2>5, <3>1, <3>2 DEF Owned, Sole, AliveDiag, Alive
    <2>6. Fresh(run[r])'
      <3>1. s.cur = None /\ run'[r].cur = p
        BY <1>1, <1>2, <1>5 DEF AllFine, Fine, TypeOK, RunShape, RunStates
      <3> QED BY <1>2, <1>3, <2>2, <3>1, ConstantsAssumption DEF Fresh, AliveDiag, Alive
    <2>7. WholeShape(r)'
      BY <1>2, <1>3, <1>5, <2>1, <2>5, <2>6 DEF WholeShape, Reading, Ending
    <2> QED BY <2>3, <2>7
  <1> QED BY <1>3, <1>4, <1>5 DEF D_Spawn, FreePid

LEMMA PollWhole ==
  ASSUME NEW r, AllFine(r), D_Poll(r)
  PROVE  DiagLocked' /\ WholeShape(r)'
  <1> DEFINE s == run[r]
  <1>1. /\ run \in [Runs -> RunStates] /\ s \in RunStates /\ r \in Runs /\ WholeShape(r)
        /\ Shape(s)
    BY DEF AllFine, Fine, TypeOK, Whole, Orderly
  <1>2. s.pc = "poll" /\ UNCHANGED <<proc, pidfile, lockHolders>>
    BY DEF D_Poll
  <1>3. DiagLocked'
    BY <1>1, <1>2, SameOwned, LockedKeeps DEF CommandStep, RunStep, OnStep
  <1>4. /\ s.active = {} /\ r \in lockHolders /\ Fresh(s)
        /\ \A g \in Lines : \/ pidfile[g] = None /\ In(g, s.todo)
                            \/ Owned(g) /\ In(g, s.started)
    BY <1>1, <1>2 DEF WholeShape
  <1>5. CASE Abort(r)
    BY <1>2, <1>3, <1>4, <1>5, AbortWhole DEF Starting
  <1>6. CASE Alive(s.cur) /\ run' = [run EXCEPT ![r].pc = "record"]
    <2>1. /\ run'[r].pc = "record" /\ run'[r].todo = s.todo /\ run'[r].active = s.active
          /\ run'[r].started = s.started /\ run'[r].cur = s.cur
      BY <1>1, <1>6 DEF RunStates
    <2>2. AliveDiag(s.cur) /\ AliveDiag(run[r].cur)'
      BY <1>1, <1>2, <1>6, <2>1 DEF Shape, StartShape, AliveDiag, Alive
    <2>3. Fresh(run[r])'
      BY <1>2, <1>4, <2>1 DEF Fresh, AliveDiag, Alive
    <2> QED BY <1>2, <1>3, <1>4, <2>1, <2>2, <2>3, SameOwned DEF WholeShape, Reading, Ending
  <1> QED BY <1>5, <1>6 DEF D_Poll

LEMMA RecordWhole ==
  ASSUME NEW r, AllFine(r), D_Record(r)
  PROVE  DiagLocked' /\ WholeShape(r)'
  <1> DEFINE s == run[r]
             h == Head(s.todo)
             p == s.cur
  <1>1. /\ run \in [Runs -> RunStates] /\ s \in RunStates /\ r \in Runs /\ WholeShape(r)
        /\ Shape(s) /\ ScanShape(s) /\ pidfile \in [Lines -> Pids \cup {None}]
        /\ s.todo \in Seq(Lines) /\ s.started \in Seq(Lines)
    BY RunFacts DEF AllFine, Fine, TypeOK, Whole, Orderly, Scanned
  <1>2. /\ s.pc = "record" /\ UNCHANGED <<proc, lockHolders>> /\ s.todo # <<>>
        /\ p \in Pids /\ h \in Lines /\ stateDir /\ ~May("write_fail")
    BY <1>1, RunFacts
    DEF D_Record, AllFine, AllCommands, Fine, RunShape, Shape, StartShape, Starting, May
  <1>3. /\ pidfile' = [pidfile EXCEPT ![h] = p]
        /\ run' = [run EXCEPT ![r].pc = "spawn", ![r].todo = Tail(@), ![r].cur = None,
                              ![r].started = Append(@, h)]
    BY <1>2 DEF D_Record
  <1>4. /\ run'[r].pc = "spawn" /\ run'[r].todo = Tail(s.todo) /\ run'[r].active = s.active
        /\ run'[r].started = Append(s.started, h)
    BY <1>1, <1>3 DEF RunStates
  <1>5. Sole(p, h) /\ pidfile[h] = None
    <2>1. s.active = {} /\ Fresh(s) /\ AliveDiag(s.cur)
      BY <1>1, <1>2 DEF WholeShape
    <2> QED BY <1>1, <1>2, <2>1, RecordIsSole DEF AllFine, Fine
  <1>6. /\ s.active = {} /\ r \in lockHolders /\ Fresh(s)
        /\ \A g \in Lines : \/ pidfile[g] = None /\ In(g, s.todo)
                            \/ Owned(g) /\ In(g, s.started)
    BY <1>1, <1>2 DEF WholeShape
  <1> HIDE DEF h, p
  <1>7. \A q \in Pids : AliveDiag(q)' <=> AliveDiag(q)
    BY <1>2 DEF AliveDiag, Alive
  <1>8. DiagLocked'
    BY <1>7, LockedKeeps DEF CommandStep, RunStep, OnStep
  <1>9. /\ \A g : In(g, Append(s.started, h)) <=> In(g, s.started) \/ g = h
        /\ \A g : In(g, s.todo) => g = h \/ In(g, Tail(s.todo))
    BY <1>1, <1>2, InAppend, InTail DEF h
  <1>10. ASSUME NEW g \in Lines, g = h
         PROVE  Owned(g)'
    <2>1. pidfile'[g] = p /\ p # None
      BY <1>1, <1>2, <1>3, <1>10, ConstantsAssumption
    <2> QED BY <1>2, <1>5, <1>10, <2>1 DEF Owned, Sole, AliveDiag, Alive
  <1>11. ASSUME NEW g \in Lines, g # h
         PROVE  pidfile'[g] = pidfile[g] /\ (Owned(g) => Owned(g)')
    BY <1>1, <1>2, <1>3, <1>11 DEF Owned, Sole, AliveDiag, Alive
  <1>12. \A g \in Lines : \/ pidfile'[g] = None /\ In(g, Tail(s.todo))
                          \/ Owned(g)' /\ In(g, Append(s.started, h))
    <2> SUFFICES ASSUME NEW g \in Lines
                 PROVE  \/ pidfile'[g] = None /\ In(g, Tail(s.todo))
                        \/ Owned(g)' /\ In(g, Append(s.started, h))
      OBVIOUS
    <2>1. CASE g = h
      BY <1>9, <1>10, <2>1
    <2>2. CASE g # h
      BY <1>6, <1>9, <1>11, <2>2
    <2> QED BY <2>1, <2>2
  <1>13. Fresh(run[r])'
    <2> SUFFICES ASSUME NEW q \in Pids, AliveDiag(q)
                 PROVE  pidfile'[proc[q].gpio] = q
      BY <1>2, <1>7 DEF Fresh
    <2>1. CASE q = p
      BY <1>1, <1>2, <1>3, <1>5, <2>1 DEF Sole
    <2>2. CASE q # p
      <3>1. pidfile[proc[q].gpio] = q /\ proc[q].gpio \in Lines
        BY <1>6, <2>2 DEF Fresh, p, AllFine, Fine, TypeOK, ProcStates
      <3>2. proc[q].gpio # h
        BY <1>5, <3>1, ConstantsAssumption
      <3> QED BY <1>1, <1>3, <3>1, <3>2
    <2> QED BY <2>1, <2>2
  <1>14. WholeShape(r)'
    BY <1>2, <1>4, <1>6, <1>12, <1>13 DEF WholeShape, Reading, Ending
  <1> QED BY <1>8, <1>14

LEMMA StopWhole ==
  ASSUME NEW r, AllFine(r), StopStep(r), ~D_Finish(r)
  PROVE  DiagLocked' /\ WholeShape(r)'
  <1> DEFINE s == run[r]
  <1>1. /\ run \in [Runs -> RunStates] /\ s \in RunStates /\ r \in Runs /\ WholeShape(r)
        /\ proc \in [Pids -> ProcStates]
    BY DEF AllFine, Fine, TypeOK, Whole
  <1>2. s.pc \in Reading \cup Ending
    BY DEF StopStep, D_Read, D_ReadUnlink, D_ReadDone, D_Low, D_Kill, D_KillUnlink, Reading, Ending
  <1>3. run'[r].pc \in Reading \cup Ending
    <2> USE DEF Reading, Ending, RunStates
    <2>1. CASE D_Read(r)
      BY <1>1, <2>1 DEF D_Read
    <2>2. CASE D_ReadUnlink(r) \/ D_ReadDone(r)
      BY <1>1, <2>2 DEF D_ReadUnlink, D_ReadDone
    <2>3. CASE D_Low(r)
      BY <1>1, <2>3, AllIsOrderly DEF D_Low, AllFine
    <2>4. CASE D_Kill(r) \/ D_KillUnlink(r)
      BY <1>1, <2>4 DEF D_Kill, D_KillUnlink
    <2> QED BY <2>1, <2>2, <2>3, <2>4 DEF StopStep
  <1>4. \A g \in Lines : Kept(g, s)
    BY <1>1, <1>2 DEF WholeShape
  <1>5. \A g \in Lines : Kept(g, s)'
    BY <1>1, <1>4, ReadKept, EndKept DEF StopStep, AllFine, Fine
  <1>6. \A q \in Pids : AliveDiag(q)' => AliveDiag(q)
    BY <1>1 DEF StopStep, D_Read, D_ReadUnlink, D_ReadDone, D_Low, D_Kill, D_KillUnlink, Signal,
                AliveDiag, Alive, ProcStates
  <1>7. DiagLocked'
    BY <1>6, LockedKeeps DEF CommandStep, RunStep
  <1>8. WholeShape(r)'
    BY <1>3, <1>5 DEF WholeShape, Reading, Ending
  <1> QED BY <1>7, <1>8

LEMMA FinishWhole ==
  ASSUME NEW r, AllFine(r), D_Finish(r)
  PROVE  DiagLocked' /\ WholeShape(r)'
  <1> DEFINE s == run[r]
  <1>1. /\ run \in [Runs -> RunStates] /\ s \in RunStates /\ r \in Runs /\ WholeShape(r)
    BY DEF AllFine, Fine, TypeOK, Whole
  <1>2. /\ AtEnd(r) /\ UNCHANGED <<proc, pidfile>> /\ run'[r].pc = "idle"
    BY <1>1 DEF D_Finish, IdleRun
  <1>3. DiagLocked'
    BY <1>2, SameOwned, LockedKeeps DEF CommandStep, RunStep, StopStep
  <1>4. AllNone \/ AllOwned
    <2>1. CASE s.pc = "spawn" /\ s.todo = <<>>
      BY <1>1, <2>1, InEmpty DEF WholeShape, AllOwned
    <2>2. CASE s.pc = "low" /\ s.todo = <<>> /\ s.owners = <<>>
      BY <1>1, <2>2, InEmpty DEF WholeShape, AllNone, Kept, Noted, Reading, Ending
    <2> QED BY <1>1, <1>2, <2>1, <2>2 DEF AtEnd, WholeShape
  <1>5. WholeShape(r)'
    BY <1>2, <1>4, SameOwned DEF WholeShape, Reading, Ending
  <1> QED BY <1>3, <1>5

LEMMA CommandKeepsAll ==
  ASSUME NEW r, AllFine(r), CommandStep(r), UNCHANGED scenario
  PROVE  OwnersKnown' /\ DiagLocked' /\ AgentWaits' /\ Whole'
  <1>1. ~D_Killed(r)
    BY AllIsOrderly DEF D_Killed, AllFine, OrderlyCommands, May
  <1>2. DiagLocked' /\ WholeShape(r)'
    BY <1>1, StartWhole, ScanWhole, ScanUnlinkWhole, LockWhole, SkipWhole, SpawnWhole, PollWhole,
       RecordWhole, StopWhole, FinishWhole
    DEF CommandStep, RunStep, OnStep
  <1>3. AgentWaits'
    BY CommandProc DEF AllFine, Fine, AgentWaits
  <1>4. OwnersKnown'
    BY CommandProc DEF AllFine, Fine, OwnersKnown, Alive
  <1> QED BY <1>2, <1>3, <1>4, OnlyR

FullInv == CmdInv /\ PulseInv /\ AllInv

LEMMA FullInvInductive == FullInv /\ [Next]_vars => FullInv'
  <1> SUFFICES ASSUME FullInv, [Next]_vars
               PROVE  FullInv'
    OBVIOUS
  <1>1. CmdInv' /\ PulseInv'
    BY CmdInvInductive, PulseInvInductive DEF FullInv
  <1>2. CASE UNCHANGED vars
    BY <1>1, <1>2
    DEF vars, sysVars, FullInv, AllInv, AllCommands, OwnersKnown, DiagLocked, AgentWaits, Whole,
        WholeShape, AllNone, AllOwned, Owned, Sole, Fresh, Kept, Noted, AliveDiag, Alive
  <1>3. ASSUME EnvStep, UNCHANGED scenario
        PROVE  FullInv'
    <2>1. SameDiag
      BY <1>3, EnvSameDiag DEF FullInv, CmdInv
    <2>2. AllCommands' => AllCommands
      BY <1>3 DEF AllCommands
    <2> QED BY <1>1, <1>3, <2>1, <2>2, EnvKeepsAll DEF FullInv, AllInv
  <1>4. ASSUME NEW r \in Runs, CommandStep(r), UNCHANGED scenario
        PROVE  FullInv'
    <2>1. AllCommands' => AllCommands
      BY <1>4 DEF AllCommands
    <2>2. Basics /\ Basics'
      BY <1>1 DEF FullInv, CmdInv, Basics
    <2>3. r \in scenario.runs
      BY <1>4, <2>2, CommandRuns
    <2>4. AllCommands => AllFine(r)
      BY <1>4, <2>3, AllIsOrderly DEF FullInv, CmdInv, AllInv, AllFine, Fine, Slow, May
    <2> QED BY <1>1, <1>4, <2>1, <2>4, CommandKeepsAll DEF FullInv, AllInv
  <1> QED BY <1>2, <1>3, <1>4, NextSteps DEF FullInv, CmdInv

LEMMA FullInvInit == Init => FullInv
  <1> SUFFICES ASSUME Init
               PROVE  FullInv
    OBVIOUS
  <1>1. CmdInv
    BY CmdInvInit
  <1>2. PulseInv
    BY InitType DEF Init, PulseInv, LockInv, ControllerHeld, PulseOwnsLock, IdleThread,
                    AgentChildren, OneChild, AliveAgent, Alive, NoProc
  <1>3. OwnersKnown /\ DiagLocked /\ AgentWaits
    BY DEF Init, OwnersKnown, DiagLocked, AgentWaits, AliveDiag, Alive, NoProc, IdleThread
  <1>4. Whole
    <2>1. scenario.runs \subseteq Runs
      BY ConstantsAssumption DEF Init, ScenarioTypes
    <2> QED BY <2>1 DEF Init, Whole, WholeShape, AllNone, IdleRun, Reading, Ending
  <1> QED BY <1>1, <1>2, <1>3, <1>4 DEF FullInv, AllInv

\* When all-on and all-off alone are given, one at a time, and nothing fails but
\* popen and the start of a gpioset may be slow, agent and pcdog-test never own outputs at the same time: every diagnostic
\* gpioset holds the lock that every pulse needs (OutputLock, _set_active).
THEOREM ExclusiveWithAllCommandsHolds == Spec => []ExclusiveWithAllCommands
  <1>1. ASSUME FullInv
        PROVE  ExclusiveWithAllCommands
    <2> SUFFICES ASSUME AllCommands, NEW p \in Pids, NEW q \in Pids, AliveAgent(p), AliveDiag(q)
                 PROVE  FALSE
      BY DEF ExclusiveWithAllCommands, ExclusiveOwnership, AllCommands
    <2> QED BY <1>1, NeverBoth DEF FullInv, AllInv
  <1> QED BY <1>1, FullInvInit, FullInvInductive, PTL DEF Spec
-----------------------------------------------------------------------------
(* LOW before the end, whoever runs                                        *)

\* p drives line g for pcdog-test.
Drives(p, g) == AliveDiag(p) /\ proc[p].st = "driving" /\ proc[p].gpio = g

\* What a run has noted drives its line, and is LOW once it may be signalled; what
\* it has started is on the line it works on.
SafeRun(s) ==
  /\ \A o \in Owners : In(o, s.owners) /\ Alive(o.pid) =>
       /\ Drives(o.pid, o.gpio)
       /\ s.pc \in Ending => In(o.gpio, s.todo) \/ level[o.gpio] = "inactive"
  /\ s.pc \in {"poll", "record"} /\ Alive(s.cur) =>
       AliveDiag(s.cur) /\ proc[s.cur].gpio = Head(s.todo)
  /\ s.pc = "record" /\ Alive(s.cur) => proc[s.cur].st = "driving"

FilesName ==
  \A g \in Lines : pidfile[g] # None /\ Alive(pidfile[g]) => Drives(pidfile[g], g)
SignalledLow ==
  \A p \in Pids :
    AliveDiag(p) /\ proc[p].st = "driving" /\ proc[p].term => level[proc[p].gpio] = "inactive"

\* Processes end only when told to, keep their pids, and have their lines in time.
Steady == ~May("die") /\ ~May("pid_reuse") /\ ~May("slow_start")
LowFacts == (\A r \in Runs : SafeRun(run[r])) /\ FilesName /\ SignalledLow
LowInv == CmdInv /\ (Steady => LowFacts)

\* A process that goes on stays what it is and on its line, a new one has a pid that
\* was free, and a line that somebody drives is not set active again.
Gentle ==
  /\ \A q \in Pids : Alive(q)' =>
       \/ FreePid(q)
       \/ /\ Alive(q) /\ proc'[q].owner = proc[q].owner /\ proc'[q].gpio = proc[q].gpio
          /\ proc[q].st = "driving" => proc'[q].st = "driving"
  /\ \A g \in Lines :
       \/ level'[g] \in {level[g], "inactive"}
       \/ \A q \in Pids : ~(proc[q].st = "driving" /\ proc[q].gpio = g)

LEMMA StepGentle ==
  ASSUME TypeOK, Next
  PROVE  Gentle
  <1> USE DEF TypeOK, ProcStates, Alive
  <1>1. ASSUME NEW p \in Pids, ProcRequest(p)
        PROVE  Gentle
    BY <1>1 DEF ProcRequest, NoProc, Gentle
  <1>2. ASSUME NEW p \in Pids, ProcToggle(p) \/ ProcEnd(p)
        PROVE  Gentle
    BY <1>2 DEF ProcToggle, ProcEnd, NoProc, Gentle
  <1>3. CASE UNCHANGED <<proc, level>>
    BY <1>3 DEF Gentle
  <1>4. ASSUME NEW p \in Pids, NEW g, NEW who, FreePid(p), UNCHANGED level,
               proc' = [proc EXCEPT ![p] = Spawned(who, g)]
        PROVE  Gentle
    BY <1>4 DEF Gentle, Spawned
  <1>5. ASSUME NEW t \in Threads, A_Spawn(t)
        PROVE  Gentle
    BY <1>3, <1>4, <1>5 DEF A_Spawn
  <1>6. ASSUME NEW r \in Runs, D_Spawn(r)
        PROVE  Gentle
    BY <1>3, <1>4, <1>6 DEF D_Spawn
  <1>7. ASSUME NEW p, Signal(p), UNCHANGED level
        PROVE  Gentle
    BY <1>7 DEF Signal, Gentle
  <1>8. ASSUME NEW t \in Threads, A_Terminate(t)
        PROVE  Gentle
    BY <1>7, <1>8 DEF A_Terminate
  <1>9. ASSUME NEW r \in Runs, D_Kill(r)
        PROVE  Gentle
    BY <1>7, <1>9 DEF D_Kill
  <1>10. ASSUME NEW r \in Runs, D_Low(r)
         PROVE  Gentle
    BY <1>10 DEF D_Low, Gentle
  <1>11. ASSUME NEW t \in Threads, AgentStep(t) \/ \E g \in Lines : A_Begin(t, g)
         PROVE  Gentle
    BY <1>3, <1>5, <1>8, <1>11 DEF AgentStep, A_Begin, A_Lock, A_Reap, A_Timeout, A_Stopped
  <1>12. ASSUME NEW r \in Runs, CommandStep(r)
         PROVE  Gentle
    BY <1>3, <1>6, <1>9, <1>10, <1>12
    DEF CommandStep, RunStep, OnStep, StopStep, D_Start, D_Scan, D_ScanUnlink, D_Lock, D_Skip,
        D_Poll, D_Record, D_Read, D_ReadUnlink, D_ReadDone, D_KillUnlink, D_Finish, D_Killed
  <1>13. CASE AgentCrash \/ AgentRestart
    BY <1>3, <1>13 DEF AgentCrash, AgentRestart
  <1> QED BY <1>1, <1>2, <1>11, <1>12, <1>13, NextSteps DEF EnvStep

\* q was signalled while it drove its line, now or before.
Signalled(q) ==
  /\ AliveDiag(q) /\ proc[q].st = "driving"
  /\ proc[q].term \/ \E r \in Runs : D_Kill(r) /\ q = Head(run[r].owners).pid

\* Only a stop signals a diagnostic process that drives its line.
LEMMA StepSignals ==
  ASSUME TypeOK, ChildIsAgents, Next,
         NEW q \in Pids, AliveDiag(q)', proc'[q].st = "driving", proc'[q].term
  PROVE  Signalled(q)
  <1>1. proc \in [Pids -> ProcStates]
    BY DEF TypeOK
  <1>2. ASSUME NEW p \in Pids, ProcRequest(p) \/ ProcToggle(p) \/ ProcEnd(p)
        PROVE  Signalled(q)
    BY <1>1, <1>2
    DEF ProcRequest, ProcToggle, ProcEnd, NoProc, Signalled, AliveDiag, Alive, ProcStates
  <1>3. CASE UNCHANGED proc
    BY <1>3 DEF Signalled, AliveDiag, Alive
  <1>4. ASSUME NEW p \in Pids, NEW g, NEW who, proc' = [proc EXCEPT ![p] = Spawned(who, g)]
        PROVE  Signalled(q)
    BY <1>1, <1>4 DEF Spawned, Signalled, AliveDiag, Alive
  <1>5. ASSUME NEW t \in Threads, A_Terminate(t)
        PROVE  Signalled(q)
    <2>1. thread[t].child \in Pids /\ ~AliveDiag(thread[t].child)
      BY <1>5 DEF A_Terminate, ThreadStates, ChildIsAgents, TypeOK
    <2> QED BY <1>1, <1>5, <2>1
            DEF A_Terminate, Signal, Signalled, AliveDiag, Alive, ProcStates
  <1>6. ASSUME NEW r \in Runs, D_Kill(r)
        PROVE  Signalled(q)
    BY <1>1, <1>6 DEF D_Kill, Signal, Signalled, AliveDiag, Alive, ProcStates
  <1>7. ASSUME NEW t \in Threads, AgentStep(t) \/ \E g \in Lines : A_Begin(t, g)
        PROVE  Signalled(q)
    <2>1. CASE A_Spawn(t)
      BY <1>3, <1>4, <2>1 DEF A_Spawn
    <2> QED BY <1>3, <1>5, <1>7, <2>1
            DEF AgentStep, A_Begin, A_Lock, A_Reap, A_Timeout, A_Stopped
  <1>8. ASSUME NEW r \in Runs, CommandStep(r)
        PROVE  Signalled(q)
    <2>1. CASE D_Spawn(r)
      BY <1>3, <1>4, <2>1 DEF D_Spawn
    <2> QED BY <1>3, <1>6, <1>8, <2>1
            DEF CommandStep, RunStep, OnStep, StopStep, D_Start, D_Scan, D_ScanUnlink, D_Lock,
                D_Skip, D_Poll, D_Record, D_Read, D_ReadUnlink, D_ReadDone, D_Low,
                D_KillUnlink, D_Finish, D_Killed
  <1>9. CASE AgentCrash \/ AgentRestart
    BY <1>3, <1>9 DEF AgentCrash, AgentRestart
  <1> QED BY <1>2, <1>7, <1>8, <1>9, NextSteps DEF EnvStep

\* The pids that a run or a pid file names are not given to other processes.
Held(s) ==
  /\ \A o \in Owners : In(o, s.owners) => ~FreePid(o.pid)
  /\ s.pc \in {"poll", "record"} => s.cur \in Pids /\ ~FreePid(s.cur)

LEMMA RunHeld ==
  ASSUME TypeOK, ~May("pid_reuse"), NEW r \in Runs
  PROVE  Held(run[r])
  <1>1. DOMAIN run[r].owners = 1..Len(run[r].owners)
    BY RunFacts, LenProperties
  <1>2. ASSUME NEW o \in Owners, In(o, run[r].owners)
        PROVE  ~FreePid(o.pid)
    BY <1>1, <1>2 DEF In, FreePid
  <1>3. run[r].pc \in {"poll", "record"} => run[r].cur \in Pids
    BY RunFacts
  <1> QED BY <1>2, <1>3 DEF Held, FreePid

\* What a run knows stays true whatever step is taken, its own included.
LEMMA SafeStays ==
  ASSUME TypeOK, Gentle
  PROVE  \A s : SafeRun(s) /\ Held(s) => SafeRun(s)'
  <1> SUFFICES ASSUME NEW s, SafeRun(s), Held(s)
               PROVE  SafeRun(s)'
    OBVIOUS
  <1>1. ASSUME NEW o \in Owners, In(o, s.owners), Alive(o.pid)'
        PROVE  /\ Drives(o.pid, o.gpio)'
               /\ s.pc \in Ending => In(o.gpio, s.todo) \/ level'[o.gpio] = "inactive"
    <2>1. o.pid \in Pids /\ o.gpio \in Lines /\ ~FreePid(o.pid)
      BY <1>1 DEF Owners, Held
    <2>2. Alive(o.pid) /\ Drives(o.pid, o.gpio)
      BY <1>1, <2>1 DEF Gentle, SafeRun
    <2>3. Drives(o.pid, o.gpio)'
      BY <1>1, <2>1, <2>2 DEF Gentle, Drives, AliveDiag
    <2>4. level'[o.gpio] \in {level[o.gpio], "inactive"}
      BY <2>1, <2>2 DEF Gentle, Drives
    <2> QED BY <1>1, <2>2, <2>3, <2>4 DEF SafeRun
  <1>2. ASSUME s.pc \in {"poll", "record"}, Alive(s.cur)'
        PROVE  /\ AliveDiag(s.cur)' /\ proc'[s.cur].gpio = Head(s.todo)
               /\ s.pc = "record" => proc'[s.cur].st = "driving"
    <2>1. s.cur \in Pids /\ ~FreePid(s.cur)
      BY <1>2 DEF Held
    <2>2. /\ Alive(s.cur) /\ proc'[s.cur].owner = proc[s.cur].owner
          /\ proc'[s.cur].gpio = proc[s.cur].gpio
          /\ proc[s.cur].st = "driving" => proc'[s.cur].st = "driving"
      BY <1>2, <2>1 DEF Gentle
    <2> QED BY <1>2, <2>2 DEF SafeRun, AliveDiag
  <1> QED BY <1>1, <1>2 DEF SafeRun

\* A run that neither notes nor starts anything knows no more than before.
LEMMA SafeLess ==
  ASSUME NEW s, NEW n, SafeRun(s)',
         \A o \in Owners : In(o, n.owners) => In(o, s.owners),
         n.pc \notin {"poll", "record"},
         n.pc \in Ending =>
           \A o \in Owners : In(o, n.owners) =>
             \/ s.pc \in Ending /\ (In(o.gpio, s.todo) => In(o.gpio, n.todo))
             \/ In(o.gpio, n.todo) \/ level'[o.gpio] = "inactive"
  PROVE  SafeRun(n)'
  BY DEF SafeRun

LEMMA OnStepSafe ==
  ASSUME TypeOK, FilesName, ~May("slow_start"), NEW r \in Runs, NEW s, NEW n, SafeRun(s)', s = run[r],
         n = run'[r], OnStep(r)
  PROVE  SafeRun(n)'
  <1>1. /\ run \in [Runs -> RunStates] /\ s \in RunStates /\ proc \in [Pids -> ProcStates]
        /\ s.pc \in {"poll", "record"} => s.cur \in Pids
    BY RunFacts DEF TypeOK
  <1>2. CASE Abort(r)
    <2>1. n.owners = <<>> /\ n.pc = "read"
      BY <1>1, <1>2 DEF Abort, RunStates
    <2> QED BY <2>1, InEmpty, SafeLess DEF Ending
  <1>3. CASE n.owners = s.owners /\ n.pc \in {"scan", "scan_unlink", "spawn"}
    BY <1>3, SafeLess DEF Ending
  <1>4. CASE D_Scan(r) \/ D_ScanUnlink(r) \/ D_Skip(r)
    BY <1>1, <1>3, <1>4 DEF D_Scan, D_ScanUnlink, D_Skip, RunStates
  <1>5. CASE D_Lock(r)
    BY <1>1, <1>2, <1>3, <1>5 DEF D_Lock, RunStates
  <1>6. ASSUME NEW p \in Pids, D_Spawn(r),
               proc' = [proc EXCEPT ![p] = Spawned("diag", Head(run[r].todo))],
               run' = [run EXCEPT ![r].pc = "poll", ![r].cur = p]
        PROVE  SafeRun(n)'
    <2>1. /\ n.owners = s.owners /\ n.pc = "poll" /\ n.cur = p /\ n.todo = s.todo
      BY <1>1, <1>6 DEF RunStates
    <2>2. AliveDiag(p)' /\ proc'[p].gpio = Head(n.todo)
      BY <1>1, <1>6, <2>1 DEF Spawned, AliveDiag, Alive
    <2> QED BY <2>1, <2>2 DEF SafeRun, Ending
  <1>7. CASE D_Spawn(r)
    BY <1>2, <1>6, <1>7 DEF D_Spawn
  <1>8. CASE D_Poll(r) /\ ~Abort(r)
    <2>1. /\ n.owners = s.owners /\ n.pc = "record" /\ n.cur = s.cur /\ n.todo = s.todo
          /\ s.pc = "poll" /\ UNCHANGED proc /\ proc[s.cur].st # "starting"
      BY <1>1, <1>8 DEF D_Poll, RunStates
    <2>2. Alive(s.cur)' => proc'[s.cur].st = "driving"
      BY <1>1, <2>1 DEF Alive, ProcStates
    <2> QED BY <2>1, <2>2 DEF SafeRun, Ending
  <1>9. CASE D_Record(r)
    BY <1>1, <1>2, <1>3, <1>9 DEF D_Record, RunStates
  <1> QED BY <1>2, <1>4, <1>5, <1>7, <1>8, <1>9 DEF OnStep

LEMMA StopStepSafe ==
  ASSUME TypeOK, FilesName, NEW r \in Runs, NEW s, NEW n, SafeRun(s)', s = run[r], n = run'[r],
         StopStep(r)
  PROVE  SafeRun(n)'
  <1>1. /\ run \in [Runs -> RunStates] /\ s \in RunStates
        /\ s.todo \in Seq(Lines) /\ s.owners \in Seq(Owners)
        /\ s.todo # <<>> => Head(s.todo) \in Lines
        /\ pidfile \in [Lines -> Pids \cup {None}] /\ level \in [Lines -> {"active", "inactive"}]
    BY RunFacts DEF TypeOK
  <1>2. CASE n.owners = s.owners /\ n.pc \in {"read", "read_unlink", "finish"}
    BY <1>2, SafeLess DEF Ending
  <1>3. CASE D_Read(r)
    <2>1. CASE ~IsOwner(pidfile[Head(s.todo)])
      BY <1>1, <1>2, <1>3, <2>1 DEF D_Read, RunStates, IsOwner
    <2>2. CASE IsOwner(pidfile[Head(s.todo)])
      <3>1. PICK g \in Lines, p \in Pids : g = Head(s.todo) /\ p = pidfile[g]
        BY <1>1, <1>3, <2>2 DEF D_Read, IsOwner
      <3>2. /\ n.owners = Append(s.owners, [gpio |-> g, pid |-> p]) /\ n.pc = "read"
            /\ UNCHANGED proc
        BY <1>1, <1>3, <2>2, <3>1 DEF D_Read, RunStates, IsOwner
      <3>3. Drives(p, g)
        BY <2>2, <3>1 DEF IsOwner, FilesName, AliveDiag
      <3>4. [gpio |-> g, pid |-> p] \in Owners /\ Drives(p, g)'
        BY <3>2, <3>3 DEF Owners, Drives, AliveDiag, Alive
      <3>5. \A o \in Owners :
              In(o, n.owners) => In(o, s.owners) \/ (o.gpio = g /\ o.pid = p)
        BY <1>1, <3>2, <3>4, InAppend
      <3> QED BY <3>2, <3>4, <3>5 DEF SafeRun, Ending
    <2> QED BY <2>1, <2>2
  <1>4. CASE D_ReadUnlink(r)
    BY <1>1, <1>2, <1>4 DEF D_ReadUnlink, RunStates
  <1>5. CASE D_ReadDone(r)
    <2> DEFINE lines == [i \in 1..Len(s.owners) |-> s.owners[i].gpio]
    <2>1. n.owners = s.owners /\ n.pc = "low" /\ n.todo = lines
      BY <1>1, <1>5 DEF D_ReadDone, RunStates
    <2>2. ASSUME NEW o \in Owners, In(o, s.owners)
          PROVE  In(o.gpio, lines)
      <3>1. PICK i \in 1..Len(s.owners) : s.owners[i] = o
        BY <2>2 DEF In
      <3>2. Len(lines) = Len(s.owners)
        BY <1>1, LenProperties
      <3>3. lines[i] = o.gpio
        BY <3>1
      <3> HIDE DEF lines
      <3> QED BY <3>2, <3>3 DEF In
    <2> HIDE DEF lines
    <2> QED BY <2>1, <2>2, SafeLess
  <1>6. CASE D_Low(r)
    <2>1. s.pc = "low" /\ s.todo # <<>> /\ n.owners = s.owners
      BY <1>1, <1>6 DEF D_Low, RunStates
    <2>2. CASE n.pc = "finish"
      BY <1>2, <2>1, <2>2
    <2>3. CASE /\ level' = [level EXCEPT ![Head(s.todo)] = "inactive"]
               /\ n.todo = Tail(s.todo) /\ n.pc = "low"
      <3>1. level'[Head(s.todo)] = "inactive"
        BY <1>1, <2>1, <2>3
      <3>2. \A g : In(g, s.todo) => g = Head(s.todo) \/ In(g, n.todo)
        BY <1>1, <2>1, <2>3, InTail
      <3> QED BY <2>1, <2>3, <3>1, <3>2, SafeLess DEF Ending
    <2> QED BY <1>1, <1>6, <2>2, <2>3 DEF D_Low, RunStates
  <1>7. CASE D_Kill(r)
    <2>1. s.pc = "low" /\ n.owners = s.owners /\ n.todo = s.todo /\ n.pc = "kill_unlink"
      BY <1>1, <1>7 DEF D_Kill, RunStates
    <2> QED BY <2>1, SafeLess DEF Ending
  <1>8. CASE D_KillUnlink(r)
    <2>1. /\ s.pc = "kill_unlink" /\ n.owners = Tail(s.owners) /\ n.todo = s.todo
          /\ n.pc = "low"
      BY <1>1, <1>8 DEF D_KillUnlink, RunStates
    <2>2. s.owners # <<>>
      BY <2>1, RunFacts DEF RunShape
    <2>3. \A o : In(o, n.owners) => In(o, s.owners)
      BY <1>1, <2>1, <2>2, InTail
    <2> QED BY <2>1, <2>3, SafeLess DEF Ending
  <1>9. CASE D_Finish(r)
    <2>1. n.owners = <<>> /\ n.pc = "idle"
      BY <1>1, <1>9 DEF D_Finish, IdleRun
    <2> QED BY <2>1, InEmpty, SafeLess DEF Ending
  <1> QED BY <1>3, <1>4, <1>5, <1>6, <1>7, <1>8, <1>9 DEF StopStep

LEMMA CommandSafe ==
  ASSUME TypeOK, FilesName, ~May("slow_start"), NEW r \in Runs, NEW s, NEW n, SafeRun(s)',
         s = run[r], n = run'[r], CommandStep(r)
  PROVE  SafeRun(n)'
  <1>1. ASSUME n.owners = <<>>, n.pc \in {"idle", "scan", "read"}
        PROVE  SafeRun(n)'
    BY <1>1, InEmpty, SafeLess DEF Ending
  <1>2. run \in [Runs -> RunStates]
    BY DEF TypeOK
  <1>3. CASE D_Killed(r)
    BY <1>1, <1>2, <1>3 DEF D_Killed, IdleRun
  <1>4. ASSUME NEW c \in OnCommands \cup OffCommands, D_Start(r, c)
        PROVE  SafeRun(n)'
    BY <1>1, <1>2, <1>4 DEF D_Start, IdleRun
  <1> QED BY <1>3, <1>4, OnStepSafe, StopStepSafe DEF CommandStep, RunStep

LEMMA StepSafe ==
  ASSUME TypeOK, Steady, LowFacts, Next, NEW r \in Runs
  PROVE  SafeRun(run[r])'
  <1>1. PICK s, n : s = run[r] /\ n = run'[r]
    OBVIOUS
  <1>2. SafeRun(s)'
    <2>1. SafeRun(s) /\ Held(s)
      BY <1>1, RunHeld DEF LowFacts, Steady
    <2> QED BY <2>1, StepGentle, SafeStays
  <1>3. CASE run'[r] = run[r]
    <2>1. n = s
      BY <1>1, <1>3
    <2> QED BY <1>1, <1>2, <2>1 DEF SafeRun
  <1>4. CASE CommandStep(r)
    <2>1. SafeRun(n)'
      BY <1>1, <1>2, <1>4, CommandSafe DEF LowFacts, Steady
    <2> QED BY <1>1, <2>1 DEF SafeRun
  <1>5. ASSUME NEW q \in Runs, q # r, CommandStep(q)
        PROVE  run'[r] = run[r]
    BY <1>5, CommandRun
  <1>6. EnvStep => run' = run
    BY DEF EnvStep, ProcRequest, ProcToggle, ProcEnd, AgentStep, A_Begin, A_Lock, A_Spawn, A_Reap,
           A_Timeout, A_Terminate, A_Stopped, AgentCrash, AgentRestart
  <1> QED BY <1>3, <1>4, <1>5, <1>6, NextSteps

\* A pid file is written with the process just started, or loses its pid.
LEMMA StepFiles ==
  ASSUME TypeOK, Steady, LowFacts, Next
  PROVE  FilesName'
  <1> SUFFICES ASSUME NEW g \in Lines, pidfile'[g] # None, Alive(pidfile[g])'
               PROVE  Drives(pidfile[g], g)'
    BY DEF FilesName
  <1>1. PICK p : p = pidfile'[g]
    OBVIOUS
  <1>2. p \in Pids /\ Alive(p)'
    <2>1. TypeOK'
      BY TypeInductive
    <2> QED BY <1>1, <2>1 DEF TypeOK, Alive
  <1>3. CASE pidfile'[g] = pidfile[g]
    <2>1. ~FreePid(p)
      BY <1>1, <1>3 DEF FreePid, Steady
    <2>2. Alive(p) /\ Drives(p, g)
      BY <1>1, <1>2, <1>3, <2>1, StepGentle DEF Gentle, LowFacts, FilesName
    <2>3. Drives(p, g)'
      BY <1>2, <2>1, <2>2, StepGentle DEF Gentle, Drives, AliveDiag
    <2> QED BY <1>1, <2>3 DEF Drives, AliveDiag, Alive
  <1>4. ASSUME NEW r \in Runs, D_Record(r), pidfile'[g] # pidfile[g]
        PROVE  Drives(p, g)'
    <2>1. run[r].pc = "record" /\ p = run[r].cur /\ g = Head(run[r].todo) /\ UNCHANGED proc
      BY <1>1, <1>4 DEF D_Record, TypeOK
    <2>2. Drives(p, g)
      BY <1>2, <2>1 DEF LowFacts, SafeRun, Drives, Alive
    <2> QED BY <2>1, <2>2 DEF Drives, AliveDiag, Alive
  <1>5. ASSUME NEW r \in Runs, D_Record(r), pidfile'[g] # pidfile[g]
        PROVE  Drives(pidfile[g], g)'
    BY <1>1, <1>4, <1>5 DEF Drives, AliveDiag, Alive
  <1>6. ASSUME NEW r \in Runs, D_ScanUnlink(r) \/ D_ReadUnlink(r) \/ D_KillUnlink(r)
        PROVE  pidfile'[g] = pidfile[g]
    BY <1>6 DEF D_ScanUnlink, D_ReadUnlink, D_KillUnlink, TypeOK
  <1>7. ASSUME NEW r \in Runs, CommandStep(r)
        PROVE  pidfile' = pidfile \/ D_Record(r) \/ D_ScanUnlink(r) \/ D_ReadUnlink(r) \/ D_KillUnlink(r)
    BY <1>7
    DEF CommandStep, RunStep, OnStep, StopStep, D_Start, D_Scan, D_Lock, D_Skip, D_Spawn, D_Poll,
        D_Read, D_ReadDone, D_Low, D_Kill, D_Finish, D_Killed
  <1>8. EnvStep => pidfile' = pidfile
    BY DEF EnvStep, ProcRequest, ProcToggle, ProcEnd, AgentStep, A_Begin, A_Lock, A_Spawn, A_Reap,
           A_Timeout, A_Terminate, A_Stopped, AgentCrash, AgentRestart
  <1> QED BY <1>3, <1>5, <1>6, <1>7, <1>8, NextSteps

\* A stop signals only what it has set LOW, and what drives a LOW line leaves it LOW.
LEMMA StepSignalled ==
  ASSUME TypeOK, ChildIsAgents, Steady, LowFacts, Next
  PROVE  SignalledLow'
  <1> SUFFICES ASSUME NEW q \in Pids, AliveDiag(q)', proc'[q].st = "driving", proc'[q].term
               PROVE  level'[proc'[q].gpio] = "inactive"
    BY DEF SignalledLow
  <1>1. Signalled(q) /\ Gentle
    BY StepSignals, StepGentle
  <1>2. proc[q].gpio \in Lines /\ proc'[q].gpio = proc[q].gpio
    <2>1. ~FreePid(q) /\ Alive(q)'
      BY <1>1 DEF Signalled, FreePid, AliveDiag
    <2> QED BY <1>1, <2>1 DEF Gentle, TypeOK, ProcStates
  <1>3. level'[proc[q].gpio] \in {level[proc[q].gpio], "inactive"}
    BY <1>1, <1>2 DEF Gentle, Signalled
  <1>4. level[proc[q].gpio] = "inactive"
    <2>1. CASE proc[q].term
      BY <1>1, <2>1 DEF LowFacts, SignalledLow, Signalled
    <2>2. ASSUME NEW r \in Runs, D_Kill(r), q = Head(run[r].owners).pid
          PROVE  level[proc[q].gpio] = "inactive"
      <3> DEFINE o == Head(run[r].owners)
      <3>1. o \in Owners /\ In(o, run[r].owners) /\ o.pid = q
        BY <2>2, RunFacts, InTail DEF D_Kill
      <3>2. Alive(q) /\ run[r].pc \in Ending /\ ~In(o.gpio, run[r].todo)
        BY <1>1, <2>2, InEmpty DEF D_Kill, Ending, Signalled, AliveDiag
      <3> HIDE DEF o
      <3> QED BY <3>1, <3>2 DEF LowFacts, SafeRun, Drives
    <2> QED BY <1>1, <2>1, <2>2 DEF Signalled
  <1> QED BY <1>2, <1>3, <1>4

\* A diagnostic process that drives its line ends only when it was signalled.
LEMMA StepEnds ==
  ASSUME TypeOK, Steady, Next, NEW q \in Pids, AliveDiag(q), proc[q].st = "driving", ~Alive(q)'
  PROVE  proc[q].term
  <1>1. proc \in [Pids -> ProcStates]
    BY DEF TypeOK
  <1>2. ASSUME NEW p \in Pids, ProcRequest(p) \/ ProcToggle(p) \/ ProcEnd(p)
        PROVE  proc[q].term
    BY <1>1, <1>2 DEF ProcRequest, ProcToggle, ProcEnd, NoProc, AliveDiag, Alive, Steady
  <1>3. CASE UNCHANGED proc
    BY <1>3 DEF AliveDiag, Alive
  <1>4. ASSUME NEW p \in Pids, NEW g, NEW who, proc' = [proc EXCEPT ![p] = Spawned(who, g)]
        PROVE  FALSE
    BY <1>1, <1>4 DEF Spawned, AliveDiag, Alive
  <1>5. ASSUME NEW p, Signal(p)
        PROVE  FALSE
    BY <1>1, <1>5 DEF Signal, AliveDiag, Alive, ProcStates
  <1>6. EnvStep =>
          \/ UNCHANGED proc
          \/ \E p \in Pids : ProcRequest(p) \/ ProcToggle(p) \/ ProcEnd(p)
          \/ \E t \in Threads : A_Spawn(t) \/ A_Terminate(t)
    BY DEF EnvStep, AgentStep, A_Begin, A_Lock, A_Reap, A_Timeout, A_Stopped, AgentCrash,
           AgentRestart
  <1>7. ASSUME NEW r \in Runs, CommandStep(r)
        PROVE  UNCHANGED proc \/ D_Spawn(r) \/ D_Kill(r)
    BY <1>7
    DEF CommandStep, RunStep, OnStep, StopStep, D_Start, D_Scan, D_ScanUnlink, D_Lock, D_Skip,
        D_Poll, D_Record, D_Read, D_ReadUnlink, D_ReadDone, D_Low, D_KillUnlink, D_Finish,
        D_Killed
  <1>8. ASSUME NEW t \in Threads, A_Spawn(t) \/ A_Terminate(t)
        PROVE  proc[q].term
    BY <1>3, <1>4, <1>5, <1>8 DEF A_Spawn, A_Terminate
  <1>9. ASSUME NEW r \in Runs, D_Spawn(r) \/ D_Kill(r)
        PROVE  proc[q].term
    BY <1>3, <1>4, <1>5, <1>9 DEF D_Spawn, D_Kill
  <1> QED BY <1>2, <1>3, <1>6, <1>7, <1>8, <1>9, NextSteps

LEMMA LowInvInductive == LowInv /\ [Next]_vars => LowInv'
  <1> SUFFICES ASSUME LowInv, [Next]_vars
               PROVE  LowInv'
    OBVIOUS
  <1>1. CmdInv'
    BY CmdInvInductive DEF LowInv
  <1>2. Steady' => Steady
    BY DEF Steady, May, Next, vars
  <1>3. ASSUME Steady, Next
        PROVE  LowFacts'
    <2>1. (\A r \in Runs : SafeRun(run[r])')
      BY <1>3, StepSafe DEF LowInv, CmdInv
    <2> QED BY <1>3, <2>1, StepFiles, StepSignalled DEF LowInv, CmdInv, LowFacts
  <1>4. ASSUME Steady, UNCHANGED vars
        PROVE  LowFacts'
    BY <1>4 DEF vars, sysVars, LowInv, LowFacts, SafeRun, FilesName, SignalledLow, Drives,
                AliveDiag, Alive
  <1> QED BY <1>1, <1>2, <1>3, <1>4 DEF LowInv

LEMMA LowInvInit == Init => LowInv
  <1> SUFFICES ASSUME Init
               PROVE  LowFacts
    BY CmdInvInit DEF LowInv
  <1>1. \A p \in Pids : ~Alive(p)
    BY DEF Init, NoProc, Alive
  <1>2. \A r \in Runs : run[r].owners = <<>> /\ run[r].pc = "idle"
    BY DEF Init, IdleRun
  <1>3. \A g \in Lines : pidfile[g] = None
    BY DEF Init
  <1> QED BY <1>1, <1>2, <1>3, InEmpty DEF LowFacts, SafeRun, FilesName, SignalledLow, AliveDiag,
                                           Ending

\* No command ends a diagnostic gpioset that drives its line before that line is LOW
\* (_stop_gpios), however many commands run at a time and whichever of them are killed:
\* what a pid file names drives its line, because it had 50 ms to take it, and a stop
\* sets all that it noted LOW first.
THEOREM OffReleasesAtLowHolds == Spec => OffReleasesAtLow
  <1>1. ASSUME LowInv, Next, Steady, NEW p \in Pids,
               AliveDiag(p), proc[p].st = "driving", ~Alive(p)'
        PROVE  level'[proc[p].gpio] = "inactive"
    <2>1. proc[p].gpio \in Lines /\ level'[proc[p].gpio] \in {level[proc[p].gpio], "inactive"}
      BY <1>1, StepGentle DEF LowInv, CmdInv, TypeOK, ProcStates, Gentle
    <2>2. proc[p].term
      BY <1>1, StepEnds DEF LowInv, CmdInv
    <2> QED BY <1>1, <2>1, <2>2 DEF LowInv, LowFacts, SignalledLow
  <1>2. LowInv /\ [Next]_vars =>
          [\A p \in Pids :
             /\ ~May("die") /\ ~May("pid_reuse") /\ ~May("slow_start")
             /\ AliveDiag(p) /\ proc[p].st = "driving" /\ ~Alive(p)'
             => level'[proc[p].gpio] = "inactive"]_vars
    BY <1>1 DEF Steady
  <1> QED BY <1>2, LowInvInit, LowInvInductive, PTL DEF Spec, OffReleasesAtLow
=============================================================================
