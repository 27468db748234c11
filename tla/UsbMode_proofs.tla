--------------------------- MODULE UsbMode_proofs ---------------------------
(***************************************************************************)
(* Proofs about UsbMode, for every set of scenarios: the types, one        *)
(* function in the gadget, and that a success and the mode file tell the   *)
(* truth about the gadget that runs.                                       *)
(***************************************************************************)
EXTENDS UsbMode, TLAPS

Building == {"function", "bind"}

\* What the gadget of a start consists of, step by step.
Shape ==
  /\ gadget = {} \/ gadget = {"dir"}
     \/ \E mode \in Modes : gadget = {"dir", mode} \/ gadget = {"dir", mode, "bound"}
  /\ job = "function" => gadget = {"dir"}
  /\ job = "bind" => gadget = {"dir", building}

Types ==
  /\ faults \in Scenarios
  /\ modeFile \in Modes \cup {"absent"} /\ building \in Modes
  /\ gadget \subseteq {"dir", "bound"} \cup Modes
  /\ unit \in {"inactive", "active", "failed"}
  /\ job \in {"none", "stop", "start", "function", "bind"}
  /\ reply \in {"none", "done", "failed"}
  /\ dhcp \in {"off", "queued", "active"}

Flags == udc \in BOOLEAN /\ late \in BOOLEAN /\ cut \in BOOLEAN

SwitchType ==
  sw \in [pc: {"idle", "write", "restart", "wait", "restore", "restart again", "wait again",
                "check gadget", "check dhcp"} \cup Ended,
          to: Modes, previous: Modes]

\* A service that is started is not active, and only an active service has its gadget
\* bound, unless a start that was ended has bound it.
ServiceAlone ==
  /\ job \in {"start"} \cup Building => unit # "active"
  /\ ~late /\ unit # "active" => "bound" \notin gadget

\* Where the switch stands.
SwitchStands ==
  /\ sw.pc \in {"restart", "wait", "check gadget", "check dhcp", "switched"} => modeFile = sw.to
  /\ sw.pc \in {"wait", "wait again"} /\ reply # "none" => job = "none"
  /\ sw.pc \in {"check gadget", "check dhcp", "switched"} => job = "none"
  /\ sw.pc \in {"check dhcp", "switched"} => unit = "active"

\* The mode file has not been changed since the service has begun to read it, or
\* the restart that reads it again has been ordered; a switch that was killed has not
\* cut the two apart.
Settled ==
  \/ sw.pc \in {"wait", "wait again", "check gadget", "check dhcp", "switched", "restored"}
  \/ ~cut /\ sw.pc \notin {"restart", "restart again"}

FileIsRead ==
  Settled =>
    /\ job \in Building => building = Configured
    /\ ~late /\ unit = "active" /\ job = "none" => Complete(Configured)

\* The inductive invariant.
IInv ==
  /\ Flags /\ Types /\ SwitchType
  /\ Shape /\ ServiceAlone /\ SwitchStands /\ FileIsRead

-----------------------------------------------------------------------------
(* The invariant is kept                                                   *)

LEMMA Start == Init => IInv
<1> SUFFICES ASSUME Init PROVE IInv
  OBVIOUS
<1>1. Flags
  BY DEF Init, Flags
<1>2. Types /\ SwitchType
  BY DEF Init, Types, SwitchType, Idle, Modes, Ended
<1>3. Shape /\ ServiceAlone /\ SwitchStands /\ FileIsRead
  BY DEF Init, Shape, ServiceAlone, SwitchStands, FileIsRead, Idle, Building
<1> QED  BY <1>1, <1>2, <1>3 DEF IInv

LEMMA FlagsStay == ASSUME Flags, [Next]_vars PROVE Flags'
  BY DEF Flags, Next, vars, service, JobEnds, Call, Cleanup, ConditionFails, AlreadyBound,
         RefuseGadget, MakeGadget, MakeFunction, Bind, BuildFails, BindTimesOut, StartDhcp,
         WriteMode, RestoreMode, WriteFails, Restart, Restarted, RestartedAgain,
         CheckGadget, CheckDhcp, Return, Killed, DhcpEnds, CleanupByHand, Reboot

\* Every action keeps every part of the invariant.
LEMMA Step == ASSUME IInv, [Next]_vars PROVE IInv'
<1> DEFINE Rest == Types /\ SwitchType /\ Shape /\ ServiceAlone /\ SwitchStands /\ FileIsRead
<1>0. Flags'
  BY FlagsStay DEF IInv
<1> SUFFICES Rest'
  BY <1>0 DEF IInv
<1> USE DEF IInv, Types, SwitchType, May, Building, Ended, Modes, Configured
<1>1. CASE UNCHANGED faults /\ Cleanup
  <2>1. Types'  BY <1>1 DEF Cleanup
  <2>2. SwitchType'  BY <1>1 DEF Cleanup
  <2>3. Shape'  BY <1>1 DEF Cleanup, Shape
  <2>4. ServiceAlone'  BY <1>1 DEF Cleanup, ServiceAlone
  <2>5. SwitchStands'  BY <1>1 DEF Cleanup, SwitchStands
  <2>6. FileIsRead'
    BY <1>1 DEF Cleanup, Shape, ServiceAlone, SwitchStands, FileIsRead, Settled, Complete
  <2> QED  BY <2>1, <2>2, <2>3, <2>4, <2>5, <2>6
<1>2. CASE UNCHANGED faults /\ ConditionFails
  <2>1. Types'  BY <1>2 DEF ConditionFails, JobEnds
  <2>2. SwitchType'  BY <1>2 DEF ConditionFails, JobEnds
  <2>3. Shape'  BY <1>2 DEF ConditionFails, JobEnds, Shape
  <2>4. ServiceAlone'  BY <1>2 DEF ConditionFails, JobEnds, ServiceAlone
  <2>5. SwitchStands'  BY <1>2 DEF ConditionFails, JobEnds, SwitchStands
  <2>6. FileIsRead'
    BY <1>2 DEF ConditionFails, JobEnds, Shape, ServiceAlone, SwitchStands, FileIsRead,
         Settled, Complete
  <2> QED  BY <2>1, <2>2, <2>3, <2>4, <2>5, <2>6
<1>3. CASE UNCHANGED faults /\ AlreadyBound
  <2>1. Types'  BY <1>3 DEF AlreadyBound, JobEnds
  <2>2. SwitchType'  BY <1>3 DEF AlreadyBound, JobEnds
  <2>3. Shape'  BY <1>3 DEF AlreadyBound, JobEnds, Shape
  <2>4. ServiceAlone'  BY <1>3 DEF AlreadyBound, JobEnds, ServiceAlone
  <2>5. SwitchStands'  BY <1>3 DEF AlreadyBound, JobEnds, SwitchStands
  <2>6. FileIsRead'
    BY <1>3 DEF AlreadyBound, JobEnds, Shape, ServiceAlone, SwitchStands, FileIsRead,
         Settled, Complete
  <2> QED  BY <2>1, <2>2, <2>3, <2>4, <2>5, <2>6
<1>4. CASE UNCHANGED faults /\ RefuseGadget
  <2>1. Types'  BY <1>4 DEF RefuseGadget, JobEnds
  <2>2. SwitchType'  BY <1>4 DEF RefuseGadget, JobEnds
  <2>3. Shape'  BY <1>4 DEF RefuseGadget, JobEnds, Shape
  <2>4. ServiceAlone'  BY <1>4 DEF RefuseGadget, JobEnds, ServiceAlone
  <2>5. SwitchStands'  BY <1>4 DEF RefuseGadget, JobEnds, SwitchStands
  <2>6. FileIsRead'
    BY <1>4 DEF RefuseGadget, JobEnds, Shape, ServiceAlone, SwitchStands, FileIsRead,
         Settled, Complete
  <2> QED  BY <2>1, <2>2, <2>3, <2>4, <2>5, <2>6
<1>5. CASE UNCHANGED faults /\ MakeGadget
  <2>1. Types'  BY <1>5 DEF MakeGadget
  <2>2. SwitchType'  BY <1>5 DEF MakeGadget
  <2>3. Shape'  BY <1>5 DEF MakeGadget, Shape
  <2>4. ServiceAlone'  BY <1>5 DEF MakeGadget, ServiceAlone
  <2>5. SwitchStands'  BY <1>5 DEF MakeGadget, SwitchStands
  <2>6. FileIsRead'
    BY <1>5 DEF MakeGadget, Shape, ServiceAlone, SwitchStands, FileIsRead, Settled, Complete
  <2> QED  BY <2>1, <2>2, <2>3, <2>4, <2>5, <2>6
<1>6. CASE UNCHANGED faults /\ MakeFunction
  <2>1. Types'  BY <1>6 DEF MakeFunction
  <2>2. SwitchType'  BY <1>6 DEF MakeFunction
  <2>3. Shape'  BY <1>6 DEF MakeFunction, Shape
  <2>4. ServiceAlone'  BY <1>6 DEF MakeFunction, ServiceAlone
  <2>5. SwitchStands'  BY <1>6 DEF MakeFunction, SwitchStands
  <2>6. FileIsRead'
    BY <1>6 DEF MakeFunction, Shape, ServiceAlone, SwitchStands, FileIsRead, Settled,
         Complete
  <2> QED  BY <2>1, <2>2, <2>3, <2>4, <2>5, <2>6
<1>7. CASE UNCHANGED faults /\ Bind
  <2>1. Types'  BY <1>7 DEF Bind, JobEnds
  <2>2. SwitchType'  BY <1>7 DEF Bind, JobEnds
  <2>3. Shape'  BY <1>7 DEF Bind, JobEnds, Shape
  <2>4. ServiceAlone'  BY <1>7 DEF Bind, JobEnds, ServiceAlone
  <2>5. SwitchStands'  BY <1>7 DEF Bind, JobEnds, SwitchStands
  <2>6. FileIsRead'
    BY <1>7 DEF Bind, JobEnds, Shape, ServiceAlone, SwitchStands, FileIsRead, Settled,
         Complete
  <2> QED  BY <2>1, <2>2, <2>3, <2>4, <2>5, <2>6
<1>8. CASE UNCHANGED faults /\ BuildFails
  <2>1. Types'  BY <1>8 DEF BuildFails, JobEnds
  <2>2. SwitchType'  BY <1>8 DEF BuildFails, JobEnds
  <2>3. Shape'  BY <1>8 DEF BuildFails, JobEnds, Shape
  <2>4. ServiceAlone'  BY <1>8 DEF BuildFails, JobEnds, ServiceAlone
  <2>5. SwitchStands'  BY <1>8 DEF BuildFails, JobEnds, SwitchStands
  <2>6. FileIsRead'
    BY <1>8 DEF BuildFails, JobEnds, Shape, ServiceAlone, SwitchStands, FileIsRead, Settled,
         Complete
  <2> QED  BY <2>1, <2>2, <2>3, <2>4, <2>5, <2>6
<1>9. CASE UNCHANGED faults /\ BindTimesOut
  <2>1. Types'  BY <1>9 DEF BindTimesOut, JobEnds
  <2>2. SwitchType'  BY <1>9 DEF BindTimesOut, JobEnds
  <2>3. Shape'  BY <1>9 DEF BindTimesOut, JobEnds, Shape
  <2>4. ServiceAlone'  BY <1>9 DEF BindTimesOut, JobEnds, ServiceAlone
  <2>5. SwitchStands'  BY <1>9 DEF BindTimesOut, JobEnds, SwitchStands
  <2>6. FileIsRead'
    BY <1>9 DEF BindTimesOut, JobEnds, Shape, ServiceAlone, SwitchStands, FileIsRead,
         Settled, Complete
  <2> QED  BY <2>1, <2>2, <2>3, <2>4, <2>5, <2>6
<1>10. CASE UNCHANGED faults /\ StartDhcp
  <2>1. Types'  BY <1>10 DEF StartDhcp
  <2>2. SwitchType'  BY <1>10 DEF StartDhcp
  <2>3. Shape'  BY <1>10 DEF StartDhcp, Shape
  <2>4. ServiceAlone'  BY <1>10 DEF StartDhcp, ServiceAlone
  <2>5. SwitchStands'  BY <1>10 DEF StartDhcp, SwitchStands
  <2>6. FileIsRead'
    BY <1>10 DEF StartDhcp, Shape, ServiceAlone, SwitchStands, FileIsRead, Settled, Complete
  <2> QED  BY <2>1, <2>2, <2>3, <2>4, <2>5, <2>6
<1>11. CASE UNCHANGED faults /\ WriteMode
  <2>1. Types'  BY <1>11 DEF WriteMode, service
  <2>2. SwitchType'  BY <1>11 DEF WriteMode, service
  <2>3. Shape'  BY <1>11 DEF WriteMode, service, Shape
  <2>4. ServiceAlone'  BY <1>11 DEF WriteMode, service, ServiceAlone
  <2>5. SwitchStands'  BY <1>11 DEF WriteMode, service, SwitchStands
  <2>6. FileIsRead'
    BY <1>11 DEF WriteMode, service, Shape, ServiceAlone, SwitchStands, FileIsRead, Settled,
         Complete
  <2> QED  BY <2>1, <2>2, <2>3, <2>4, <2>5, <2>6
<1>12. CASE UNCHANGED faults /\ RestoreMode
  <2>1. Types'  BY <1>12 DEF RestoreMode, service
  <2>2. SwitchType'  BY <1>12 DEF RestoreMode, service
  <2>3. Shape'  BY <1>12 DEF RestoreMode, service, Shape
  <2>4. ServiceAlone'  BY <1>12 DEF RestoreMode, service, ServiceAlone
  <2>5. SwitchStands'  BY <1>12 DEF RestoreMode, service, SwitchStands
  <2>6. FileIsRead'
    BY <1>12 DEF RestoreMode, service, Shape, ServiceAlone, SwitchStands, FileIsRead,
         Settled, Complete
  <2> QED  BY <2>1, <2>2, <2>3, <2>4, <2>5, <2>6
<1>13. CASE UNCHANGED faults /\ WriteFails
  <2>1. Types'  BY <1>13 DEF WriteFails, service
  <2>2. SwitchType'  BY <1>13 DEF WriteFails, service
  <2>3. Shape'  BY <1>13 DEF WriteFails, service, Shape
  <2>4. ServiceAlone'  BY <1>13 DEF WriteFails, service, ServiceAlone
  <2>5. SwitchStands'  BY <1>13 DEF WriteFails, service, SwitchStands
  <2>6. FileIsRead'
    BY <1>13 DEF WriteFails, service, Shape, ServiceAlone, SwitchStands, FileIsRead,
         Settled, Complete
  <2> QED  BY <2>1, <2>2, <2>3, <2>4, <2>5, <2>6
<1>14. CASE UNCHANGED faults /\ Restart
  <2>1. Types'  BY <1>14 DEF Restart
  <2>2. SwitchType'  BY <1>14 DEF Restart
  <2>3. Shape'  BY <1>14 DEF Restart, Shape
  <2>4. ServiceAlone'
    <3>1. CASE UNCHANGED <<gadget, late>>
      BY <1>14, <3>1 DEF Restart, ServiceAlone
    <3>2. CASE late'
      BY <1>14, <3>2 DEF Restart, ServiceAlone
    <3> QED  BY <1>14, <3>1, <3>2 DEF Restart
  <2>5. SwitchStands'  BY <1>14 DEF Restart, SwitchStands
  <2>6. FileIsRead'
    BY <1>14 DEF Restart, Shape, ServiceAlone, SwitchStands, FileIsRead, Settled, Complete
  <2> QED  BY <2>1, <2>2, <2>3, <2>4, <2>5, <2>6
<1>15. CASE UNCHANGED faults /\ Restarted
  <2>1. Types'  BY <1>15 DEF Restarted, service
  <2>2. SwitchType'  BY <1>15 DEF Restarted, service
  <2>3. Shape'  BY <1>15 DEF Restarted, service, Shape
  <2>4. ServiceAlone'  BY <1>15 DEF Restarted, service, ServiceAlone
  <2>5. SwitchStands'  BY <1>15 DEF Restarted, service, SwitchStands
  <2>6. FileIsRead'
    BY <1>15 DEF Restarted, service, Shape, ServiceAlone, SwitchStands, FileIsRead, Settled,
         Complete
  <2> QED  BY <2>1, <2>2, <2>3, <2>4, <2>5, <2>6
<1>16. CASE UNCHANGED faults /\ RestartedAgain
  <2>1. Types'  BY <1>16 DEF RestartedAgain, service
  <2>2. SwitchType'  BY <1>16 DEF RestartedAgain, service
  <2>3. Shape'  BY <1>16 DEF RestartedAgain, service, Shape
  <2>4. ServiceAlone'  BY <1>16 DEF RestartedAgain, service, ServiceAlone
  <2>5. SwitchStands'  BY <1>16 DEF RestartedAgain, service, SwitchStands
  <2>6. FileIsRead'
    BY <1>16 DEF RestartedAgain, service, Shape, ServiceAlone, SwitchStands, FileIsRead,
         Settled, Complete
  <2> QED  BY <2>1, <2>2, <2>3, <2>4, <2>5, <2>6
<1>17. CASE UNCHANGED faults /\ CheckGadget
  <2>1. Types'  BY <1>17 DEF CheckGadget, service
  <2>2. SwitchType'  BY <1>17 DEF CheckGadget, service
  <2>3. Shape'  BY <1>17 DEF CheckGadget, service, Shape
  <2>4. ServiceAlone'  BY <1>17 DEF CheckGadget, service, ServiceAlone
  <2>5. SwitchStands'  BY <1>17 DEF CheckGadget, service, SwitchStands
  <2>6. FileIsRead'
    BY <1>17 DEF CheckGadget, service, Shape, ServiceAlone, SwitchStands, FileIsRead,
         Settled, Complete
  <2> QED  BY <2>1, <2>2, <2>3, <2>4, <2>5, <2>6
<1>18. CASE UNCHANGED faults /\ CheckDhcp
  <2>1. Types'  BY <1>18 DEF CheckDhcp, service
  <2>2. SwitchType'  BY <1>18 DEF CheckDhcp, service
  <2>3. Shape'  BY <1>18 DEF CheckDhcp, service, Shape
  <2>4. ServiceAlone'  BY <1>18 DEF CheckDhcp, service, ServiceAlone
  <2>5. SwitchStands'  BY <1>18 DEF CheckDhcp, service, SwitchStands
  <2>6. FileIsRead'
    BY <1>18 DEF CheckDhcp, service, Shape, ServiceAlone, SwitchStands, FileIsRead, Settled,
         Complete
  <2> QED  BY <2>1, <2>2, <2>3, <2>4, <2>5, <2>6
<1>19. CASE UNCHANGED faults /\ Return
  <2>1. Types'  BY <1>19 DEF Return, service, Idle
  <2>2. SwitchType'  BY <1>19 DEF Return, service, Idle
  <2>3. Shape'  BY <1>19 DEF Return, service, Idle, Shape
  <2>4. ServiceAlone'  BY <1>19 DEF Return, service, Idle, ServiceAlone
  <2>5. SwitchStands'  BY <1>19 DEF Return, service, Idle, SwitchStands
  <2>6. FileIsRead'
    BY <1>19 DEF Return, service, Idle, Shape, ServiceAlone, SwitchStands, FileIsRead,
         Settled, Complete
  <2> QED  BY <2>1, <2>2, <2>3, <2>4, <2>5, <2>6
<1>20. CASE UNCHANGED faults /\ Killed
  <2>1. Types'  BY <1>20 DEF Killed, service, Idle
  <2>2. SwitchType'  BY <1>20 DEF Killed, service, Idle
  <2>3. Shape'  BY <1>20 DEF Killed, service, Idle, Shape
  <2>4. ServiceAlone'  BY <1>20 DEF Killed, service, Idle, ServiceAlone
  <2>5. SwitchStands'  BY <1>20 DEF Killed, service, Idle, SwitchStands
  <2>6. FileIsRead'
    BY <1>20 DEF Killed, service, Idle, Shape, ServiceAlone, SwitchStands, FileIsRead,
         Settled, Complete
  <2> QED  BY <2>1, <2>2, <2>3, <2>4, <2>5, <2>6
<1>21. CASE UNCHANGED faults /\ DhcpEnds
  <2>1. Types'  BY <1>21 DEF DhcpEnds
  <2>2. SwitchType'  BY <1>21 DEF DhcpEnds
  <2>3. Shape'  BY <1>21 DEF DhcpEnds, Shape
  <2>4. ServiceAlone'  BY <1>21 DEF DhcpEnds, ServiceAlone
  <2>5. SwitchStands'  BY <1>21 DEF DhcpEnds, SwitchStands
  <2>6. FileIsRead'
    BY <1>21 DEF DhcpEnds, Shape, ServiceAlone, SwitchStands, FileIsRead, Settled, Complete
  <2> QED  BY <2>1, <2>2, <2>3, <2>4, <2>5, <2>6
<1>22. CASE UNCHANGED faults /\ CleanupByHand
  <2>1. Types'  BY <1>22 DEF CleanupByHand
  <2>2. SwitchType'  BY <1>22 DEF CleanupByHand
  <2>3. Shape'  BY <1>22 DEF CleanupByHand, Shape
  <2>4. ServiceAlone'  BY <1>22 DEF CleanupByHand, ServiceAlone
  <2>5. SwitchStands'  BY <1>22 DEF CleanupByHand, SwitchStands
  <2>6. FileIsRead'
    BY <1>22 DEF CleanupByHand, Shape, ServiceAlone, SwitchStands, FileIsRead, Settled,
         Complete
  <2> QED  BY <2>1, <2>2, <2>3, <2>4, <2>5, <2>6
<1>23. CASE UNCHANGED faults /\ Reboot
  <2>1. Types'  BY <1>23 DEF Reboot, Idle
  <2>2. SwitchType'  BY <1>23 DEF Reboot, Idle
  <2>3. Shape'  BY <1>23 DEF Reboot, Idle, Shape
  <2>4. ServiceAlone'  BY <1>23 DEF Reboot, Idle, ServiceAlone
  <2>5. SwitchStands'  BY <1>23 DEF Reboot, Idle, SwitchStands
  <2>6. FileIsRead'
    BY <1>23 DEF Reboot, Idle, Shape, ServiceAlone, SwitchStands, FileIsRead, Settled,
         Complete
  <2> QED  BY <2>1, <2>2, <2>3, <2>4, <2>5, <2>6
<1>24. ASSUME NEW mode \in Modes, UNCHANGED faults /\ Call(mode) PROVE Rest'
  <2>1. Types'  BY <1>24 DEF Call, service
  <2>2. SwitchType'  BY <1>24 DEF Call, service
  <2>3. Shape'  BY <1>24 DEF Call, service, Shape
  <2>4. ServiceAlone'  BY <1>24 DEF Call, service, ServiceAlone
  <2>5. SwitchStands'  BY <1>24 DEF Call, service, SwitchStands
  <2>6. FileIsRead'
    BY <1>24 DEF Call, service, Shape, ServiceAlone, SwitchStands, FileIsRead, Settled,
         Complete
  <2> QED  BY <2>1, <2>2, <2>3, <2>4, <2>5, <2>6
<1>25. CASE UNCHANGED vars
  <2>1. Types'  BY <1>25 DEF vars, service
  <2>2. SwitchType'  BY <1>25 DEF vars, service
  <2>3. Shape'  BY <1>25 DEF vars, service, Shape
  <2>4. ServiceAlone'  BY <1>25 DEF vars, service, ServiceAlone
  <2>5. SwitchStands'  BY <1>25 DEF vars, service, SwitchStands
  <2>6. FileIsRead'
    BY <1>25 DEF vars, service, Shape, ServiceAlone, SwitchStands, FileIsRead, Settled,
         Complete
  <2> QED  BY <2>1, <2>2, <2>3, <2>4, <2>5, <2>6
<1> QED
  BY <1>1, <1>2, <1>3, <1>4, <1>5, <1>6, <1>7, <1>8, <1>9, <1>10, <1>11, <1>12, <1>13,
         <1>14, <1>15, <1>16, <1>17, <1>18, <1>19, <1>20, <1>21, <1>22, <1>23, <1>24, <1>25
         DEF Next

-----------------------------------------------------------------------------
(* The theorems                                                            *)

LEMMA Invariance == Spec => []IInv
<1>1. IInv /\ [Next]_vars => IInv'
  BY Step
<1> QED  BY Start, <1>1, PTL DEF Spec

\* Every variable keeps its type, and a gadget that is bound has a function and is
\* not under construction: pcdog-usb-gadget.sh binds last, and its refusal keeps a
\* start away from what another one has left.
THEOREM TypeCorrect == Spec => []TypeOK
<1>1. IInv => TypeOK
  BY DEF IInv, TypeOK, Flags, Types, SwitchType, Shape, ActiveFunction, Modes, Building
<1> QED  BY Invariance, <1>1, PTL

\* However starts, stops and switches fail, the gadget never has the functions of
\* both modes ("exactly one selected USB Ethernet gadget").
THEOREM OneFunctionHolds == Spec => []OneFunction
<1>1. IInv => OneFunction
  BY DEF IInv, Types, SwitchType, Shape, OneFunction, Modes
<1> QED  BY Invariance, <1>1, PTL

\* A switch that reports success, or finds nothing to do, leaves its mode running and
\* in the file, whatever failed, timed out or was killed before; for the report, unless
\* the gadget is one that an ended start has bound.
THEOREM SuccessIsTrueHolds == Spec => []SuccessIsTrue
<1>1. IInv => SuccessIsTrue
  BY DEF IInv, Types, SwitchType, Shape, ServiceAlone, SwitchStands, FileIsRead, Settled,
         SuccessIsTrue,
         Complete, Configured, ActiveFunction, Modes, Ended, Building
<1> QED  BY Invariance, <1>1, PTL

\* Between switches an active service runs the mode of the file, whatever failed
\* before, unless an ended start has bound its gadget or a killed switch has written
\* the file and no start has read it since.
THEOREM FileIsWhatRunsHolds == Spec => []FileIsWhatRuns
<1>1. IInv => FileIsWhatRuns
  BY DEF IInv, Types, SwitchType, FileIsRead, Settled, FileIsWhatRuns, Ended, Building
<1> QED  BY Invariance, <1>1, PTL

-----------------------------------------------------------------------------
(* What a restored mode is worth                                           *)

\* While the switch goes back, the file has the previous mode, and it ends only when
\* the second restart has.
Restoring ==
  /\ sw.pc \in {"restart again", "wait again", "restored"} => modeFile = sw.previous
  /\ sw.pc = "restored" => job = "none" /\ reply # "none"

\* What systemd answers to a restart is what became of the service, until the next.
ReplyIsTrue ==
  job = "none" =>
    /\ reply = "done" /\ udc => unit = "active"
    /\ reply = "failed" => unit = "failed"

RInv == IInv /\ Restoring /\ ReplyIsTrue

LEMMA ServiceReplies ==
  ASSUME RInv,
         \/ Cleanup \/ ConditionFails \/ AlreadyBound \/ RefuseGadget
         \/ MakeGadget \/ MakeFunction \/ Bind \/ BuildFails \/ BindTimesOut
         \/ StartDhcp \/ DhcpEnds \/ CleanupByHand \/ Reboot
  PROVE  Restoring' /\ ReplyIsTrue'
<1> USE DEF RInv, Restoring, ReplyIsTrue, JobEnds
<1>1. CASE Cleanup
  BY <1>1 DEF Cleanup
<1>2. CASE ConditionFails
  BY <1>2 DEF ConditionFails
<1>3. CASE AlreadyBound
  BY <1>3 DEF AlreadyBound
<1>4. CASE RefuseGadget
  BY <1>4 DEF RefuseGadget
<1>5. CASE MakeGadget
  BY <1>5 DEF MakeGadget
<1>6. CASE MakeFunction
  BY <1>6 DEF MakeFunction
<1>7. CASE Bind
  BY <1>7 DEF Bind
<1>8. CASE BuildFails
  BY <1>8 DEF BuildFails
<1>9. CASE BindTimesOut
  BY <1>9 DEF BindTimesOut
<1>10. CASE StartDhcp
  BY <1>10 DEF StartDhcp
<1>11. CASE DhcpEnds
  BY <1>11 DEF DhcpEnds
<1>12. CASE CleanupByHand
  BY <1>12 DEF CleanupByHand
<1>13. CASE Reboot
  BY <1>13 DEF Reboot, Idle
<1> QED  BY <1>1, <1>2, <1>3, <1>4, <1>5, <1>6, <1>7, <1>8, <1>9, <1>10, <1>11, <1>12, <1>13

LEMMA SwitchRestores ==
  ASSUME RInv,
         \/ \E mode \in Modes : Call(mode)
         \/ WriteMode \/ RestoreMode \/ WriteFails \/ Restart \/ Restarted \/ RestartedAgain
         \/ CheckGadget \/ CheckDhcp \/ Return \/ Killed
  PROVE  Restoring' /\ ReplyIsTrue'
<1> USE DEF RInv, Restoring, ReplyIsTrue, IInv, SwitchType, SwitchStands, Ended, service
<1>1. ASSUME NEW mode \in Modes, Call(mode) PROVE Restoring' /\ ReplyIsTrue'
  BY <1>1 DEF Call
<1>2. CASE WriteMode
  BY <1>2 DEF WriteMode
<1>3. CASE RestoreMode
  BY <1>3 DEF RestoreMode
<1>4. CASE WriteFails
  BY <1>4 DEF WriteFails
<1>5. CASE Restart
  BY <1>5 DEF Restart
<1>6. CASE Restarted
  BY <1>6 DEF Restarted
<1>7. CASE RestartedAgain
  BY <1>7 DEF RestartedAgain
<1>8. CASE CheckGadget
  BY <1>8 DEF CheckGadget
<1>9. CASE CheckDhcp
  BY <1>9 DEF CheckDhcp
<1>10. CASE Return
  BY <1>10 DEF Return, Idle
<1>11. CASE Killed
  BY <1>11 DEF Killed, Idle
<1> QED  BY <1>1, <1>2, <1>3, <1>4, <1>5, <1>6, <1>7, <1>8, <1>9, <1>10, <1>11

\* A switch that says it restored the previous mode has it in the file, and no other
\* mode runs; it runs if the second restart, whose result the switch throws away, was
\* a success and there is a controller. That result is all that is missing for
\* RestoredIsActive (pcdog-usb-mode.sh, set_mode); a gadget that an ended start has
\* bound is excepted, as in SuccessIsTrue.
THEOREM RestoredIfRestarted ==
  Spec => [](/\ sw.pc = "restored" =>
                  modeFile = sw.previous
                  /\ ("bound" \in gadget /\ ~late => Complete(sw.previous))
             /\ udc /\ reply = "done" /\ ~late => RestoredIsActive)
<1>1. Init => RInv
  BY Start DEF Init, RInv, Restoring, ReplyIsTrue, Idle
<1>2. RInv /\ [Next]_vars => RInv'
  <2> SUFFICES ASSUME RInv, [Next]_vars PROVE RInv'
    OBVIOUS
  <2>1. IInv'
    BY Step DEF RInv
  <2>2. CASE UNCHANGED vars
    BY <2>1, <2>2 DEF RInv, Restoring, ReplyIsTrue, vars, service
  <2>3. CASE Next
    BY <2>1, <2>3, ServiceReplies, SwitchRestores DEF RInv, Next
  <2> QED  BY <2>2, <2>3
<1>3. RInv => /\ sw.pc = "restored" =>
                   modeFile = sw.previous
                   /\ ("bound" \in gadget /\ ~late => Complete(sw.previous))
              /\ udc /\ reply = "done" /\ ~late => RestoredIsActive
  <2> SUFFICES ASSUME RInv, sw.pc = "restored"
               PROVE  /\ modeFile = sw.previous
                      /\ "bound" \in gadget /\ ~late => Complete(sw.previous)
                      /\ udc /\ reply = "done" /\ ~late =>
                           unit = "active" /\ Complete(sw.previous)
    BY DEF RestoredIsActive
  <2>1. modeFile = sw.previous /\ job = "none" /\ (udc /\ reply = "done" => unit = "active")
    BY DEF RInv, Restoring, ReplyIsTrue
  <2>2. Configured = sw.previous
    BY <2>1 DEF RInv, IInv, SwitchType, Configured, Modes
  <2>3. "bound" \in gadget /\ ~late => unit = "active"
    BY DEF RInv, IInv, ServiceAlone
  <2>4. unit = "active" /\ ~late => Complete(sw.previous)
    BY <2>1, <2>2 DEF RInv, IInv, FileIsRead, Settled
  <2> QED  BY <2>1, <2>3, <2>4
<1> QED  BY <1>1, <1>2, <1>3, PTL DEF Spec
=============================================================================
