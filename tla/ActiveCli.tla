----------------------------- MODULE ActiveCli -----------------------------
(***************************************************************************)
(* What the command pcdog promises its users while somebody installs,      *)
(* updates or rolls it back: an operation changes what the command runs at *)
(* one instant or not at all, an install only to its own release, and a    *)
(* rollback only back to what the last change replaced.  docs/runtime.md   *)
(* says it of scripts/install-cli.py; CliInstaller implements it.          *)
(***************************************************************************)
CONSTANTS
  Releases,  \* what can be installed
  Others,    \* what the command can be otherwise: missing, an older or a foreign one
  Unknown    \* no promise where a rollback leads

VARIABLES
  runs,   \* what the command runs
  undo,   \* what a rollback brings back
  op,     \* the operation in progress, or "idle"
  to,     \* what that operation is about to make the command run; without one, began
  began   \* what the command ran when it began

vars == <<runs, undo, op, to, began>>

Init ==
  /\ runs \in Others /\ undo = Unknown
  /\ op = "idle" /\ to = runs /\ began = runs

Begin(kind) == op = "idle" /\ op' = kind /\ began' = runs /\ UNCHANGED <<runs, undo>>

Install == \E r \in Releases : Begin("install") /\ to' = r

Rollback ==
  /\ Begin("rollback")
  /\ to' \in Releases \cup Others
  /\ undo # Unknown => to' = undo

Switch ==
  /\ op # "idle" /\ runs = began
  /\ runs' = to
  /\ UNCHANGED <<undo, op, to, began>>

\* Nothing is promised if the operation began on what another one left half done.
Finish ==
  /\ op # "idle" /\ runs = to
  /\ op' = "idle"
  /\ IF runs = began THEN undo' = undo ELSE undo' \in {began, Unknown}
  /\ to' = began /\ UNCHANGED <<runs, began>>

\* The operation fails or is killed, before or after it switched.
Cut ==
  /\ op # "idle"
  /\ op' = "idle" /\ undo' \in {undo, Unknown}
  /\ to' = began /\ UNCHANGED <<runs, began>>

\* Somebody replaces or removes the command.
Tamper ==
  /\ op = "idle"
  /\ runs' \in Others /\ undo' = Unknown
  /\ UNCHANGED <<op, to, began>>

Next == Install \/ Rollback \/ Switch \/ Finish \/ Cut \/ Tamper

Spec == Init /\ [][Next]_vars
=============================================================================
