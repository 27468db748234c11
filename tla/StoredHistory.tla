---------------------------- MODULE StoredHistory ----------------------------
(***************************************************************************)
(* What the readers of the Web API are promised of the stored state and    *)
(* history: they see an observation together with what it changed or not   *)
(* at all, one that is skipped is what they see already, and as long as    *)
(* nothing was dropped the recorded changes lead from one visible state to *)
(* the next. docs/runtime.md says it of the Event Store; RuntimeMonitor    *)
(* implements it.                                                          *)
(***************************************************************************)
CONSTANTS
  Fields,     \* what changes are recorded about
  Snapshots,  \* observations: functions on Fields
  None        \* no observation

VARIABLES
  shown,    \* the state readers see
  newest,   \* the newest recorded value of each field
  seen,     \* the last observation
  changed,  \* the fields it changed
  due,      \* it has to be made visible
  gap       \* what is recorded may not lead to it

vars == <<shown, newest, seen, changed, due, gap>>

\* The first observation of a process has nothing to differ from.
Differences(s, t) == IF s = None THEN {} ELSE {f \in Fields : t[f] # s[f]}

Init ==
  /\ shown = None /\ newest = [f \in Fields |-> None]
  /\ seen = None /\ changed = {} /\ due = FALSE /\ gap = TRUE

\* A gap ends when what is observed is what is shown.
Observe ==
  /\ ~due
  /\ seen' \in Snapshots
  /\ changed' = Differences(seen, seen')
  /\ due' \in BOOLEAN /\ (seen' # shown => due')
  /\ gap' \in {gap, gap /\ seen' # shown}
  /\ UNCHANGED <<shown, newest>>

Publish ==
  /\ due
  /\ ~gap => changed = Differences(shown, seen)
  /\ shown' = seen
  /\ newest' = [f \in Fields |-> IF f \in changed THEN seen[f] ELSE newest[f]]
  /\ due' = FALSE /\ gap' = FALSE
  /\ UNCHANGED <<seen, changed>>

\* It could not be stored.
Drop ==
  /\ due
  /\ due' = FALSE /\ gap' = (gap \/ changed # {})
  /\ UNCHANGED <<shown, newest, seen, changed>>

\* The process ends.
Forget ==
  /\ seen' = None /\ changed' = {} /\ due' = FALSE /\ gap' = TRUE
  /\ UNCHANGED <<shown, newest>>

Next == Observe \/ Publish \/ Drop \/ Forget

Spec == Init /\ [][Next]_vars
=============================================================================
