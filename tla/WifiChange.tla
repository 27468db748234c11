----------------------------- MODULE WifiChange -----------------------------
(***************************************************************************)
(* What the network agent promises of changes of the Wi-Fi network: one at *)
(* a time; a change touches the profile of its own candidate only, and     *)
(* saves it only after its network was verified; and what is reported as a *)
(* success was saved. docs/runtime.md says it of POST                      *)
(* /api/v1/wifi/connection; WifiJob implements it.                         *)
(***************************************************************************)
CONSTANTS
  Changes,  \* requests to change the network; the candidate of each has its name
  Home,     \* the profiles there were before
  None      \* no change, no verdict

VARIABLES
  change,    \* the change in progress, or None
  verified,  \* the changes whose network was found to work
  profile,   \* every profile: absent, in memory, or saved ("durable")
  verdict    \* how the last change ended, or None

vars == <<change, verified, profile, verdict>>

Init ==
  /\ change = None /\ verified = {} /\ verdict = None
  /\ profile = [p \in Home \cup Changes |-> IF p \in Home THEN "durable" ELSE "absent"]

\* Every change brings a new candidate.
Begin(c) ==
  /\ change = None /\ profile[c] = "absent" /\ c \notin verified
  /\ change' = c /\ verdict' = None
  /\ UNCHANGED <<verified, profile>>

Candidate(from, to) ==
  /\ change # None /\ profile[change] = from
  /\ profile' = [profile EXCEPT ![change] = to]
  /\ UNCHANGED <<change, verified, verdict>>

Add == Candidate("absent", "memory") /\ change \notin verified

Verify ==
  /\ change # None /\ profile[change] = "memory"
  /\ verified' = verified \cup {change}
  /\ UNCHANGED <<change, profile, verdict>>

Save == Candidate("memory", "durable") /\ change \in verified

\* What was saved goes too, if saving it was reported as a failure.
Discard == \E from \in {"memory", "durable"} : Candidate(from, "absent")

\* It may stay behind if it cannot be discarded.
End(status) ==
  /\ change # None
  /\ status = "SUCCEEDED" => profile[change] = "durable"
  /\ change' = None /\ verdict' = [status |-> status, job |-> change]
  /\ UNCHANGED <<verified, profile>>

\* The agent ends in the middle.
Abandon ==
  /\ change' = None /\ verdict' = None
  /\ UNCHANGED <<verified, profile>>

Expire ==
  /\ change = None
  /\ verdict' = None
  /\ UNCHANGED <<change, verified, profile>>

Next ==
  \/ \E c \in Changes : Begin(c)
  \/ Add \/ Verify \/ Save \/ Discard
  \/ \E status \in {"SUCCEEDED", "FAILED", "ROLLED_BACK", "ROLLBACK_FAILED"} : End(status)
  \/ Abandon \/ Expire

Spec == Init /\ [][Next]_vars
=============================================================================
