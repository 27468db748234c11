----------------------------- MODULE MCWifiJob -----------------------------
(* Small instances of WifiJob.                                             *)
EXTENDS WifiJob

\* The first request is for a network some profile at home is already for.
MCNetwork == [p \in Profiles |-> IF p = CHOOSE j \in Jobs : TRUE THEN "home" ELSE
                IF p \in Home THEN "home" ELSE "new"]

\* Nothing fails but what nmcli reports; connections come and go; calls time out
\* with unknown effect; the agent crashes.
SafetyScenarios ==
  {{"thread_fail", "slow_list"}, {"drop", "slow_list"}, {"drop", "timeout", "delete_fail"},
   {"timeout", "crash"}}

SlowScan == {{"slow_list"}}
=============================================================================
