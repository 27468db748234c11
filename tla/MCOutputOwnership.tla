------------------------- MODULE MCOutputOwnership -------------------------
(* Small instances of OutputOwnership.                                     *)
EXTENDS OutputOwnership, TLC

\* Threads and pids are interchangeable: nothing orders or names them.
Symmetry == Permutations(Threads) \cup Permutations(Pids)

EveryCommand == OnCommands \cup OffCommands
OneRun == {CHOOSE r \in Runs : TRUE}

\* The whole command set of one operator, with gpiosets that start in time and slow
\* ones; all-on and all-off alone; one operator among failures of every kind; two
\* operators at a time.
SafetyScenarios ==
  {[runs |-> OneRun, commands |-> EveryCommand, faults |-> {"spawn_fail", "pinctrl_fail"}],
   [runs |-> OneRun, commands |-> {"reset_on", "reset_off", "all_on", "all_off"},
    faults |-> {"slow_start", "pinctrl_fail"}],
   [runs |-> OneRun, commands |-> {"all_on", "all_off"},
    faults |-> {"spawn_fail", "slow_start", "pid_reuse"}],
   [runs |-> OneRun, commands |-> {"power_on", "all_on", "all_off"},
    faults |-> FaultKinds \ {"pid_reuse", "survive_kill"}],
   [runs |-> Runs, commands |-> {"power_on", "all_off"}, faults |-> {}]}

\* Pulses that stall and children that outlive SIGKILL, and gpiosets that start slowly,
\* beside all-on and all-off.
LivenessScenarios ==
  {[runs |-> Runs, commands |-> {"all_on", "all_off"}, faults |-> faults] :
     faults \in {{"stall", "survive_kill"}, {"slow_start"}}}

\* Every command, nothing fails.
PlainScenarios == {[runs |-> Runs, commands |-> EveryCommand, faults |-> {}]}
=============================================================================
