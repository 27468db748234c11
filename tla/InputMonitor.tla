---------------------------- MODULE InputMonitor ----------------------------
(***************************************************************************)
(* Stabilisation of the POWER LED and HDD LED readings (InputMonitor): a   *)
(* debounce for a reliable POWER reading, a timeout for an unreliable one, *)
(* and a hold that keeps a short HDD pulse visible.                        *)
(*                                                                         *)
(* The code compares clock readings; this module keeps their differences,  *)
(* the age of every stored time at the clock reading of the last poll. A   *)
(* poll reads its clock first and its inputs up to MaxLag ticks later, and *)
(* the next poll starts PollInterval or more after that.                   *)
(***************************************************************************)
EXTENDS Integers

CONSTANTS
  PowerDebounce, UnreliablePowerTimeout, HddActiveHold,  \* InputMonitorConfig, in ticks
  PollInterval,  \* ticks between the end of a poll and the start of the next
  MaxLag,        \* ticks from a poll's clock reading to its sample, at most
  MaxGap,        \* ticks between the clock readings of two polls, at most
  Horizon,       \* the largest age the history variables tell apart
  None           \* no candidate, no time

\* InputMonitorConfig.__post_init__, and that the polls it is configured for exist.
ASSUME ConfigAssumption ==
  /\ PowerDebounce \in Nat \ {0} /\ UnreliablePowerTimeout \in Nat
  /\ HddActiveHold \in Nat \ {0} /\ PollInterval \in Nat \ {0}
  /\ MaxLag \in Nat /\ MaxGap \in Nat /\ Horizon \in Nat

\* A POWER reading is a value and whether it is reliable.
Unknown == <<"UNKNOWN", FALSE>>
PowerReadings == {<<"ON", TRUE>>, <<"OFF", TRUE>>, Unknown}
HddReadings == {<<"ACTIVE", TRUE>>, <<"IDLE", TRUE>>, Unknown}

\* None is neither a reading nor an age, and ages are told apart up to the waits.
ASSUME HistoryAssumption ==
  /\ None \notin PowerReadings /\ None \notin Nat
  /\ Horizon >= PowerDebounce /\ Horizon >= UnreliablePowerTimeout /\ Horizon >= HddActiveHold

\* gpioget reads both lines at once: both are reliable, or the agent, the socket
\* or gpioget failed and neither is.
Readings == [power : {<<"ON", TRUE>>, <<"OFF", TRUE>>}, hdd : {<<"ACTIVE", TRUE>>, <<"IDLE", TRUE>>}]
              \cup [power : {Unknown}, hdd : {Unknown}]

VARIABLES
  stable,        \* _stable_power
  candidate,     \* _power_candidate, or None
  candidateAge,  \* age of _power_candidate_since, 0 without a candidate
  hdd,           \* _stable_hdd and its reliability
  hddAge,        \* age of _last_hdd_active_at, 0 when it is None
  lag,           \* how long after its clock reading the last poll took its sample
  (* history *)
  sampled,       \* POWER of the last sample, or None before the first
  streak,        \* time since the first of the equal samples that end with it
  lostFor,       \* time since the first unreliable sample after the last one that
                 \* agreed with stable, or None when there is none
  sinceActive    \* age of the poll that last saw reliable HDD activity, or None
                 \* before it and after an unreliable sample

monitor == <<stable, candidate, candidateAge, hdd, hddAge, lag>>
vars == <<monitor, sampled, streak, lostFor, sinceActive>>

Init ==
  /\ stable = Unknown
  /\ candidate = None /\ candidateAge = 0
  /\ hdd = Unknown /\ hddAge = 0
  /\ lag = 0
  /\ sampled = None /\ streak = 0 /\ lostFor = None /\ sinceActive = None

Cap(n) == IF n > Horizon THEN Horizon ELSE n

\* _power_wait_seconds
Wait(desired) == IF desired[2] THEN PowerDebounce ELSE UnreliablePowerTimeout

\* Fault variant of StabilizePower: a candidate survives the return to the stable value.
StabilizePowerKeepsCandidate(desired, gap) ==
  LET age == IF desired = candidate THEN candidateAge + gap ELSE 0 IN
  \/ /\ desired = stable
     /\ candidateAge' = IF candidate = None THEN 0 ELSE candidateAge + gap
     /\ UNCHANGED <<stable, candidate>>
  \/ /\ desired # stable
     /\ IF age >= Wait(desired)
          THEN stable' = desired /\ candidate' = None /\ candidateAge' = 0
          ELSE candidate' = desired /\ candidateAge' = age /\ UNCHANGED stable

\* Fault variant of StabilizePower: every reading restarts the wait.
StabilizePowerRestarts(desired, gap) ==
  \/ /\ desired = stable
     /\ candidate' = None /\ candidateAge' = 0
     /\ UNCHANGED stable
  \/ /\ desired # stable
     /\ IF 0 >= Wait(desired)
          THEN stable' = desired /\ candidate' = None /\ candidateAge' = 0
          ELSE candidate' = desired /\ candidateAge' = 0 /\ UNCHANGED stable

\* _stabilize_power, for a poll gap ticks after the last one.
StabilizePower(desired, gap) ==
  LET age == IF desired = candidate THEN candidateAge + gap ELSE 0 IN
  \/ /\ desired = stable
     /\ candidate' = None /\ candidateAge' = 0
     /\ UNCHANGED stable
  \/ /\ desired # stable
     /\ IF age >= Wait(desired)
          THEN stable' = desired /\ candidate' = None /\ candidateAge' = 0
          ELSE candidate' = desired /\ candidateAge' = age /\ UNCHANGED stable

\* Fault variant of StabilizeHdd: a held pulse renews its own hold.
StabilizeHddRenews(reading, gap) ==
  \/ reading = Unknown /\ hdd' = Unknown /\ hddAge' = 0
  \/ reading = <<"ACTIVE", TRUE>> /\ hdd' = reading /\ hddAge' = 0
  \/ /\ reading = <<"IDLE", TRUE>>
     /\ IF hdd[1] = "ACTIVE" /\ hddAge + gap < HddActiveHold
          THEN hddAge' = 0 /\ UNCHANGED hdd
          ELSE hdd' = reading /\ hddAge' = 0

\* _stabilize_hdd, without its branch for a reliable UNKNOWN, which no source reports.
StabilizeHdd(reading, gap) ==
  \/ reading = Unknown /\ hdd' = Unknown /\ hddAge' = 0
  \/ reading = <<"ACTIVE", TRUE>> /\ hdd' = reading /\ hddAge' = 0
  \/ /\ reading = <<"IDLE", TRUE>>
     /\ IF hdd[1] = "ACTIVE" /\ hddAge + gap < HddActiveHold
          THEN hddAge' = hddAge + gap /\ UNCHANGED hdd
          ELSE hdd' = reading /\ hddAge' = 0

\* What the properties remember of the samples, elapsed being the time between two.
Remember(reading, gap, elapsed) ==
  /\ sampled' = reading.power
  /\ streak' = IF reading.power = sampled THEN Cap(streak + elapsed) ELSE 0
  /\ lostFor' = CASE reading.power = stable' -> None
                  [] reading.power # stable' /\ lostFor # None -> Cap(lostFor + elapsed)
                  [] OTHER -> IF reading.power = Unknown THEN 0 ELSE None
  /\ sinceActive' = CASE reading.hdd = Unknown -> None
                      [] reading.hdd = <<"ACTIVE", TRUE>> -> 0
                      [] OTHER -> IF sinceActive = None THEN None ELSE Cap(sinceActive + gap)

\* poll_once up to the State Engine: the clock, then the inputs, then both stages.
Poll(reading, gap, newLag) ==
  /\ gap >= lag + PollInterval
  /\ lag' = newLag
  /\ StabilizePower(reading.power, gap)
  /\ StabilizeHdd(reading.hdd, gap)
  /\ Remember(reading, gap, gap + newLag - lag)

Next == \E reading \in Readings, gap \in 1..MaxGap, newLag \in 0..MaxLag : Poll(reading, gap, newLag)

Spec == Init /\ [][Next]_vars
-----------------------------------------------------------------------------
(* Properties                                                              *)

\* Every variable has its type, and the candidate is one that still has to wait.
TypeOK ==
  /\ stable \in PowerReadings
  /\ candidate \in PowerReadings \cup {None} /\ candidate # stable
  /\ candidateAge \in Nat
  /\ candidate # None => candidateAge < Wait(candidate)
  /\ hdd \in HddReadings /\ hddAge \in Nat
  /\ lag \in 0..MaxLag
  /\ sampled \in PowerReadings \cup {None} /\ streak \in 0..Horizon
  /\ lostFor \in 0..Horizon \cup {None} /\ sinceActive \in 0..Horizon \cup {None}

\* A glitch never changes the stable POWER state: a change follows samples that
\* all showed the new value over its whole wait, less the one read latency by
\* which the first sample may be later than its clock reading (_stabilize_power).
NoGlitch ==
  [][stable' # stable => sampled' = stable' /\ streak' >= Wait(stable') - MaxLag]_vars

\* A POWER value that is sampled without a break for its wait, and the latency of
\* the last sample, is the stable one: no schedule of polls postpones it.
SettlesInTime ==
  sampled # None /\ streak >= Wait(sampled) + MaxLag => stable = sampled

\* HDD activity is reported from the sample that shows it until HddActiveHold is
\* over, and no longer; an unreliable sample ends it at once (_stabilize_hdd).
HddHeld ==
  hdd = <<"ACTIVE", TRUE>> <=> sinceActive # None /\ sinceActive < HddActiveHold

\* The last stable POWER state is kept after a loss of reliability until
\* UnreliablePowerTimeout, and the delay of one poll, have passed without a sample
\* that confirms it: the class comment of InputMonitor.
LossIsBounded ==
  stable # Unknown /\ lostFor # None => lostFor < UnreliablePowerTimeout + MaxGap + MaxLag
=============================================================================
