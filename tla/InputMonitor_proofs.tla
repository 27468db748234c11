------------------------ MODULE InputMonitor_proofs ------------------------
(***************************************************************************)
(* Proofs about InputMonitor for every configuration of waits, every read  *)
(* latency and every schedule of polls.                                    *)
(*                                                                         *)
(* The candidate's age and the time the candidate has really been sampled  *)
(* are kept by different clocks: the first runs between the clock readings *)
(* of polls, the second between their samples. Steady bounds the second by *)
(* the first from below (what NoGlitch needs), Waiting bounds it from      *)
(* above (what SettlesInTime needs).                                       *)
(***************************************************************************)
EXTENDS InputMonitor, TLAPS

\* The candidate is what was sampled last, and for as long as it is a candidate,
\* up to the latency of the first of its samples.
Steady ==
  candidate # None =>
    /\ sampled = candidate
    /\ streak = Horizon \/ streak >= candidateAge + lag - MaxLag

\* A sampled value that is not the stable one is the candidate, and became it with
\* the first of the equal samples.
Waiting ==
  sampled # None /\ sampled # stable => candidate = sampled /\ streak <= candidateAge + lag

\* The hold is measured from the last sample that showed activity.
HoldAge == hdd = <<"ACTIVE", TRUE>> => hddAge = sinceActive

IInv == TypeOK /\ Steady /\ Waiting /\ HoldAge /\ HddHeld

USE ConfigAssumption, HistoryAssumption

-----------------------------------------------------------------------------
\* Cap keeps an age in the range of the history variables (Cap).
LEMMA CapRange ==
  ASSUME NEW n \in Nat
  PROVE  /\ Cap(n) \in 0..Horizon
         /\ Cap(n) <= n
         /\ Cap(n) = n \/ Cap(n) = Horizon
BY DEF Cap

\* The waits are natural numbers that the history variables tell apart (_power_wait_seconds).
LEMMA WaitRange ==
  ASSUME NEW desired
  PROVE  Wait(desired) \in Nat /\ Wait(desired) <= Horizon
BY DEF Wait

\* What a poll knows of its input and of the time since the last one (poll_once).
LEMMA PollRange ==
  ASSUME TypeOK, NEW reading \in Readings, NEW gap \in 1..MaxGap, NEW newLag \in 0..MaxLag,
         Poll(reading, gap, newLag)
  PROVE  /\ reading.power \in PowerReadings
         /\ reading.hdd \in HddReadings
         /\ gap + newLag - lag \in Nat
         /\ lag' = newLag
<1>1. reading.power \in PowerReadings /\ reading.hdd \in HddReadings
  BY DEF Readings, PowerReadings, HddReadings
<1>2. gap >= lag + PollInterval /\ lag' = newLag
  BY DEF Poll
<1>3. gap + newLag - lag \in Nat
  <2>1. lag \in Nat /\ gap \in Nat /\ newLag \in Nat
    BY DEF TypeOK
  <2> QED
    BY <1>2, <2>1
<1> QED
  BY <1>1, <1>2, <1>3

\* The state of POWER keeps its type (_stabilize_power).
LEMMA PowerTypes ==
  ASSUME TypeOK, NEW desired \in PowerReadings, NEW gap \in 1..MaxGap,
         StabilizePower(desired, gap)
  PROVE  /\ stable' \in PowerReadings
         /\ candidate' \in PowerReadings \cup {None} /\ candidate' # stable'
         /\ candidateAge' \in Nat
         /\ candidate' # None => candidateAge' < Wait(candidate')
<1>1. Wait(desired) \in Nat
  BY WaitRange
<1> DEFINE age == IF desired = candidate THEN candidateAge + gap ELSE 0
<1>2. age \in Nat
  BY DEF TypeOK
<1>3. None \notin PowerReadings
  OBVIOUS
<1>4. CASE desired = stable
  BY <1>3, <1>4 DEF TypeOK, StabilizePower
<1>5. CASE desired # stable /\ age >= Wait(desired)
  BY <1>1, <1>2, <1>3, <1>5 DEF TypeOK, StabilizePower
<1>6. CASE desired # stable /\ ~(age >= Wait(desired))
  BY <1>1, <1>2, <1>3, <1>6 DEF TypeOK, StabilizePower
<1> QED
  BY <1>4, <1>5, <1>6

\* The state of HDD keeps its type (_stabilize_hdd).
LEMMA HddTypes ==
  ASSUME TypeOK, NEW reading \in HddReadings, NEW gap \in 1..MaxGap,
         StabilizeHdd(reading, gap)
  PROVE  hdd' \in HddReadings /\ hddAge' \in Nat
<1>1. hdd \in HddReadings /\ hddAge \in Nat /\ hddAge + gap \in Nat
  BY DEF TypeOK
<1>2. Unknown \in HddReadings
  BY DEF HddReadings
<1>3. (hdd' = reading \/ hdd' = Unknown \/ hdd' = hdd) /\ (hddAge' = 0 \/ hddAge' = hddAge + gap)
  BY ZenonT(30) DEF StabilizeHdd
<1> QED
  BY <1>1, <1>2, <1>3

\* The history keeps its type.
LEMMA HistoryTypes ==
  ASSUME TypeOK, NEW reading \in Readings, NEW gap \in 1..MaxGap, NEW elapsed \in Nat,
         reading.power \in PowerReadings, Remember(reading, gap, elapsed)
  PROVE  /\ sampled' \in PowerReadings \cup {None}
         /\ streak' \in 0..Horizon
         /\ lostFor' \in 0..Horizon \cup {None}
         /\ sinceActive' \in 0..Horizon \cup {None}
<1>1. sampled' \in PowerReadings \cup {None}
  BY DEF Remember
<1>2. streak' \in 0..Horizon
  <2>1. streak + elapsed \in Nat
    BY DEF TypeOK
  <2> QED
    BY <2>1, CapRange DEF Remember
<1>3. lostFor' \in 0..Horizon \cup {None}
  <2>1. CASE lostFor = None
    BY <2>1 DEF Remember
  <2>2. CASE lostFor # None
    <3>1. lostFor + elapsed \in Nat
      BY <2>2 DEF TypeOK
    <3>2. Cap(lostFor + elapsed) \in 0..Horizon
      BY <3>1, CapRange
    <3> QED
      BY <2>2, <3>2 DEF Remember
  <2> QED
    BY <2>1, <2>2
<1>4. sinceActive' \in 0..Horizon \cup {None}
  <2>1. \/ sinceActive' = None \/ sinceActive' = 0
        \/ sinceActive # None /\ sinceActive' = Cap(sinceActive + gap)
    <3> DEFINE seen == reading.hdd = <<"ACTIVE", TRUE>>
               held == IF sinceActive = None THEN None ELSE Cap(sinceActive + gap)
    <3>1. sinceActive' = CASE reading.hdd = Unknown -> None [] seen -> 0 [] OTHER -> held
      BY DEF Remember
    <3>2. held = None \/ (sinceActive # None /\ held = Cap(sinceActive + gap))
      OBVIOUS
    <3> HIDE DEF seen, held
    <3>3. CASE reading.hdd = Unknown
      BY <3>1, <3>3
    <3>4. CASE reading.hdd # Unknown /\ seen
      BY <3>1, <3>4
    <3>5. CASE reading.hdd # Unknown /\ ~seen
      BY <3>1, <3>2, <3>5
    <3> QED
      BY <3>3, <3>4, <3>5
  <2>2. sinceActive # None => Cap(sinceActive + gap) \in 0..Horizon
    <3>1. sinceActive # None => sinceActive + gap \in Nat
      BY DEF TypeOK
    <3> QED
      BY <3>1, CapRange
  <2> QED
    BY <2>1, <2>2
<1> QED
  BY <1>1, <1>2, <1>3, <1>4

LEMMA InitIInv == Init => IInv
<1> SUFFICES ASSUME Init PROVE IInv
  OBVIOUS
<1>1. TypeOK
  <2>1. Unknown \in PowerReadings /\ Unknown \in HddReadings /\ None # Unknown
    BY DEF PowerReadings, HddReadings
  <2> QED
    BY <2>1 DEF Init, TypeOK
<1>2. Steady /\ Waiting
  BY DEF Init, Steady, Waiting
<1>3. HoldAge /\ HddHeld
  BY DEF Init, HoldAge, HddHeld, Unknown
<1> QED
  BY <1>1, <1>2, <1>3 DEF IInv

\* One poll keeps every variable in its type (poll_once).
LEMMA PollTypes ==
  ASSUME TypeOK, NEW reading \in Readings, NEW gap \in 1..MaxGap, NEW newLag \in 0..MaxLag,
         Poll(reading, gap, newLag)
  PROVE  TypeOK'
<1>1. /\ reading.power \in PowerReadings /\ reading.hdd \in HddReadings
      /\ gap + newLag - lag \in Nat /\ lag' = newLag
  BY PollRange
<1>2. /\ StabilizePower(reading.power, gap) /\ StabilizeHdd(reading.hdd, gap)
      /\ Remember(reading, gap, gap + newLag - lag)
  BY DEF Poll
<1>3. /\ stable' \in PowerReadings
      /\ candidate' \in PowerReadings \cup {None} /\ candidate' # stable'
      /\ candidateAge' \in Nat
      /\ candidate' # None => candidateAge' < Wait(candidate')
  BY <1>1, <1>2, PowerTypes
<1>4. hdd' \in HddReadings /\ hddAge' \in Nat
  BY <1>1, <1>2, HddTypes
<1>5. /\ sampled' \in PowerReadings \cup {None} /\ streak' \in 0..Horizon
      /\ lostFor' \in 0..Horizon \cup {None} /\ sinceActive' \in 0..Horizon \cup {None}
  BY <1>1, <1>2, HistoryTypes
<1> QED
  BY <1>1, <1>3, <1>4, <1>5 DEF TypeOK, Wait

\* How the time a value has been sampled grows (Remember).
LEMMA StreakStep ==
  ASSUME TypeOK, NEW reading \in Readings, NEW gap \in 1..MaxGap, NEW newLag \in 0..MaxLag,
         Poll(reading, gap, newLag)
  PROVE  /\ sampled' = reading.power
         /\ reading.power # sampled => streak' = 0
         /\ reading.power = sampled =>
              /\ streak' <= streak + (gap + newLag - lag)
              /\ streak' = Horizon \/ streak' = streak + (gap + newLag - lag)
<1>1. gap + newLag - lag \in Nat
  BY PollRange
<1>2. streak + (gap + newLag - lag) \in Nat
  BY <1>1 DEF TypeOK
<1>3. /\ sampled' = reading.power
      /\ streak' = IF reading.power = sampled THEN Cap(streak + (gap + newLag - lag)) ELSE 0
  BY DEF Poll, Remember
<1> HIDE DEF Cap
<1> QED
  BY <1>2, <1>3, CapRange

\* The three ways _stabilize_power ends: the value is the stable one, it becomes
\* the stable one, or it is the candidate.
LEMMA PowerStep ==
  ASSUME TypeOK, NEW desired \in PowerReadings, NEW gap \in 1..MaxGap,
         StabilizePower(desired, gap)
  PROVE  \/ desired = stable /\ stable' = stable /\ candidate' = None
         \/ /\ desired # stable /\ stable' = desired /\ candidate' = None
            /\ (desired = candidate /\ candidateAge + gap >= Wait(desired)) \/ Wait(desired) <= 0
         \/ /\ desired # stable /\ stable' = stable /\ candidate' = desired
            /\ candidateAge' = IF desired = candidate THEN candidateAge + gap ELSE 0
<1> DEFINE age == IF desired = candidate THEN candidateAge + gap ELSE 0
<1>1. Wait(desired) \in Nat /\ age \in Nat
  BY WaitRange DEF TypeOK
<1>2. CASE desired = stable
  BY <1>2 DEF StabilizePower
<1>3. CASE desired # stable /\ age >= Wait(desired)
  <2>1. stable' = desired /\ candidate' = None
    BY <1>3 DEF StabilizePower
  <2> QED
    BY <1>1, <1>3, <2>1
<1>4. CASE desired # stable /\ ~(age >= Wait(desired))
  BY <1>4 DEF StabilizePower
<1> QED
  BY <1>2, <1>3, <1>4

\* A poll keeps Steady, and changes the stable value only to one that was sampled
\* for its wait, less the latency of the first sample.
LEMMA PollSteady ==
  ASSUME TypeOK, Steady,
         NEW reading \in Readings, NEW gap \in 1..MaxGap, NEW newLag \in 0..MaxLag,
         Poll(reading, gap, newLag)
  PROVE  /\ Steady'
         /\ stable' # stable => sampled' = stable' /\ streak' >= Wait(stable') - MaxLag
<1> DEFINE desired == reading.power
<1>1. desired \in PowerReadings /\ lag' = newLag
  BY PollRange
<1>2. StabilizePower(desired, gap)
  BY DEF Poll
<1>3. /\ sampled' = desired
      /\ desired # sampled => streak' = 0
      /\ desired = sampled => streak' = Horizon \/ streak' = streak + (gap + newLag - lag)
  BY StreakStep
<1>4. streak' \in Nat /\ streak \in Nat /\ lag \in Nat /\ candidateAge \in Nat /\ candidateAge' \in Nat
  BY PollTypes DEF TypeOK
<1>5. Wait(desired) \in Nat /\ Wait(desired) <= Horizon
  BY WaitRange
<1>6. desired # None
  BY <1>1
<1> HIDE DEF desired
\* A candidate that is sampled once more has been sampled long enough before.
<1>7. desired = candidate =>
        streak' = Horizon \/ streak' >= candidateAge + gap + newLag - MaxLag
  <2>1. gap + newLag - lag \in Nat /\ streak' <= Horizon
    BY PollRange, PollTypes DEF TypeOK
  <2>2. desired = candidate =>
          desired = sampled /\ (streak = Horizon \/ streak >= candidateAge + lag - MaxLag)
    BY <1>6 DEF Steady
  <2> QED
    BY <1>3, <1>4, <2>1, <2>2
<1>8. CASE stable' = stable /\ candidate' = None
  BY <1>8 DEF Steady
<1>9. CASE /\ stable' = desired /\ candidate' = None
           /\ (desired = candidate /\ candidateAge + gap >= Wait(desired)) \/ Wait(desired) <= 0
  <2>1. streak' >= Wait(desired) - MaxLag
    BY <1>4, <1>5, <1>7, <1>9
  <2> QED
    BY <1>3, <1>9, <2>1 DEF Steady
<1>10. CASE /\ stable' = stable /\ candidate' = desired
            /\ candidateAge' = IF desired = candidate THEN candidateAge + gap ELSE 0
  <2>1. streak' = Horizon \/ streak' >= candidateAge' + lag' - MaxLag
    BY <1>1, <1>4, <1>7, <1>10
  <2> QED
    BY <1>3, <1>10, <2>1 DEF Steady
<1> QED
  BY <1>1, <1>2, <1>8, <1>9, <1>10, PowerStep

\* A poll keeps Waiting: a value other than the stable one is the candidate from
\* its first sample on, and nothing but another sample takes that away.
LEMMA PollWaiting ==
  ASSUME TypeOK, Waiting,
         NEW reading \in Readings, NEW gap \in 1..MaxGap, NEW newLag \in 0..MaxLag,
         Poll(reading, gap, newLag)
  PROVE  Waiting'
<1> DEFINE desired == reading.power
<1>1. desired \in PowerReadings /\ lag' = newLag
  BY PollRange
<1>2. StabilizePower(desired, gap)
  BY DEF Poll
<1>3. /\ sampled' = desired
      /\ desired # sampled => streak' = 0
      /\ desired = sampled => streak' <= streak + (gap + newLag - lag)
  BY StreakStep
<1>4. streak' \in Nat /\ streak \in Nat /\ lag \in Nat /\ candidateAge \in Nat /\ candidateAge' \in Nat
  BY PollTypes DEF TypeOK
<1>5. desired # None
  BY <1>1
<1> HIDE DEF desired
<1>6. CASE stable' = desired
  BY <1>3, <1>6 DEF Waiting
<1>7. CASE /\ desired # stable /\ stable' = stable /\ candidate' = desired
           /\ candidateAge' = IF desired = candidate THEN candidateAge + gap ELSE 0
  <2>1. desired = sampled => desired = candidate /\ streak <= candidateAge + lag
    BY <1>5, <1>7 DEF Waiting
  <2>2. streak' <= candidateAge' + newLag
    BY <1>3, <1>4, <1>7, <2>1
  <2> QED
    BY <1>1, <1>3, <1>7, <2>2 DEF Waiting
<1> QED
  BY <1>1, <1>2, <1>6, <1>7, PowerStep

\* A poll keeps the age of the hold, and with it HddHeld (_stabilize_hdd).
LEMMA PollHdd ==
  ASSUME TypeOK, HoldAge, HddHeld,
         NEW reading \in Readings, NEW gap \in 1..MaxGap, NEW newLag \in 0..MaxLag,
         Poll(reading, gap, newLag)
  PROVE  HoldAge' /\ HddHeld'
<1> DEFINE on == <<"ACTIVE", TRUE>>
           idle == <<"IDLE", TRUE>>
<1>1. on # Unknown /\ on # idle /\ idle # Unknown
  BY DEF Unknown
<1>2. reading.hdd \in {on, idle, Unknown} /\ hdd \in {on, idle, Unknown}
  BY PollRange DEF TypeOK, HddReadings
<1>3. hddAge \in Nat /\ gap \in Nat /\ None \notin Nat
      /\ sinceActive \in 0..Horizon \cup {None}
  BY DEF TypeOK
<1>4. hdd[1] = "ACTIVE" <=> hdd = on
  <2>1. on[1] = "ACTIVE" /\ idle[1] = "IDLE" /\ Unknown[1] = "UNKNOWN"
    BY DEF Unknown
  <2> HIDE DEF on, idle
  <2> QED
    BY <1>1, <1>2, <2>1
<1>5. /\ reading.hdd = Unknown => hdd' = Unknown /\ sinceActive' = None
      /\ reading.hdd = on => hdd' = on /\ hddAge' = 0 /\ sinceActive' = 0
      /\ reading.hdd = idle =>
           /\ sinceActive' = IF sinceActive = None THEN None ELSE Cap(sinceActive + gap)
           /\ IF hdd = on /\ hddAge + gap < HddActiveHold
                THEN hddAge' = hddAge + gap /\ hdd' = hdd
                ELSE hdd' = idle
  <2>1. reading.hdd = Unknown => hdd' = Unknown /\ sinceActive' = None
    BY <1>1 DEF Poll, StabilizeHdd, Remember
  <2>2. reading.hdd = on => hdd' = on /\ hddAge' = 0 /\ sinceActive' = 0
    BY <1>1 DEF Poll, StabilizeHdd, Remember
  <2>3. reading.hdd = idle =>
          sinceActive' = IF sinceActive = None THEN None ELSE Cap(sinceActive + gap)
    BY <1>1 DEF Poll, Remember
  <2>4. reading.hdd = idle =>
          IF hdd = on /\ hddAge + gap < HddActiveHold
            THEN hddAge' = hddAge + gap /\ hdd' = hdd
            ELSE hdd' = idle
    BY <1>1, <1>4 DEF Poll, StabilizeHdd
  <2> QED
    BY <2>1, <2>2, <2>3, <2>4
<1>6. /\ HoldAge <=> (hdd = on => hddAge = sinceActive)
      /\ HoldAge' <=> (hdd' = on => hddAge' = sinceActive')
      /\ HddHeld <=> (hdd = on <=> sinceActive # None /\ sinceActive < HddActiveHold)
      /\ HddHeld' <=> (hdd' = on <=> sinceActive' # None /\ sinceActive' < HddActiveHold)
  BY DEF HoldAge, HddHeld
<1> HIDE DEF on, idle
<1>7. CASE reading.hdd = Unknown
  BY <1>1, <1>5, <1>6, <1>7
<1>8. CASE reading.hdd = on
  BY <1>3, <1>5, <1>6, <1>8
<1>9. CASE reading.hdd = idle /\ sinceActive = None
  BY <1>1, <1>5, <1>6, <1>9
<1>10. CASE reading.hdd = idle /\ sinceActive # None
  <2>1. sinceActive \in Nat /\ sinceActive + gap \in Nat
    BY <1>3, <1>10
  <2>2. sinceActive' \in Nat /\ (sinceActive' = sinceActive + gap \/ sinceActive' = Horizon)
        /\ sinceActive' <= sinceActive + gap
    BY <1>5, <1>10, <2>1, CapRange
  <2>3. sinceActive' # None
    BY <1>3, <2>2
  <2> QED
    BY <1>1, <1>3, <1>5, <1>6, <1>10, <2>1, <2>2, <2>3
<1> QED
  BY <1>2, <1>7, <1>8, <1>9, <1>10

-----------------------------------------------------------------------------
\* IInv is inductive.
LEMMA NextIInv == IInv /\ [Next]_vars => IInv'
<1> SUFFICES ASSUME IInv, [Next]_vars PROVE IInv'
  OBVIOUS
<1>1. CASE Next
  <2>1. PICK reading \in Readings, gap \in 1..MaxGap, newLag \in 0..MaxLag :
          Poll(reading, gap, newLag)
    BY <1>1 DEF Next
  <2> QED
    BY <2>1, PollTypes, PollSteady, PollWaiting, PollHdd DEF IInv
<1>2. CASE UNCHANGED vars
  BY <1>2 DEF IInv, TypeOK, Steady, Waiting, HoldAge, HddHeld, Wait, vars, monitor
<1> QED
  BY <1>1, <1>2

LEMMA InvariantHolds == Spec => []IInv
BY InitIInv, NextIInv, PTL DEF Spec

\* A sampled value other than the stable one still waits (IInv's last step).
LEMMA IInvSettles == IInv => SettlesInTime
<1> SUFFICES ASSUME IInv PROVE SettlesInTime
  OBVIOUS
<1>1. sampled # None /\ sampled # stable => candidate = sampled /\ streak <= candidateAge + lag
  BY DEF IInv, Waiting
<1>2. candidate # None => candidateAge < Wait(candidate)
  BY DEF IInv, TypeOK
<1>3. lag \in Nat /\ lag <= MaxLag /\ streak \in Nat /\ candidateAge \in Nat
  BY DEF IInv, TypeOK
<1>4. Wait(sampled) \in Nat
  BY WaitRange
<1> QED
  BY <1>1, <1>2, <1>3, <1>4 DEF SettlesInTime

\* Every variable of the monitor keeps its type, and a candidate is always one
\* that has not waited long enough (InputMonitor).
THEOREM TypeCorrect == Spec => []TypeOK
BY InvariantHolds, PTL DEF IInv

\* A POWER value that stays sampled for its wait becomes the stable one with the
\* next sample, however the polls are spaced (_stabilize_power).
THEOREM SettlesInTimeHolds == Spec => []SettlesInTime
BY InvariantHolds, IInvSettles, PTL

\* HDD activity is reported exactly until HddActiveHold has passed since the last
\* sample that showed it (_stabilize_hdd).
THEOREM HddHeldHolds == Spec => []HddHeld
BY InvariantHolds, PTL DEF IInv

\* No value becomes the stable POWER state that was not sampled without a break
\* for its wait, less the latency of one read (_stabilize_power).
THEOREM NoGlitchHolds == Spec => NoGlitch
<1>1. IInv /\ [Next]_vars =>
        [stable' # stable => sampled' = stable' /\ streak' >= Wait(stable') - MaxLag]_vars
  <2> SUFFICES ASSUME IInv, Next
               PROVE  stable' # stable => sampled' = stable' /\ streak' >= Wait(stable') - MaxLag
    OBVIOUS
  <2>1. PICK reading \in Readings, gap \in 1..MaxGap, newLag \in 0..MaxLag :
          Poll(reading, gap, newLag)
    BY DEF Next
  <2> QED
    BY <2>1, PollSteady DEF IInv
<1> QED
  BY <1>1, InvariantHolds, PTL DEF Spec, NoGlitch
=============================================================================
