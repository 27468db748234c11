--------------------------- MODULE WifiJob_proofs ---------------------------
(***************************************************************************)
(* What is proved of WifiJob for any number of requests, any profiles and  *)
(* any set of faults: types and every safety property its run checks.  The *)
(* inductive invariant says of every job, by the step it is at, what of    *)
(* the candidate exists, what the executor remembers and what connection   *)
(* is active; of the queue, that a request is in it at most once and has   *)
(* no job yet; and of the executor, that its temporary connection belongs  *)
(* to a running job.                                                       *)
(***************************************************************************)
EXTENDS WifiJob, TLAPS

At(j, steps) == job[j].pc \in steps
Calm == ~May("drop")
Exact == faults \subseteq {"drop", "thread_fail", "slow_list"}

\* The only running job is the one the manager knows of.
Exclusive(j) ==
  Running(j) =>
    /\ busy /\ last = [status |-> "IN_PROGRESS", job |-> j]
    /\ \A k \in Jobs : Running(k) => k = j
    /\ temp \in {None, j}
    /\ job[j].previous # None => job[j].previous # j /\ profile[job[j].previous] # "absent"

\* The candidate: in the profiles, in the executor, and as it is found in the end.
Candidate(j) ==
  /\ At(j, {"idle"}) => job[j] = NoJob /\ profile[j] = "absent"
  /\ At(j, {"previous", "current", "add"}) =>
       profile[j] = "absent" /\ temp = None /\ ~job[j].confirmed
  /\ At(j, {"up", "confirm", "persist"}) => temp = j /\ profile[j] = "memory"
  /\ At(j, {"persist"}) => job[j].confirmed
  /\ At(j, {"finish"}) =>
       temp = None /\ (job[j].result = "SUCCEEDED" => profile[j] = "durable")
  /\ profile[j] = "durable" => job[j].confirmed
  /\ Exact =>
       /\ At(j, {"rollback", "cleanup"}) /\ profile[j] # "absent" => temp = j
       /\ At(j, {"finish", "over"}) /\ profile[j] # "absent" => job[j].result = "SUCCEEDED"

Result(j) ==
  /\ At(j, {"previous", "current", "add", "up", "confirm", "persist"}) =>
       job[j].result = "IN_PROGRESS"
  /\ At(j, {"rollback"}) => job[j].result = "FAILED" /\ job[j].previous # None
  /\ At(j, {"cleanup"}) => job[j].result \in {"FAILED", "ROLLED_BACK", "ROLLBACK_FAILED"}
  /\ At(j, {"finish"}) => job[j].result # "IN_PROGRESS"
  /\ job[j].result = "ROLLED_BACK" => job[j].previous # None

\* The connection, while nothing but the agent touches it.
Connection(j) ==
  Calm =>
    /\ At(j, {"current", "add", "up"}) => active = job[j].previous
    /\ At(j, {"add", "up", "confirm", "persist"}) => job[j].previous # None
    /\ At(j, {"previous", "current", "add", "up"}) => job[j].displaced = None
    /\ At(j, {"confirm", "persist"}) => active = j
    /\ At(j, {"cleanup", "finish"}) /\ job[j].result = "ROLLED_BACK" => active = job[j].previous
    /\ At(j, {"finish"}) /\ job[j].result = "SUCCEEDED" => active = j
    /\ At(j, {"cleanup", "finish"}) /\ job[j].result = "FAILED" => job[j].displaced = None

JobOK(j) == Exclusive(j) /\ Candidate(j) /\ Result(j) /\ Connection(j)

QueueOK ==
  /\ \A i, k \in 1..Len(queue) : queue[i] = queue[k] /\ queue[i] \in Jobs => i = k
  /\ \A i \in 1..Len(queue) : queue[i] \in Jobs => At(queue[i], {"idle"}) /\ asked[queue[i]] # "new"
  /\ \A j \in Jobs : asked[j] = "new" => At(j, {"idle"})

IInv ==
  /\ TypeOK /\ QueueOK /\ ResultIsTrue
  /\ \A j \in Jobs : JobOK(j)
  /\ temp # None => Running(temp)

-----------------------------------------------------------------------------

LEMMA Others ==
  ASSUME IInv, NEW j \in Jobs, Running(j), NEW k \in Jobs, k # j
  PROVE  /\ ~Running(k) /\ At(k, {"idle", "over"}) /\ last = [status |-> "IN_PROGRESS", job |-> j]
         /\ busy /\ temp \in {None, j}
  <1>1. JobOK(j)
    BY DEF IInv
  <1>2. ~Running(k)
    BY <1>1 DEF JobOK, Exclusive
  <1>3. job[k].pc \in {"idle", "over"}
    BY <1>2 DEF Running
  <1> QED BY <1>1, <1>2, <1>3 DEF JobOK, Exclusive, At

\* A job's step keeps what is said of the others, the queue and the last result.
LEMMA OthersKeep ==
  ASSUME IInv, NEW j \in Jobs, Running(j), TypeOK', UNCHANGED <<faults, server>>,
         \A k \in Jobs \ {j} : job'[k] = job[k] /\ profile'[k] = profile[k]
  PROVE  /\ QueueOK'
         /\ \A k \in Jobs \ {j} : JobOK(k)'
  <1> USE DEF IInv
  <1>1. QueueOK'
    <2>1. \A i \in 1..Len(queue) : queue[i] \in Jobs => queue[i] # j
      BY DEF QueueOK, At, Running
    <2>2. asked[j] # "new"
      BY DEF QueueOK, At, Running
    <2> QED BY <2>1, <2>2 DEF QueueOK, At, server
  <1>2. ASSUME NEW k \in Jobs \ {j}
        PROVE  JobOK(k)'
    <2>1. job'[k] = job[k] /\ profile'[k] = profile[k] /\ faults' = faults
      OBVIOUS
    <2>2. ~Running(k) /\ At(k, {"idle", "over"}) /\ JobOK(k)
      BY <1>2, Others
    <2>3. Exclusive(k)'
      BY <2>1, <2>2 DEF Exclusive, Running
    <2>4. Candidate(k)' /\ Result(k)' /\ Connection(k)'
      BY <2>1, <2>2 DEF Candidate, Result, Connection, At, JobOK, Exact, Calm, May
    <2> QED BY <2>3, <2>4 DEF JobOK
  <1> QED BY <1>1, <1>2

\* The previous connection of a running job exists and is not its candidate.
LEMMA PreviousExists ==
  ASSUME IInv, NEW j \in Jobs, Running(j), job[j].previous # None
  PROVE  job[j].previous \in Profiles /\ job[j].previous # j
         /\ profile[job[j].previous] # "absent"
  BY DEF IInv, JobOK, Exclusive, TypeOK, JobRecords

LEMMA TypeFacts ==
  ASSUME IInv, NEW j \in Jobs
  PROVE  /\ j \in Profiles /\ j # None /\ JobOK(j)
         /\ faults \in Scenarios /\ last \in [status : Statuses, job : Jobs] \cup {None}
         /\ job \in [Jobs -> JobRecords] /\ job[j] \in JobRecords
         /\ profile \in [Profiles -> {"absent", "memory", "durable"}]
         /\ active \in Profiles \cup {None} /\ (active # None => profile[active] # "absent")
  BY ConstantsAssumption DEF IInv, TypeOK, Profiles

\* The record s is job[j] with its pc, result and displaced changed.
Becomes(s, j, pc, result, displaced) ==
  /\ s \in JobRecords
  /\ s.pc = pc /\ s.result = result /\ s.displaced = displaced
  /\ s.previous = job[j].previous /\ s.confirmed = job[j].confirmed

AfterFailure(j) == IF job[j].previous = None THEN "cleanup" ELSE "rollback"

Places == {"idle", "previous", "current", "add", "up", "confirm", "persist", "rollback",
           "cleanup", "finish", "over"}

LEMMA Placed ==
  ASSUME NEW s \in JobRecords, NEW p \in Places
  PROVE  /\ [s EXCEPT !.pc = p] \in JobRecords /\ [s EXCEPT !.pc = p].pc = p
         /\ [s EXCEPT !.pc = p].previous = s.previous
         /\ [s EXCEPT !.pc = p].result = s.result
         /\ [s EXCEPT !.pc = p].confirmed = s.confirmed
         /\ [s EXCEPT !.pc = p].displaced = s.displaced
  BY DEF JobRecords, Places

LEMMA Judged ==
  ASSUME NEW s \in JobRecords, NEW q \in Statuses
  PROVE  /\ [s EXCEPT !.result = q] \in JobRecords /\ [s EXCEPT !.result = q].pc = s.pc
         /\ [s EXCEPT !.result = q].previous = s.previous
         /\ [s EXCEPT !.result = q].result = q
         /\ [s EXCEPT !.result = q].confirmed = s.confirmed
         /\ [s EXCEPT !.result = q].displaced = s.displaced
  BY DEF JobRecords

LEMMA Verified ==
  ASSUME NEW s \in JobRecords, NEW p \in Places
  PROVE  LET v == [s EXCEPT !.pc = p, !.confirmed = TRUE]
         IN  /\ v \in JobRecords /\ v.pc = p /\ v.confirmed /\ v.result = s.result
             /\ v.previous = s.previous /\ v.displaced = s.displaced
  BY DEF JobRecords, Places

\* A job that goes on, with and without a new result.
LEMMA Moved ==
  ASSUME IInv, NEW j \in Jobs, NEW p \in Places, NEW q \in Statuses
  PROVE  /\ Becomes([job[j] EXCEPT !.pc = p], j, p, job[j].result, job[j].displaced)
         /\ Becomes([job[j] EXCEPT !.pc = p, !.result = q], j, p, q, job[j].displaced)
  <1>1. job[j] \in JobRecords
    BY TypeFacts
  <1> DEFINE s == [job[j] EXCEPT !.pc = p]
  <1>2. /\ s \in JobRecords /\ s.pc = p /\ s.previous = job[j].previous
        /\ s.result = job[j].result /\ s.confirmed = job[j].confirmed
        /\ s.displaced = job[j].displaced
    BY <1>1, Placed
  <1>3. [job[j] EXCEPT !.pc = p, !.result = q] = [s EXCEPT !.result = q]
    BY <1>1 DEF JobRecords
  <1> HIDE DEF s
  <1>4. /\ [s EXCEPT !.result = q] \in JobRecords /\ [s EXCEPT !.result = q].pc = s.pc
        /\ [s EXCEPT !.result = q].previous = s.previous
        /\ [s EXCEPT !.result = q].result = q
        /\ [s EXCEPT !.result = q].confirmed = s.confirmed
        /\ [s EXCEPT !.result = q].displaced = s.displaced
    BY <1>2, Judged
  <1>5. Becomes(s, j, p, job[j].result, job[j].displaced)
    BY <1>2 DEF Becomes
  <1>6. Becomes([s EXCEPT !.result = q], j, p, q, job[j].displaced)
    BY <1>2, <1>4 DEF Becomes
  <1> QED BY <1>3, <1>5, <1>6 DEF s

LEMMA FailedFacts ==
  ASSUME IInv, NEW j \in Jobs
  PROVE  /\ Becomes(Failed(job[j]), j, AfterFailure(j), "FAILED", job[j].displaced)
         /\ Becomes([Failed(job[j]) EXCEPT !.displaced = active], j, AfterFailure(j), "FAILED", active)
  <1> DEFINE f == Failed(job[j])
  <1>1. Becomes(f, j, AfterFailure(j), "FAILED", job[j].displaced)
    <2>1. AfterFailure(j) \in Places /\ "FAILED" \in Statuses
      BY DEF AfterFailure, Places, Statuses
    <2>2. f = [job[j] EXCEPT !.pc = AfterFailure(j), !.result = "FAILED"]
      BY DEF Failed, AfterFailure
    <2> HIDE DEF f
    <2> QED BY <2>1, <2>2, Moved
  <1> HIDE DEF f
  <1>2. Becomes([f EXCEPT !.displaced = active], j, AfterFailure(j), "FAILED", active)
    BY <1>1, TypeFacts DEF JobRecords, Becomes
  <1> QED BY <1>1, <1>2 DEF f

\* A step of job j that is not its last, as everybody else sees it.
StepOf(j) ==
  /\ Running(j) /\ UNCHANGED <<faults, server, busy, last>>
  /\ job' = [job EXCEPT ![j] = job'[j]] /\ job'[j] \in JobRecords /\ Running(j)'
  /\ profile' \in [Profiles -> {"absent", "memory", "durable"}]
  /\ \A p \in Profiles \ {j} : profile'[p] = profile[p]
  /\ active' \in Profiles \cup {None} /\ (active' # None => profile'[active'] # "absent")
  /\ temp' \in {None, j}
  /\ job'[j].previous # None =>
       job'[j].previous # j /\ profile'[job'[j].previous] # "absent"

\* All that remains to be shown of such a step.
LEMMA StepKeeps ==
  ASSUME IInv, NEW j \in Jobs, StepOf(j), Candidate(j)', Result(j)', Connection(j)'
  PROVE  IInv'
  <1> USE TypeFacts
  <1>1. job' \in [Jobs -> JobRecords] /\ \A k \in Jobs \ {j} : job'[k] = job[k] /\ profile'[k] = profile[k]
    BY DEF StepOf, Profiles
  <1>2. TypeOK'
    BY <1>1 DEF TypeOK, IInv, StepOf, server
  <1>3. \A k \in Jobs : Running(k)' => k = j
    BY <1>1, Others DEF Running, StepOf
  <1>4. last = [status |-> "IN_PROGRESS", job |-> j] /\ busy
    BY DEF JobOK, Exclusive, StepOf
  <1>5. Exclusive(j)'
    BY <1>3, <1>4 DEF Exclusive, StepOf
  <1>6. ResultIsTrue'
    BY <1>4 DEF ResultIsTrue, StepOf
  <1>7. QueueOK' /\ \A k \in Jobs \ {j} : JobOK(k)'
    BY <1>1, <1>2, OthersKeep DEF StepOf
  <1>8. temp' # None => Running(temp)'
    BY DEF StepOf
  <1> QED BY <1>2, <1>5, <1>6, <1>7, <1>8 DEF IInv, JobOK

LEMMA PreviousKeeps ==
  ASSUME IInv, NEW j \in Jobs, J_Previous(j), UNCHANGED faults
  PROVE  IInv'
  <1> USE TypeFacts
  <1> DEFINE s == job'[j]
  <1>1. /\ Running(j) /\ At(j, {"previous"})
        /\ UNCHANGED <<faults, server, busy, last, temp, profile, active>>
    BY DEF J_Previous, Running, At, network
  <1>2. /\ job' = [job EXCEPT ![j] = s]
        /\ s \in {[job[j] EXCEPT !.pc = "current", !.previous = active], Failed(job[j])}
    BY DEF J_Previous, Fail
  <1>3. /\ s \in JobRecords /\ s.confirmed = job[j].confirmed /\ s.displaced = job[j].displaced
        /\ \/ s.pc = "current" /\ s.previous = active /\ s.result = job[j].result
           \/ s.pc = AfterFailure(j) /\ s.previous = job[j].previous /\ s.result = "FAILED"
    <2>1. CASE s = [job[j] EXCEPT !.pc = "current", !.previous = active]
      BY <2>1 DEF JobRecords
    <2>2. CASE s = Failed(job[j])
      BY <2>2, FailedFacts DEF Becomes
    <2> QED BY <1>2, <2>1, <2>2
  <1>4. profile[j] = "absent" /\ temp = None /\ active # j
    BY <1>1 DEF JobOK, Candidate, At
  <1>5. StepOf(j)
    BY <1>1, <1>2, <1>3, <1>4 DEF StepOf, Running, AfterFailure, JobOK, Exclusive
  <1> HIDE DEF s
  <1>6. Candidate(j)' /\ Result(j)' /\ Connection(j)'
    BY <1>1, <1>3, <1>4
    DEF s, JobOK, Candidate, Result, Connection, At, AfterFailure, Calm, May
  <1> QED BY <1>5, <1>6, StepKeeps

LEMMA CurrentKeeps ==
  ASSUME IInv, NEW j \in Jobs, J_Current(j), UNCHANGED faults
  PROVE  IInv'
  <1> USE TypeFacts
  <1> DEFINE s == job'[j]
  <1>1. /\ Running(j) /\ At(j, {"current"})
        /\ UNCHANGED <<faults, server, busy, last, temp, profile, active>>
    BY DEF J_Current, Running, At, network
  <1>2. /\ job' = [job EXCEPT ![j] = s]
        /\ \/ active # None /\ s = [job[j] EXCEPT !.pc = "add"]
           \/ s = Failed(job[j])
    BY DEF J_Current, Fail
  <1>3. \/ active # None /\ Becomes(s, j, "add", job[j].result, job[j].displaced)
        \/ Becomes(s, j, AfterFailure(j), "FAILED", job[j].displaced)
    <2>1. "add" \in Places /\ job[j].result \in Statuses
      BY DEF Places, JobRecords
    <2>2. Becomes([job[j] EXCEPT !.pc = "add"], j, "add", job[j].result, job[j].displaced)
      BY <2>1, Moved
    <2>3. Becomes(Failed(job[j]), j, AfterFailure(j), "FAILED", job[j].displaced)
      BY FailedFacts
    <2> HIDE DEF s
    <2> QED BY <1>2, <2>2, <2>3
  <1>4. StepOf(j)
    BY <1>1, <1>2, <1>3 DEF StepOf, Running, AfterFailure, JobOK, Exclusive, Candidate, Becomes
  <1> HIDE DEF s
  <1>5. Candidate(j)' /\ Result(j)' /\ Connection(j)'
    BY <1>1, <1>3
    DEF s, JobOK, Candidate, Result, Connection, At, AfterFailure, Calm, May, Becomes
  <1> QED BY <1>4, <1>5, StepKeeps

LEMMA AddKeeps ==
  ASSUME IInv, NEW j \in Jobs, J_Add(j), UNCHANGED faults
  PROVE  IInv'
  <1> USE TypeFacts
  <1> DEFINE s == job'[j]
  <1>1. /\ Running(j) /\ At(j, {"add"})
        /\ UNCHANGED <<faults, server, busy, last, active>>
    BY DEF J_Add, Running, At
  <1>2. /\ job' = [job EXCEPT ![j] = s]
        /\ \/ /\ s = [job[j] EXCEPT !.pc = "up"]
              /\ profile' = [profile EXCEPT ![j] = "memory"] /\ temp' = j
           \/ /\ s = Failed(job[j]) /\ UNCHANGED temp
              /\ \/ UNCHANGED profile
                 \/ May("timeout") /\ profile' = [profile EXCEPT ![j] = "memory"]
    BY DEF J_Add, Fail
  <1>3. /\ \/ /\ Becomes(s, j, "up", job[j].result, job[j].displaced)
              /\ profile'[j] = "memory" /\ temp' = j
           \/ /\ Becomes(s, j, AfterFailure(j), "FAILED", job[j].displaced) /\ temp' = temp
              /\ profile'[j] \in {"absent", "memory"} /\ (Exact => profile'[j] = "absent")
        /\ profile' \in [Profiles -> {"absent", "memory", "durable"}]
        /\ \A p \in Profiles \ {j} : profile'[p] = profile[p]
        /\ active # j /\ temp = None
    <2>1. profile[j] = "absent" /\ temp = None
      BY <1>1 DEF JobOK, Candidate, At
    <2>2. CASE /\ s = [job[j] EXCEPT !.pc = "up"]
               /\ profile' = [profile EXCEPT ![j] = "memory"] /\ temp' = j
      BY <1>1, <2>1, <2>2 DEF JobRecords, Becomes
    <2>3. CASE s = Failed(job[j]) /\ UNCHANGED temp /\ UNCHANGED profile
      BY <1>1, <2>1, <2>3, FailedFacts
    <2>4. CASE /\ s = Failed(job[j]) /\ UNCHANGED temp
               /\ May("timeout") /\ profile' = [profile EXCEPT ![j] = "memory"]
      BY <1>1, <2>1, <2>4, FailedFacts DEF Exact, May
    <2> QED BY <1>2, <2>2, <2>3, <2>4
  <1>4. StepOf(j)
    BY <1>1, <1>2, <1>3 DEF StepOf, Running, AfterFailure, JobOK, Exclusive, Becomes, JobRecords
  <1> HIDE DEF s
  <1>5. Candidate(j)' /\ Result(j)' /\ Connection(j)'
    BY <1>1, <1>3
    DEF s, JobOK, Candidate, Result, Connection, At, AfterFailure, Calm, May, Becomes, Exact
  <1> QED BY <1>4, <1>5, StepKeeps

LEMMA UpKeeps ==
  ASSUME IInv, NEW j \in Jobs, J_Up(j), UNCHANGED faults
  PROVE  IInv'
  <1> USE TypeFacts
  <1> DEFINE s == job'[j]
  <1>1. /\ Running(j) /\ At(j, {"up"}) /\ temp = j /\ profile[j] # "absent"
        /\ UNCHANGED <<faults, server, busy, last, temp, profile>>
    BY DEF J_Up, Running, At, JobOK, Candidate
  <1>2. /\ job' = [job EXCEPT ![j] = s]
        /\ \/ active' = j /\ s = [job[j] EXCEPT !.pc = "confirm", !.displaced = active]
           \/ s = Failed(job[j]) /\ UNCHANGED active
           \/ active' \in {None, j} /\ s = [Failed(job[j]) EXCEPT !.displaced = active]
    <2>1. [job EXCEPT ![j].pc = "confirm", ![j].displaced = active]
            = [job EXCEPT ![j] = [job[j] EXCEPT !.pc = "confirm", !.displaced = active]]
      BY DEF JobRecords
    <2> QED BY <2>1 DEF J_Up, Fail
  <1>3. /\ active' \in {active, None, j}
        /\ \/ Becomes(s, j, "confirm", job[j].result, active) /\ active' = j
           \/ \E d \in Profiles \cup {None} : Becomes(s, j, AfterFailure(j), "FAILED", d)
    <2>1. CASE active' = j /\ s = [job[j] EXCEPT !.pc = "confirm", !.displaced = active]
      BY <2>1 DEF JobRecords, Becomes
    <2>2. CASE s = Failed(job[j]) /\ UNCHANGED active
      <3>1. job[j].displaced \in Profiles \cup {None}
        BY DEF JobRecords
      <3> QED BY <2>2, <3>1, FailedFacts
    <2>3. CASE active' \in {None, j} /\ s = [Failed(job[j]) EXCEPT !.displaced = active]
      BY <2>3, FailedFacts
    <2> QED BY <1>2, <2>1, <2>2, <2>3
  <1>4. StepOf(j)
    BY <1>1, <1>2, <1>3 DEF StepOf, Running, AfterFailure, JobOK, Exclusive, Becomes
  <1> HIDE DEF s
  <1>5. Candidate(j)' /\ Result(j)'
    BY <1>1, <1>3 DEF s, JobOK, Candidate, Result, At, AfterFailure, Becomes
  <1>6. Connection(j)'
    BY <1>1, <1>3 DEF s, JobOK, Connection, At, AfterFailure, Becomes, Calm, May
  <1> QED BY <1>4, <1>5, <1>6, StepKeeps

LEMMA ConfirmKeeps ==
  ASSUME IInv, NEW j \in Jobs, J_Confirm(j), UNCHANGED faults
  PROVE  IInv'
  <1> USE TypeFacts
  <1> DEFINE s == job'[j]
  <1>1. /\ Running(j) /\ At(j, {"confirm"}) /\ temp = j /\ profile[j] # "absent"
        /\ UNCHANGED <<faults, server, busy, last, temp, profile, active>>
    BY DEF J_Confirm, Running, At, JobOK, Candidate, network
  <1>2. /\ job' = [job EXCEPT ![j] = s]
        /\ s \in {[job[j] EXCEPT !.pc = "persist", !.confirmed = TRUE], Failed(job[j])}
    <2>1. [job EXCEPT ![j].pc = "persist", ![j].confirmed = TRUE]
            = [job EXCEPT ![j] = [job[j] EXCEPT !.pc = "persist", !.confirmed = TRUE]]
      BY DEF JobRecords
    <2> QED BY <2>1 DEF J_Confirm, Fail
  <1>3. \/ /\ s \in JobRecords /\ s.pc = "persist" /\ s.confirmed /\ s.result = job[j].result
           /\ s.previous = job[j].previous /\ s.displaced = job[j].displaced
        \/ Becomes(s, j, AfterFailure(j), "FAILED", job[j].displaced)
    <2>1. CASE s = [job[j] EXCEPT !.pc = "persist", !.confirmed = TRUE]
      <3> HIDE DEF s
      <3>1. "persist" \in Places
        BY DEF Places
      <3>2. LET v == [job[j] EXCEPT !.pc = "persist", !.confirmed = TRUE]
            IN  /\ v \in JobRecords /\ v.pc = "persist" /\ v.confirmed
                /\ v.result = job[j].result
                /\ v.previous = job[j].previous /\ v.displaced = job[j].displaced
        BY ZenonT(30), <3>1, Verified
      <3> QED BY <2>1, <3>2
    <2>2. CASE s = Failed(job[j])
      BY <2>2, FailedFacts
    <2> QED BY <1>2, <2>1, <2>2
  <1>4. StepOf(j)
    BY <1>1, <1>2, <1>3 DEF StepOf, Running, AfterFailure, JobOK, Exclusive, Becomes
  <1> HIDE DEF s
  <1>5. Candidate(j)' /\ Result(j)' /\ Connection(j)'
    BY <1>1, <1>3
    DEF s, JobOK, Candidate, Result, Connection, At, AfterFailure, Calm, May, Becomes
  <1> QED BY <1>4, <1>5, StepKeeps

LEMMA PersistKeeps ==
  ASSUME IInv, NEW j \in Jobs, J_Persist(j), UNCHANGED faults
  PROVE  IInv'
  <1> USE TypeFacts
  <1> DEFINE s == job'[j]
  <1>1. /\ Running(j) /\ At(j, {"persist"}) /\ temp = j /\ profile[j] # "absent"
        /\ job[j].confirmed
        /\ UNCHANGED <<faults, server, busy, last, active>>
    BY DEF J_Persist, Running, At, JobOK, Candidate
  <1>2. /\ job' = [job EXCEPT ![j] = s]
        /\ \/ /\ s = [job[j] EXCEPT !.pc = "finish", !.result = "SUCCEEDED"] /\ temp' = None
              /\ profile' = [profile EXCEPT ![j] = "durable"]
           \/ /\ s = Failed(job[j]) /\ temp' = j
              /\ profile' \in {profile, [profile EXCEPT ![j] = "durable"]}
    <2>1. [job EXCEPT ![j].pc = "finish", ![j].result = "SUCCEEDED"]
            = [job EXCEPT ![j] = [job[j] EXCEPT !.pc = "finish", !.result = "SUCCEEDED"]]
      BY DEF JobRecords
    <2> QED BY <1>1, <2>1 DEF J_Persist, Fail
  <1>3. /\ \/ /\ Becomes(s, j, "finish", "SUCCEEDED", job[j].displaced) /\ temp' = None
              /\ profile'[j] = "durable"
           \/ Becomes(s, j, AfterFailure(j), "FAILED", job[j].displaced) /\ temp' = j
        /\ profile' \in [Profiles -> {"absent", "memory", "durable"}] /\ profile'[j] # "absent"
        /\ \A p \in Profiles \ {j} : profile'[p] = profile[p]
    <2>1. CASE /\ s = [job[j] EXCEPT !.pc = "finish", !.result = "SUCCEEDED"] /\ temp' = None
               /\ profile' = [profile EXCEPT ![j] = "durable"]
      <3>1. "SUCCEEDED" \in Statuses /\ "finish" \in Places
        BY DEF Statuses, Places
      <3>2. Becomes([job[j] EXCEPT !.pc = "finish", !.result = "SUCCEEDED"],
                    j, "finish", "SUCCEEDED", job[j].displaced)
        BY <3>1, Moved
      <3> HIDE DEF s
      <3> QED BY <1>1, <2>1, <3>2
    <2>2. CASE /\ s = Failed(job[j]) /\ temp' = j
               /\ profile' \in {profile, [profile EXCEPT ![j] = "durable"]}
      BY <1>1, <2>2, FailedFacts
    <2> QED BY <1>2, <2>1, <2>2
  <1>4. StepOf(j)
    <2>1. active # None => profile'[active] # "absent"
      BY <1>1, <1>3
    <2>2. s \in JobRecords /\ s.previous = job[j].previous /\ temp' \in {None, j} /\ Running(j)'
      BY <1>3 DEF Becomes, Running, AfterFailure
    <2>3. s.previous # None => s.previous # j /\ profile'[s.previous] # "absent"
      BY <1>1, <1>3, <2>2, PreviousExists
    <2> QED BY <1>1, <1>2, <1>3, <2>1, <2>2, <2>3 DEF StepOf
  <1> HIDE DEF s
  <1>5. Candidate(j)' /\ Result(j)'
    <2>1. CASE Becomes(s, j, "finish", "SUCCEEDED", job[j].displaced) /\ temp' = None
               /\ profile'[j] = "durable"
      BY <1>1, <2>1 DEF s, JobOK, Candidate, Result, At, Becomes
    <2>2. CASE Becomes(s, j, AfterFailure(j), "FAILED", job[j].displaced) /\ temp' = j
      BY <1>1, <1>3, <2>2 DEF s, JobOK, Candidate, Result, At, AfterFailure, Becomes
    <2> QED BY <1>3, <2>1, <2>2
  <1>6. Connection(j)'
    BY <1>1, <1>3 DEF s, JobOK, Connection, At, AfterFailure, Calm, May, Becomes
  <1> QED BY <1>4, <1>5, <1>6, StepKeeps

LEMMA RollbackKeeps ==
  ASSUME IInv, NEW j \in Jobs, J_Rollback(j), UNCHANGED faults
  PROVE  IInv'
  <1> USE TypeFacts
  <1> DEFINE s == job'[j]
  <1>1. /\ Running(j) /\ At(j, {"rollback"}) /\ temp \in {None, j}
        /\ job[j].previous # None
        /\ UNCHANGED <<faults, server, busy, last, temp, profile>>
    BY DEF J_Rollback, Running, At, JobOK, Result, Exclusive
  <1>2. /\ job' = [job EXCEPT ![j] = s]
        /\ active' \in {active, None, job[j].previous}
        /\ \/ /\ s = [job[j] EXCEPT !.pc = "cleanup", !.result = "ROLLED_BACK"]
              /\ active' = job[j].previous
           \/ s = [job[j] EXCEPT !.pc = "cleanup", !.result = "ROLLBACK_FAILED"]
    <2>1. \A r : [job EXCEPT ![j].pc = "cleanup", ![j].result = r]
                  = [job EXCEPT ![j] = [job[j] EXCEPT !.pc = "cleanup", !.result = r]]
      BY DEF JobRecords
    <2> QED BY <2>1 DEF J_Rollback
  <1>3. \/ Becomes(s, j, "cleanup", "ROLLED_BACK", job[j].displaced) /\ active' = job[j].previous
        \/ Becomes(s, j, "cleanup", "ROLLBACK_FAILED", job[j].displaced)
    <2>1. {"ROLLED_BACK", "ROLLBACK_FAILED"} \subseteq Statuses /\ "cleanup" \in Places
      BY DEF Statuses, Places
    <2>2. /\ Becomes([job[j] EXCEPT !.pc = "cleanup", !.result = "ROLLED_BACK"],
                     j, "cleanup", "ROLLED_BACK", job[j].displaced)
          /\ Becomes([job[j] EXCEPT !.pc = "cleanup", !.result = "ROLLBACK_FAILED"],
                     j, "cleanup", "ROLLBACK_FAILED", job[j].displaced)
      BY <2>1, Moved
    <2> HIDE DEF s
    <2> QED BY <1>2, <2>2
  <1>4. StepOf(j)
    BY <1>1, <1>2, <1>3, PreviousExists DEF StepOf, Running, Becomes
  <1> HIDE DEF s
  <1>5. Candidate(j)' /\ Result(j)' /\ Connection(j)'
    BY <1>1, <1>3 DEF s, JobOK, Candidate, Result, Connection, At, Calm, May, Becomes, Exact
  <1> QED BY <1>4, <1>5, StepKeeps

LEMMA CleanupKeeps ==
  ASSUME IInv, NEW j \in Jobs, J_Cleanup(j), UNCHANGED faults
  PROVE  IInv'
  <1> USE TypeFacts
  <1> DEFINE s == job'[j]
  <1>1. /\ Running(j) /\ At(j, {"cleanup"}) /\ temp \in {None, j} /\ temp' = None
        /\ job[j].result \in {"FAILED", "ROLLED_BACK", "ROLLBACK_FAILED"}
        /\ UNCHANGED <<faults, server, busy, last>>
    BY DEF J_Cleanup, Running, At, JobOK, Result, Exclusive
  <1>2. /\ job' = [job EXCEPT ![j] = s] /\ s = [job[j] EXCEPT !.pc = "finish"]
        /\ \/ /\ temp = j /\ profile' = [profile EXCEPT ![j] = "absent"]
              /\ active' = IF active = j THEN None ELSE active
           \/ (temp = None \/ May("delete_fail")) /\ profile' = profile /\ active' = active
    BY <1>1 DEF J_Cleanup, network
  <1>3. /\ Becomes(s, j, "finish", job[j].result, job[j].displaced)
        /\ profile' \in [Profiles -> {"absent", "memory", "durable"}]
        /\ \A p \in Profiles \ {j} : profile'[p] = profile[p]
        /\ active' \in {active, None} /\ (active # j => active' = active)
        /\ active' # None => profile'[active'] # "absent"
        /\ profile'[j] \in {profile[j], "absent"}
        /\ Exact => profile'[j] = "absent"
    <2>1. Becomes(s, j, "finish", job[j].result, job[j].displaced)
      BY <1>2 DEF JobRecords, Becomes
    <2>2. CASE /\ temp = j /\ profile' = [profile EXCEPT ![j] = "absent"]
               /\ active' = IF active = j THEN None ELSE active
      BY <2>1, <2>2
    <2>3. CASE (temp = None \/ May("delete_fail")) /\ profile' = profile /\ active' = active
      BY <1>1, <2>1, <2>3 DEF JobOK, Candidate, At, Exact, May
    <2> QED BY <1>2, <2>2, <2>3
  <1>4. StepOf(j)
    BY <1>1, <1>2, <1>3, PreviousExists DEF StepOf, Running, Becomes
  <1> HIDE DEF s
  <1>5. Candidate(j)' /\ Result(j)'
    BY <1>1, <1>3 DEF s, JobOK, Candidate, Result, At, Becomes, Exact
  <1>6. Connection(j)'
    BY <1>1, <1>3, PreviousExists DEF s, JobOK, Result, Connection, At, Calm, May, Becomes
  <1> QED BY <1>4, <1>5, <1>6, StepKeeps

\* The last step hands the result to the manager.
LEMMA FinishKeeps ==
  ASSUME IInv, NEW j \in Jobs, J_Finish(j), UNCHANGED faults
  PROVE  IInv'
  <1> USE TypeFacts
  <1>1. /\ Running(j) /\ At(j, {"finish"}) /\ temp = None
        /\ UNCHANGED <<faults, server, temp, profile, active>>
        /\ busy' = FALSE /\ last' = [status |-> job[j].result, job |-> j]
        /\ job' = [job EXCEPT ![j].pc = "over"]
    BY DEF J_Finish, Running, At, JobOK, Candidate, network
  <1> DEFINE s == job'[j]
  <1>2. Becomes(s, j, "over", job[j].result, job[j].displaced)
    BY <1>1 DEF JobRecords, Becomes
  <1>3. job' \in [Jobs -> JobRecords] /\ \A k \in Jobs \ {j} : job'[k] = job[k]
    BY <1>1, <1>2 DEF Becomes
  <1>4. TypeOK'
    BY <1>1, <1>3 DEF TypeOK, IInv, server, JobRecords
  <1> HIDE DEF s
  <1>5. JobOK(j)'
    <2>1. Exclusive(j)' /\ Connection(j)'
      BY <1>2 DEF s, Exclusive, Connection, Running, At, Becomes
    <2>2. Candidate(j)' /\ Result(j)'
      BY <1>1, <1>2 DEF s, JobOK, Candidate, Result, At, Becomes, Exact
    <2> QED BY <2>1, <2>2 DEF JobOK
  <1>6. ResultIsTrue'
    BY <1>1, <1>2 DEF s, ResultIsTrue, JobOK, Candidate, Connection, At, Becomes, Calm, May
  <1>7. QueueOK' /\ \A k \in Jobs \ {j} : JobOK(k)'
    BY <1>1, <1>3, <1>4, OthersKeep
  <1> QED BY <1>1, <1>4, <1>5, <1>6, <1>7 DEF IInv

-----------------------------------------------------------------------------
(* The server and NetworkManager                                           *)

\* Steps that touch neither a job nor the manager nor a profile.
LEMMA JobsUntouched ==
  ASSUME IInv, UNCHANGED <<faults, busy, last, temp, job, network>>
  PROVE  /\ ResultIsTrue' /\ (\A j \in Jobs : JobOK(j)') /\ (temp' # None => Running(temp)')
         /\ (temp \in Jobs \cup {None})'
  BY DEF IInv, TypeOK, ResultIsTrue, JobOK, Exclusive, Candidate, Result, Connection, At, Running,
         Exact, Calm, May, network

LEMMA QueueFacts ==
  ASSUME IInv
  PROVE  /\ queue \in Seq(Jobs \cup {"list"}) /\ Len(queue) \in Nat
         /\ \A i \in 1..Len(queue) : queue[i] \in Jobs \cup {"list"}
         /\ "list" \notin Jobs
  BY ConstantsAssumption DEF IInv, TypeOK

\* A request is put at the end of the queue.
LEMMA AppendKeeps ==
  ASSUME IInv, NEW r \in Jobs \cup {"list"}, queue' = Append(queue, r),
         r \in Jobs => asked[r] = "new" /\ asked' = [asked EXCEPT ![r] = "waiting"],
         r = "list" => UNCHANGED asked,
         UNCHANGED job
  PROVE  QueueOK' /\ queue' \in Seq(Jobs \cup {"list"})
  <1> USE QueueFacts
  <1>1. /\ Len(queue') = Len(queue) + 1 /\ queue'[Len(queue) + 1] = r
        /\ \A i \in 1..Len(queue) : queue'[i] = queue[i]
        /\ queue' \in Seq(Jobs \cup {"list"})
    OBVIOUS
  <1>2. \A i \in 1..Len(queue') : i \in 1..Len(queue) \/ i = Len(queue) + 1
    BY <1>1
  <1>3. \A i \in 1..Len(queue) : queue[i] \in Jobs => queue[i] # r
    BY DEF IInv, QueueOK
  <1>4. ASSUME NEW i \in 1..Len(queue'), NEW k \in 1..Len(queue'),
               queue'[i] = queue'[k], queue'[i] \in Jobs
        PROVE  i = k
    BY <1>1, <1>2, <1>3, <1>4 DEF IInv, QueueOK
  <1>5. \A j \in Jobs : asked'[j] = IF j = r THEN "waiting" ELSE asked[j]
    BY DEF IInv, TypeOK
  <1>6. ASSUME NEW i \in 1..Len(queue'), queue'[i] \in Jobs
        PROVE  At(queue'[i], {"idle"}) /\ asked'[queue'[i]] # "new"
    <2>1. CASE i \in 1..Len(queue)
      BY <1>1, <1>3, <1>5, <1>6, <2>1 DEF IInv, QueueOK, At
    <2>2. CASE i = Len(queue) + 1
      BY <1>1, <1>5, <1>6, <2>2 DEF IInv, QueueOK, At
    <2> QED BY <1>2, <2>1, <2>2
  <1>7. \A j \in Jobs : asked'[j] = "new" => At(j, {"idle"})'
    BY <1>5 DEF IInv, QueueOK, At
  <1> QED BY <1>1, <1>4, <1>6, <1>7 DEF QueueOK, At

\* The server takes the first request; what it was does not come again.
LEMMA TailKeeps ==
  ASSUME IInv, queue # <<>>, queue' = Tail(queue)
  PROVE  /\ queue' \in Seq(Jobs \cup {"list"})
         /\ \A i, k \in 1..Len(queue') : queue'[i] = queue'[k] /\ queue'[i] \in Jobs => i = k
         /\ \A i \in 1..Len(queue') : queue'[i] \in Jobs =>
              /\ queue'[i] # Head(queue)
              /\ At(queue'[i], {"idle"}) /\ asked[queue'[i]] # "new"
         /\ Head(queue) \in Jobs => At(Head(queue), {"idle"}) /\ asked[Head(queue)] # "new"
  <1> USE QueueFacts
  <1>1. /\ Len(queue') = Len(queue) - 1 /\ Len(queue) >= 1 /\ Head(queue) = queue[1]
        /\ queue' \in Seq(Jobs \cup {"list"})
    OBVIOUS
  <1>2. \A i \in 1..Len(queue') : i + 1 \in 1..Len(queue) /\ queue'[i] = queue[i + 1]
    BY <1>1
  <1>3. 1 \in 1..Len(queue)
    BY <1>1
  <1>4. \A i, k \in 1..Len(queue') : queue'[i] = queue'[k] /\ queue'[i] \in Jobs => i = k
    BY <1>2 DEF IInv, QueueOK
  <1>5. \A i \in 1..Len(queue') : queue'[i] \in Jobs => queue'[i] # Head(queue)
    BY <1>1, <1>2, <1>3 DEF IInv, QueueOK
  <1> QED BY <1>1, <1>2, <1>3, <1>4, <1>5 DEF IInv, QueueOK

LEMMA NetworkKeeps ==
  ASSUME IInv, Drop \/ Autoconnect, UNCHANGED faults
  PROVE  IInv'
  <1> USE DEF IInv
  <1>1. /\ May("drop") /\ UNCHANGED <<faults, server, busy, last, temp, job, profile>>
        /\ active' \in Profiles \cup {None} /\ (active' # None => profile[active'] # "absent")
    BY DEF Drop, Autoconnect
  <1>2. TypeOK' /\ QueueOK'
    BY <1>1 DEF TypeOK, QueueOK, At, server
  <1>3. ResultIsTrue'
    BY <1>1 DEF ResultIsTrue, May
  <1>4. \A j \in Jobs : JobOK(j)'
    BY <1>1 DEF JobOK, Exclusive, Candidate, Result, Connection, At, Running, Exact, Calm, May
  <1> QED BY <1>1, <1>2, <1>3, <1>4 DEF Running

LEMMA RequestsKeep ==
  ASSUME IInv, UNCHANGED faults,
         AskList \/ S_List \/ S_ListDone \/ Restart \/ \E j \in Jobs : Ask(j) \/ GiveUp(j)
  PROVE  IInv'
  <1> USE DEF IInv
  <1>1. /\ UNCHANGED <<faults, busy, last, temp, job, network>>
        /\ up' \in BOOLEAN /\ listing' \in BOOLEAN
    BY DEF AskList, S_List, S_ListDone, Restart, Ask, GiveUp, TypeOK
  <1>2. asked' \in [Jobs -> {"new", "waiting", "started", "busy", "unavailable"}]
    BY DEF AskList, S_List, S_ListDone, Restart, Ask, GiveUp, TypeOK
  <1>3. QueueOK' /\ queue' \in Seq(Jobs \cup {"list"})
    <2>1. CASE AskList
      BY <2>1, AppendKeeps, QueueFacts DEF AskList
    <2>2. CASE S_List
      BY <2>2, <1>1, TailKeeps DEF S_List, QueueOK, At
    <2>3. CASE S_ListDone \/ Restart
      BY <2>3, <1>1 DEF S_ListDone, Restart, QueueOK, At, TypeOK
    <2>4. ASSUME NEW j \in Jobs, Ask(j), up
          PROVE  QueueOK' /\ queue' \in Seq(Jobs \cup {"list"})
      BY <2>4, AppendKeeps, QueueFacts DEF Ask
    <2>5. ASSUME NEW j \in Jobs, GiveUp(j) \/ (Ask(j) /\ ~up)
          PROVE  QueueOK' /\ queue' \in Seq(Jobs \cup {"list"})
      <3>1. UNCHANGED <<queue, job>> /\ asked' = [asked EXCEPT ![j] = "unavailable"]
        BY <2>5 DEF GiveUp, Ask
      <3> QED BY <3>1 DEF QueueOK, At, TypeOK
    <2> QED BY <2>1, <2>2, <2>3, <2>4, <2>5
  <1>4. TypeOK'
    BY <1>1, <1>2, <1>3 DEF TypeOK, network
  <1> QED BY <1>1, <1>3, <1>4, JobsUntouched

LEMMA ExpireKeeps ==
  ASSUME IInv, S_Expire, UNCHANGED faults
  PROVE  IInv'
  <1> USE DEF IInv
  <1>1. ~busy /\ last' = None /\ UNCHANGED <<faults, server, busy, temp, job, profile, active>>
    BY DEF S_Expire, network
  <1>2. TypeOK' /\ QueueOK' /\ ResultIsTrue'
    BY <1>1 DEF TypeOK, QueueOK, ResultIsTrue, At, server
  <1>3. \A j \in Jobs : ~Running(j)
    BY <1>1 DEF JobOK, Exclusive
  <1>4. \A j \in Jobs : JobOK(j)'
    BY <1>1, <1>3 DEF JobOK, Exclusive, Candidate, Result, Connection, At, Running, Exact, Calm, May
  <1> QED BY <1>1, <1>2, <1>4 DEF Running

LEMMA CrashKeeps ==
  ASSUME IInv, Crash, UNCHANGED faults
  PROVE  IInv'
  <1> USE DEF IInv
  <1>1. /\ May("crash") /\ queue' = <<>> /\ up' = FALSE /\ listing' = FALSE
        /\ busy' = FALSE /\ last' = None /\ temp' = None
        /\ UNCHANGED <<faults, profile, active>>
        /\ \A j \in Jobs : asked'[j] = IF asked[j] = "waiting" THEN "unavailable" ELSE asked[j]
        /\ job' = [j \in Jobs |-> [job[j] EXCEPT !.pc = IF @ = "idle" THEN "idle" ELSE "over"]]
    BY DEF Crash, network
  <1>2. ASSUME NEW j \in Jobs
        PROVE  /\ job'[j] \in JobRecords
               /\ job'[j].pc = IF job[j].pc = "idle" THEN "idle" ELSE "over"
               /\ job'[j].result = job[j].result /\ job'[j].previous = job[j].previous
               /\ job'[j].confirmed = job[j].confirmed
               /\ job[j].pc = "idle" => job'[j] = job[j]
    <2>1. job[j] \in JobRecords
      BY DEF TypeOK
    <2>2. job'[j] = [job[j] EXCEPT !.pc = IF job[j].pc = "idle" THEN "idle" ELSE "over"]
      BY <1>1
    <2> QED BY <2>1, <2>2 DEF JobRecords
  <1>3. TypeOK'
    <2>1. job' \in [Jobs -> JobRecords]
      BY <1>1, <1>2
    <2>2. asked' \in [Jobs -> {"new", "waiting", "started", "busy", "unavailable"}]
      BY DEF Crash, TypeOK
    <2>3. queue' \in Seq(Jobs \cup {"list"})
      BY <1>1
    <2> QED BY <1>1, <2>1, <2>2, <2>3 DEF TypeOK
  <1>4. QueueOK'
    BY SMTT(30), <1>1, <1>2 DEF QueueOK, At
  <1>5. \A j \in Jobs : JobOK(j)'
    <2> SUFFICES ASSUME NEW j \in Jobs PROVE JobOK(j)'
      OBVIOUS
    <2>1. JobOK(j) /\ ~Exact
      BY <1>1 DEF Exact, May
    <2>2. Exclusive(j)' /\ Connection(j)'
      BY <1>2 DEF Exclusive, Connection, Running, At
    <2>3. Candidate(j)' /\ Result(j)'
      BY <1>1, <1>2, <2>1 DEF JobOK, Candidate, Result, At, Exact
    <2> QED BY <2>2, <2>3 DEF JobOK
  <1> QED BY <1>1, <1>3, <1>4, <1>5 DEF ResultIsTrue

LEMMA ConnectKeeps ==
  ASSUME IInv, NEW j \in Jobs, S_Connect(j), UNCHANGED faults
  PROVE  IInv'
  <1> USE TypeFacts
  <1>1. /\ queue # <<>> /\ Head(queue) = j /\ queue' = Tail(queue)
        /\ UNCHANGED <<faults, up, listing, temp, profile, active>>
        /\ \E answer \in {"started", "busy", "unavailable"} : Answer(j, answer)
    BY DEF S_Connect, Taken, network
  <1>2. /\ queue' \in Seq(Jobs \cup {"list"})
        /\ \A i, k \in 1..Len(queue') : queue'[i] = queue'[k] /\ queue'[i] \in Jobs => i = k
        /\ \A i \in 1..Len(queue') : queue'[i] \in Jobs =>
             queue'[i] # j /\ At(queue'[i], {"idle"}) /\ asked[queue'[i]] # "new"
        /\ At(j, {"idle"}) /\ asked[j] # "new"
    BY <1>1, TailKeeps
  <1>3. /\ asked' \in [Jobs -> {"new", "waiting", "started", "busy", "unavailable"}]
        /\ \A k \in Jobs : asked'[k] = "new" <=> asked[k] = "new"
    BY <1>1 DEF Answer, IInv, TypeOK
  <1>4. \/ UNCHANGED <<busy, last, job>>
        \/ ~busy /\ busy' = TRUE /\ last' = [status |-> "IN_PROGRESS", job |-> j]
           /\ (job' = job \/ job' = [job EXCEPT ![j].pc = "previous"])
    BY DEF S_Connect, StartJob
  <1>5. \/ job' = job
        \/ /\ job' \in [Jobs -> JobRecords]
           /\ \A k \in Jobs \ {j} : job'[k] = job[k]
           /\ job'[j].pc = "previous" /\ job'[j].previous = job[j].previous
           /\ job'[j].result = job[j].result /\ job'[j].confirmed = job[j].confirmed
           /\ job'[j].displaced = job[j].displaced
    <2>1. CASE job' = [job EXCEPT ![j].pc = "previous"]
      <3>1. job' = [job EXCEPT ![j] = [job[j] EXCEPT !.pc = "previous"]]
        BY <2>1
      <3>2. [job[j] EXCEPT !.pc = "previous"] \in JobRecords
        BY DEF JobRecords
      <3>3. job'[j] = [job[j] EXCEPT !.pc = "previous"] /\ job' \in [Jobs -> JobRecords]
            /\ \A k \in Jobs \ {j} : job'[k] = job[k]
        BY <3>1, <3>2
      <3> QED BY <3>3 DEF JobRecords
    <2> QED BY <1>4, <2>1
  <1>6. TypeOK'
    <2>1. last' \in [status : Statuses, job : Jobs] \cup {None} /\ busy' \in BOOLEAN
      <3>1. [status |-> "IN_PROGRESS", job |-> j] \in [status : Statuses, job : Jobs]
        BY DEF Statuses
      <3>2. last \in [status : Statuses, job : Jobs] \cup {None} /\ busy \in BOOLEAN
        BY DEF IInv, TypeOK
      <3>3. CASE last' = last /\ busy' = busy
        BY <3>2, <3>3
      <3>4. CASE last' = [status |-> "IN_PROGRESS", job |-> j] /\ busy' = TRUE
        BY <3>1, <3>4
      <3> QED BY <1>4, <3>3, <3>4
    <2>2. job' \in [Jobs -> JobRecords]
      BY <1>5
    <2> QED BY <1>1, <1>2, <1>3, <2>1, <2>2 DEF IInv, TypeOK
  <1>7. QueueOK'
    BY <1>2, <1>3, <1>5 DEF QueueOK, IInv, At
  <1>8. ResultIsTrue'
    BY <1>1, <1>4, <1>5 DEF IInv, ResultIsTrue, May
  <1>9. ASSUME busy' = TRUE, ~busy
        PROVE  temp = None /\ \A k \in Jobs : ~Running(k)
    BY <1>9 DEF IInv, JobOK, Exclusive, TypeOK
  <1>10. \A k \in Jobs : JobOK(k)'
    <2> SUFFICES ASSUME NEW k \in Jobs PROVE JobOK(k)'
      OBVIOUS
    <2>1. CASE UNCHANGED <<busy, last, job>>
      BY <1>1, <2>1, JobsUntouched DEF network
    <2>2. CASE ~(UNCHANGED <<busy, last, job>>)
      <3>1. /\ busy' = TRUE /\ last' = [status |-> "IN_PROGRESS", job |-> j] /\ temp = None
            /\ \A x \in Jobs : ~Running(x)
        BY <1>4, <1>9, <2>2
      <3>2. \A x \in Jobs : Running(x)' => x = j
        BY <1>5, <3>1 DEF Running
      <3>3. CASE k = j /\ job' # job
        <4>1. job[j] = NoJob /\ profile[j] = "absent"
          BY <1>2 DEF JobOK, Candidate
        <4>2. /\ job'[j].previous = None /\ job'[j].result = "IN_PROGRESS"
              /\ job'[j].displaced = None /\ ~job'[j].confirmed
          <5>1. /\ job[j].previous = None /\ job[j].result = "IN_PROGRESS"
                /\ job[j].displaced = None /\ ~job[j].confirmed
            BY <4>1 DEF NoJob
          <5> QED BY <1>5, <3>3, <5>1
        <4>3. Exclusive(j)' /\ Result(j)' /\ Connection(j)'
          BY <1>1, <1>5, <3>1, <3>2, <3>3, <4>2 DEF Exclusive, Result, Connection, At
        <4>4. Candidate(j)'
          BY <1>1, <1>5, <3>1, <3>3, <4>1, <4>2 DEF Candidate, At
        <4> QED BY <3>3, <4>3, <4>4 DEF JobOK
      <3>4. CASE k # j \/ job' = job
        <4>1. job'[k] = job[k] /\ ~Running(k)
          BY <1>5, <3>1, <3>4
        <4> QED BY <1>1, <4>1 DEF JobOK, Exclusive, Candidate, Result, Connection, At, Running,
                                  Exact, Calm, May
      <3> QED BY <3>3, <3>4
    <2> QED BY <2>1, <2>2
  <1>11. temp' # None => Running(temp)'
    BY <1>1, <1>4, <1>5, <1>9 DEF IInv, Running
  <1> QED BY <1>6, <1>7, <1>8, <1>10, <1>11 DEF IInv

-----------------------------------------------------------------------------

LEMMA InitIInv == Init => IInv
  <1> SUFFICES ASSUME Init PROVE IInv
    OBVIOUS
  <1>1. TypeOK
    <2>1. <<>> \in Seq(Jobs \cup {"list"}) /\ NoJob \in JobRecords
      BY DEF NoJob, JobRecords, Statuses
    <2>2. profile \in [Profiles -> {"absent", "memory", "durable"}]
      BY DEF Init
    <2>3. active # None => profile[active] # "absent"
      BY DEF Init, Profiles
    <2> QED BY <2>1, <2>2, <2>3 DEF Init, TypeOK, Profiles
  <1>2. QueueOK /\ ResultIsTrue
    BY DEF Init, QueueOK, ResultIsTrue, At, NoJob
  <1>3. ASSUME NEW j \in Jobs
        PROVE  JobOK(j)
    <2>1. job[j] = NoJob /\ profile[j] = "absent" /\ temp = None
      BY ConstantsAssumption DEF Init, Profiles
    <2> QED BY <2>1 DEF NoJob, JobOK, Exclusive, Candidate, Result, Connection, At, Running
  <1> QED BY <1>1, <1>2, <1>3 DEF IInv, Init

LEMMA NextIInv == IInv /\ [Next]_vars => IInv'
  <1> SUFFICES ASSUME IInv, [Next]_vars PROVE IInv'
    OBVIOUS
  <1>1. ASSUME NEW j \in Jobs, JobStep(j), UNCHANGED faults
        PROVE  IInv'
    BY <1>1, PreviousKeeps, CurrentKeeps, AddKeeps, UpKeeps, ConfirmKeeps, PersistKeeps,
       RollbackKeeps, CleanupKeeps, FinishKeeps DEF JobStep
  <1>2. CASE UNCHANGED vars
    <2>1. UNCHANGED <<faults, server, busy, last, temp, job, network>>
      BY <1>2 DEF vars, sysVars
    <2>2. TypeOK' /\ QueueOK'
      BY <2>1 DEF IInv, TypeOK, QueueOK, At, server, network
    <2> QED BY <2>1, <2>2, JobsUntouched DEF IInv
  <1> QED BY <1>1, <1>2, NetworkKeeps, RequestsKeep, ExpireKeeps, CrashKeeps, ConnectKeeps
          DEF Next, ServerStep

LEMMA Invariance == Spec => []IInv
  BY InitIInv, NextIInv, PTL DEF Spec

\* Types hold, and the active connection is by a profile that exists.
THEOREM TypeCorrect == Spec => []TypeOK
  <1>1. IInv => TypeOK
    BY DEF IInv
  <1> QED BY <1>1, Invariance, PTL

\* The manager never runs two jobs, and the executor's one temporary connection
\* is never that of another job than the running one.
THEOREM OneJobHolds == Spec => []OneJob
  <1>1. IInv => OneJob
    BY TypeFacts DEF IInv, OneJob, JobOK, Exclusive
  <1> QED BY <1>1, Invariance, PTL

\* No fault makes a candidate durable whose network was not verified.
THEOREM OnlyVerifiedIsDurableHolds == Spec => []OnlyVerifiedIsDurable
  <1>1. IInv => OnlyVerifiedIsDurable
    BY DEF IInv, OnlyVerifiedIsDurable, JobOK, Candidate
  <1> QED BY <1>1, Invariance, PTL

\* What the panel is told of the last change is so.
THEOREM ResultIsTrueHolds == Spec => []ResultIsTrue
  <1>1. IInv => ResultIsTrue
    BY DEF IInv
  <1> QED BY <1>1, Invariance, PTL

\* Without timeouts, crashes and failed deletions no failed candidate is left.
THEOREM NothingLeftBehindHolds == Spec => []NothingLeftBehind
  <1>1. IInv => NothingLeftBehind
    <2> SUFFICES ASSUME IInv, Exact, NEW j \in Jobs, ~Running(j), profile[j] # "absent"
                 PROVE  job[j].result = "SUCCEEDED"
      BY DEF NothingLeftBehind, Exact
    <2>1. job[j].pc \in {"idle", "over"} /\ JobOK(j)
      BY DEF IInv, Running
    <2> QED BY <2>1 DEF JobOK, Candidate, At
  <1> QED BY <1>1, Invariance, PTL

\* Only the candidate of a job that failed is ever deleted.
THEOREM OnlyFailedCandidatesDeletedHolds == Spec => OnlyFailedCandidatesDeleted
  <1> DEFINE Good == \A p \in Profiles :
       profile[p] # "absent" /\ profile'[p] = "absent" =>
         p \in Jobs /\ Running(p) /\ job[p].result # "SUCCEEDED"
  <1>1. IInv /\ [Next]_vars => [Good]_vars
    <2> SUFFICES ASSUME IInv, Next, NEW p \in Profiles,
                        profile[p] # "absent", profile'[p] = "absent"
                 PROVE  p \in Jobs /\ Running(p) /\ job[p].result # "SUCCEEDED"
      BY DEF Good
    <2>1. profile \in [Profiles -> {"absent", "memory", "durable"}]
      BY DEF IInv, TypeOK
    <2>2. ASSUME NEW j \in Jobs, J_Cleanup(j)
          PROVE  p = j /\ Running(j) /\ job[j].result # "SUCCEEDED"
      <3>1. At(j, {"cleanup"}) /\ Running(j) /\ JobOK(j) /\ temp # None
            /\ profile' = [profile EXCEPT ![temp] = "absent"]
        BY <2>2 DEF J_Cleanup, At, Running, IInv, network
      <3> QED BY <2>1, <3>1 DEF JobOK, Exclusive, Result
    <2>3. ASSUME NEW j \in Jobs, JobStep(j), ~J_Cleanup(j)
          PROVE  FALSE
      BY <2>1, <2>3 DEF JobStep, J_Previous, J_Current, J_Add, J_Up, J_Confirm, J_Persist,
                        J_Rollback, J_Finish, network
    <2>4. ~UNCHANGED profile
      OBVIOUS
    <2> QED BY <2>2, <2>3, <2>4
            DEF Next, Drop, Autoconnect, AskList, ServerStep, S_List, S_ListDone, S_Connect,
                S_Expire, Crash, Restart, Ask, GiveUp, network
  <1> HIDE DEF Good
  <1>2. [][Good]_vars => OnlyFailedCandidatesDeleted
    BY DEF Good, OnlyFailedCandidatesDeleted
  <1> QED BY <1>1, <1>2, Invariance, PTL DEF Spec

-----------------------------------------------------------------------------
(* The agent keeps the promise of WifiChange                               *)

Confirmed == {j \in Jobs : job[j].confirmed}

\* While a job runs, it is the change in progress.
LEMMA TheChange ==
  ASSUME IInv, NEW j \in Jobs, Running(j)
  PROVE  /\ busy /\ last = [status |-> "IN_PROGRESS", job |-> j]
         /\ (IF busy THEN last.job ELSE None) = j /\ (IF busy THEN None ELSE last) = None
         /\ j # None
  BY TypeFacts DEF JobOK, Exclusive

\* A step that keeps the manager, the verified jobs and the profiles is not seen.
LEMMA Unseen ==
  ASSUME UNCHANGED <<busy, last, profile>>, Confirmed' = Confirmed
  PROVE  UNCHANGED Promised!vars
  BY DEF Promised!vars, Confirmed

LEMMA AbstractInit == Init => Promised!Init
  <1> SUFFICES ASSUME Init PROVE Promised!Init
    OBVIOUS
  <1>1. Confirmed = {}
    BY DEF Init, NoJob, Confirmed
  <1>2. profile = [p \in Home \cup Jobs |-> IF p \in Home THEN "durable" ELSE "absent"]
    BY DEF Init, Profiles
  <1> QED BY <1>1, <1>2 DEF Init, Confirmed, Promised!Init

\* The record of a job whose verification did not just succeed.
LEMMA SameConfirmed ==
  ASSUME IInv, NEW j \in Jobs, NEW s, job' = [job EXCEPT ![j] = s],
         s.confirmed = job[j].confirmed
  PROVE  Confirmed' = Confirmed
  BY TypeFacts DEF Confirmed

\* A job's step leaves the records of the others alone, takes it on, and only its
\* verification tells it more of its network.
LEMMA NewRecord ==
  ASSUME IInv, NEW j \in Jobs, JobStep(j)
  PROVE  /\ job' = [job EXCEPT ![j] = job'[j]]
         /\ job'[j].pc # "idle" /\ (job'[j].pc # "over" \/ J_Finish(j))
         /\ job'[j].confirmed = job[j].confirmed \/ J_Confirm(j)
  <1> USE TypeFacts
  <1> DEFINE s == job'[j]
             moved == {[job[j] EXCEPT !.pc = "add"], [job[j] EXCEPT !.pc = "up"],
                       [job[j] EXCEPT !.pc = "finish"],
                       [job[j] EXCEPT !.pc = "current", !.previous = active],
                       [job[j] EXCEPT !.pc = "confirm", !.displaced = active],
                       [job[j] EXCEPT !.pc = "finish", !.result = "SUCCEEDED"],
                       [job[j] EXCEPT !.pc = "cleanup", !.result = "ROLLED_BACK"],
                       [job[j] EXCEPT !.pc = "cleanup", !.result = "ROLLBACK_FAILED"]}
             failed == {Failed(job[j]), [Failed(job[j]) EXCEPT !.displaced = active]}
             confirmed == [job[j] EXCEPT !.pc = "persist", !.confirmed = TRUE]
             over == [job[j] EXCEPT !.pc = "over"]
  <1>1. \A pc, x :
          /\ [job EXCEPT ![j].pc = pc, ![j].previous = x]
               = [job EXCEPT ![j] = [job[j] EXCEPT !.pc = pc, !.previous = x]]
          /\ [job EXCEPT ![j].pc = pc, ![j].displaced = x]
               = [job EXCEPT ![j] = [job[j] EXCEPT !.pc = pc, !.displaced = x]]
          /\ [job EXCEPT ![j].pc = pc, ![j].result = x]
               = [job EXCEPT ![j] = [job[j] EXCEPT !.pc = pc, !.result = x]]
          /\ [job EXCEPT ![j].pc = pc, ![j].confirmed = x]
               = [job EXCEPT ![j] = [job[j] EXCEPT !.pc = pc, !.confirmed = x]]
    BY DEF JobRecords
  <1>2. /\ job' = [job EXCEPT ![j] = s]
        /\ \/ s \in moved \cup failed
           \/ s = confirmed /\ J_Confirm(j)
           \/ s = over /\ J_Finish(j)
    <2>1. CASE J_Previous(j)
      BY <1>1, <2>1 DEF J_Previous, Fail
    <2>2. CASE J_Current(j)
      BY <2>2 DEF J_Current, Fail
    <2>3. CASE J_Add(j)
      BY <2>3 DEF J_Add, Fail
    <2>4. CASE J_Up(j)
      BY <1>1, <2>4 DEF J_Up, Fail
    <2>5. CASE J_Confirm(j)
      BY <1>1, <2>5 DEF J_Confirm, Fail
    <2>6. CASE J_Persist(j)
      BY <1>1, <2>6 DEF J_Persist, Fail
    <2>7. CASE J_Rollback(j)
      BY <1>1, <2>7 DEF J_Rollback
    <2>8. CASE J_Cleanup(j)
      BY <2>8 DEF J_Cleanup
    <2>9. CASE J_Finish(j)
      BY <2>9 DEF J_Finish
    <2> QED BY <2>1, <2>2, <2>3, <2>4, <2>5, <2>6, <2>7, <2>8, <2>9 DEF JobStep
  <1>3. s \in failed => s.confirmed = job[j].confirmed /\ s.pc \in {"cleanup", "rollback"}
    BY FailedFacts DEF Becomes, AfterFailure
  <1>4. s \in moved => s.confirmed = job[j].confirmed /\ s.pc \notin {"idle", "over"}
    <2> HIDE DEF s
    <2> QED BY ZenonT(60) DEF JobRecords
  <1>5. (s = confirmed => s.pc = "persist") /\ (s = over => s.confirmed = job[j].confirmed /\ s.pc = "over")
    <2> HIDE DEF s
    <2> QED BY DEF JobRecords
  <1> HIDE DEF moved, failed, confirmed, over
  <1> QED BY <1>2, <1>3, <1>4, <1>5

LEMMA KeepsConfirmed ==
  ASSUME IInv, NEW j \in Jobs, JobStep(j), ~J_Confirm(j)
  PROVE  Confirmed' = Confirmed
  BY NewRecord, SameConfirmed

LEMMA AbstractJobStep ==
  ASSUME IInv, NEW j \in Jobs, JobStep(j)
  PROVE  [Promised!Next]_(Promised!vars)
  <1> USE TypeFacts
  <1>1. Running(j)
    BY DEF JobStep, J_Previous, J_Current, J_Add, J_Up, J_Confirm, J_Persist, J_Rollback,
           J_Cleanup, J_Finish, Running
  <1>2. /\ busy /\ last = [status |-> "IN_PROGRESS", job |-> j] /\ j # None
        /\ (IF busy THEN last.job ELSE None) = j /\ (IF busy THEN None ELSE last) = None
    BY <1>1, TheChange
  <1>3. ~J_Confirm(j) => Confirmed' = Confirmed
    BY KeepsConfirmed
  <1>4. CASE J_Previous(j) \/ J_Current(j) \/ J_Up(j) \/ J_Rollback(j)
    <2>1. UNCHANGED <<busy, last, profile>>
      BY <1>4 DEF J_Previous, J_Current, J_Up, J_Rollback, network
    <2>2. ~J_Confirm(j)
      BY <1>4 DEF J_Previous, J_Current, J_Up, J_Rollback, J_Confirm
    <2> QED BY <1>3, <2>1, <2>2, Unseen
  <1>5. CASE J_Add(j)
    <2>1. UNCHANGED <<busy, last>> /\ At(j, {"add"})
          /\ profile' \in {profile, [profile EXCEPT ![j] = "memory"]}
      BY <1>5 DEF J_Add, At
    <2>2. Confirmed' = Confirmed
      BY <1>3, <1>5 DEF J_Add, J_Confirm
    <2>3. profile[j] = "absent" /\ j \notin Confirmed
      BY <2>1 DEF JobOK, Candidate, At, Confirmed
    <2>4. CASE profile' = profile
      BY <2>1, <2>2, <2>4, Unseen
    <2>5. CASE profile' = [profile EXCEPT ![j] = "memory"]
      <3>1. Promised!Add
        BY <1>2, <2>1, <2>2, <2>3, <2>5 DEF Promised!Add, Promised!Candidate, Confirmed
      <3> QED BY <3>1 DEF Promised!Next
    <2> QED BY <2>1, <2>4, <2>5
  <1>6. CASE J_Confirm(j)
    <2>1. UNCHANGED <<busy, last, profile>> /\ At(j, {"confirm"})
      BY <1>6 DEF J_Confirm, At, network
    <2>2. CASE job' = [job EXCEPT ![j] = Failed(job[j])]
      <3>1. Confirmed' = Confirmed
        BY <2>2, FailedFacts, SameConfirmed DEF Becomes
      <3> QED BY <2>1, <3>1, Unseen
    <2>3. CASE job' = [job EXCEPT ![j].pc = "persist", ![j].confirmed = TRUE]
      <3>1. Confirmed' = Confirmed \cup {j}
        BY <2>3 DEF Confirmed, JobRecords
      <3>2. profile[j] = "memory"
        BY <2>1 DEF JobOK, Candidate, At
      <3>3. Promised!Verify
        BY <1>2, <2>1, <3>1, <3>2 DEF Promised!Verify, Confirmed
      <3> QED BY <3>3 DEF Promised!Next
    <2> QED BY <1>6, <2>2, <2>3 DEF J_Confirm, Fail
  <1>7. CASE J_Persist(j)
    <2>1. UNCHANGED <<busy, last>> /\ At(j, {"persist"})
      BY <1>7 DEF J_Persist, At
    <2>2. temp = j /\ profile[j] = "memory" /\ j \in Confirmed
      BY <2>1 DEF JobOK, Candidate, At, Confirmed
    <2>3. profile' \in {profile, [profile EXCEPT ![j] = "durable"]}
      BY <1>7, <2>2 DEF J_Persist
    <2>4. Confirmed' = Confirmed
      BY <1>3, <1>7 DEF J_Persist, J_Confirm
    <2>5. CASE profile' = profile
      BY <2>1, <2>4, <2>5, Unseen
    <2>6. CASE profile' = [profile EXCEPT ![j] = "durable"]
      <3>1. Promised!Save
        BY <1>2, <2>1, <2>2, <2>4, <2>6 DEF Promised!Save, Promised!Candidate, Confirmed
      <3> QED BY <3>1 DEF Promised!Next
    <2> QED BY <2>3, <2>5, <2>6
  <1>8. CASE J_Cleanup(j)
    <2>1. UNCHANGED <<busy, last>> /\ temp \in {None, j}
          /\ \/ profile' = profile
             \/ temp # None /\ profile' = [profile EXCEPT ![temp] = "absent"]
      BY <1>1, <1>8 DEF J_Cleanup, JobOK, Exclusive, network
    <2>2. Confirmed' = Confirmed
      BY <1>3, <1>8 DEF J_Cleanup, J_Confirm
    <2>3. CASE profile' = profile \/ profile[j] = "absent"
      <3>1. profile' = profile
        BY <2>1, <2>3
      <3> QED BY <2>1, <2>2, <3>1, Unseen
    <2>4. CASE profile' # profile /\ profile[j] # "absent"
      <3>1. profile' = [profile EXCEPT ![j] = "absent"] /\ profile[j] \in {"memory", "durable"}
        BY <2>1, <2>4
      <3>2. Promised!Discard
        BY <1>2, <2>1, <2>2, <3>1 DEF Promised!Discard, Promised!Candidate, Confirmed
      <3> QED BY <3>2 DEF Promised!Next
    <2> QED BY <2>3, <2>4
  <1>9. CASE J_Finish(j)
    <2>1. /\ At(j, {"finish"}) /\ busy' = FALSE /\ UNCHANGED profile
          /\ last' = [status |-> job[j].result, job |-> j]
      BY <1>9 DEF J_Finish, At, network
    <2>2. Confirmed' = Confirmed
      BY <1>3, <1>9 DEF J_Finish, J_Confirm
    <2>3. /\ job[j].result = "SUCCEEDED" => profile[j] = "durable"
          /\ job[j].result \in {"SUCCEEDED", "FAILED", "ROLLED_BACK", "ROLLBACK_FAILED"}
      BY <2>1 DEF JobOK, Candidate, Result, At, JobRecords, Statuses
    <2>4. Promised!End(job[j].result)
      BY <1>2, <2>1, <2>2, <2>3 DEF Promised!End, Confirmed
    <2> QED BY <2>3, <2>4 DEF Promised!Next
  <1> QED BY <1>4, <1>5, <1>6, <1>7, <1>8, <1>9 DEF JobStep

\* Requests that are served, and an agent that ends.
LEMMA AbstractServerStep ==
  ASSUME IInv, (\E j \in Jobs : S_Connect(j)) \/ S_Expire \/ Crash
  PROVE  [Promised!Next]_(Promised!vars)
  <1> USE TypeFacts
  <1>1. ASSUME NEW j \in Jobs, S_Connect(j)
        PROVE  [Promised!Next]_(Promised!vars)
    <2>1. UNCHANGED profile
      BY <1>1 DEF S_Connect, network
    <2>2. Confirmed' = Confirmed
      <3>1. CASE job' = job
        BY <3>1 DEF Confirmed
      <3>2. CASE job' = [job EXCEPT ![j].pc = "previous"]
        <4>1. \A k \in Jobs : job'[k].confirmed = job[k].confirmed
          BY <3>2 DEF JobRecords
        <4> QED BY <4>1 DEF Confirmed
      <3> QED BY <1>1, <3>1, <3>2 DEF S_Connect
    <2>3. CASE UNCHANGED <<busy, last>>
      BY <2>1, <2>2, <2>3, Unseen
    <2>4. CASE ~busy /\ busy' = TRUE /\ last' = [status |-> "IN_PROGRESS", job |-> j]
      <3>1. job[j] = NoJob /\ profile[j] = "absent"
        <4>1. queue # <<>> /\ Head(queue) = j /\ queue' = Tail(queue)
          BY <1>1 DEF S_Connect, Taken
        <4>2. At(j, {"idle"})
          BY <4>1, TailKeeps
        <4> QED BY <4>2 DEF JobOK, Candidate
      <3>2. j \notin Confirmed
        BY <3>1 DEF NoJob, Confirmed
      <3>3. Promised!Begin(j)
        BY <2>1, <2>2, <2>4, <3>1, <3>2 DEF Promised!Begin, Confirmed
      <3> QED BY <3>3 DEF Promised!Next
    <2> QED BY <1>1, <2>3, <2>4 DEF S_Connect, StartJob
  <1>2. CASE S_Expire
    <2>1. ~busy /\ last' = None /\ UNCHANGED <<busy, job, profile>>
      BY <1>2 DEF S_Expire, network
    <2>2. Promised!Expire
      BY <2>1 DEF Promised!Expire
    <2> QED BY <2>2 DEF Promised!Next
  <1>3. CASE Crash
    <2>1. /\ busy' = FALSE /\ last' = None /\ UNCHANGED profile
          /\ job' = [k \in Jobs |-> [job[k] EXCEPT !.pc = IF @ = "idle" THEN "idle" ELSE "over"]]
      BY <1>3 DEF Crash, network
    <2>2. Confirmed' = Confirmed
      <3>1. \A k \in Jobs : job'[k].confirmed = job[k].confirmed
        BY <2>1 DEF JobRecords
      <3> QED BY <3>1 DEF Confirmed
    <2>3. Promised!Abandon
      BY <2>1, <2>2 DEF Promised!Abandon, Confirmed
    <2> QED BY <2>3 DEF Promised!Next
  <1> QED BY <1>1, <1>2, <1>3

LEMMA AbstractStep == IInv /\ [Next]_vars => [Promised!Next]_(Promised!vars)
  <1> SUFFICES ASSUME IInv, [Next]_vars PROVE [Promised!Next]_(Promised!vars)
    OBVIOUS
  <1>1. CASE \/ Drop \/ Autoconnect \/ AskList \/ S_List \/ S_ListDone \/ Restart
             \/ UNCHANGED vars \/ \E j \in Jobs : Ask(j) \/ GiveUp(j)
    <2>1. UNCHANGED <<busy, last, profile, job>>
      BY <1>1 DEF Drop, Autoconnect, AskList, S_List, S_ListDone, Restart, Ask, GiveUp, vars,
                  sysVars, network
    <2> QED BY <2>1, Unseen DEF Confirmed
  <1> QED BY <1>1, AbstractJobStep, AbstractServerStep DEF Next, ServerStep

\* The agent does to the profiles, and reports, what WifiChange promises: changes one
\* at a time, each with a candidate of its own that is saved only when its network was
\* verified, and no success that was not saved (WifiJobManager, NmcliExecutor).
THEOREM WifiChangeImplemented == Spec => ImplementsWifiChange
  BY Invariance, AbstractInit, AbstractStep, PTL
     DEF Spec, ImplementsWifiChange, Promised!Spec

-----------------------------------------------------------------------------
(* What clients are told, and what BUSY stands for                         *)

\* An answer is what happened to the request; a client without one either still
\* waits or gave up in the second that a slow scan took from it.
Served ==
  /\ \A i \in 1..Len(queue) : queue[i] \in Jobs =>
       asked[queue[i]] = "waiting" \/ (May("slow_list") /\ asked[queue[i]] = "unavailable")
  /\ \A j \in Jobs :
       /\ asked[j] = "busy" => At(j, {"idle"})
       /\ asked[j] = "started" => ~At(j, {"idle"})
       /\ Running(j) => asked[j] = "started" \/ (May("slow_list") /\ asked[j] = "unavailable")

\* _active stands for a job that runs.
Working ==
  busy => \/ May("thread_fail")
          \/ \E j \in Jobs : Running(j) /\ last = [status |-> "IN_PROGRESS", job |-> j]

AInv == IInv /\ Served /\ Working

\* A job's step is not its client's business; after its last one it is not busy.
LEMMA JobStepAnswers ==
  ASSUME AInv, NEW j \in Jobs, JobStep(j), UNCHANGED faults
  PROVE  Served' /\ Working'
  <1> USE TypeFacts DEF AInv
  <1>1. /\ UNCHANGED server /\ Running(j) /\ (job' = [job EXCEPT ![j] = job'[j]])
        /\ job'[j].pc # "idle"
        /\ \/ J_Finish(j)
           \/ UNCHANGED <<busy, last>> /\ Running(j)'
    <2>1. UNCHANGED server /\ Running(j) /\ (J_Finish(j) \/ UNCHANGED <<busy, last>>)
      BY DEF JobStep, J_Previous, J_Current, J_Add, J_Up, J_Confirm, J_Persist, J_Rollback,
             J_Cleanup, J_Finish, Running
    <2> QED BY <2>1, NewRecord DEF Running
  <1>2. \A k \in Jobs : k # j => job'[k] = job[k]
    BY <1>1
  <1>3. Served'
    BY <1>1, <1>2 DEF Served, At, Running, server, May
  <1>4. Working'
    <2>1. CASE J_Finish(j)
      BY <2>1 DEF J_Finish, Working
    <2>2. CASE UNCHANGED <<busy, last>> /\ Running(j)'
      BY <1>1, <2>2, TheChange DEF Working
    <2> QED BY <1>1, <2>1, <2>2
  <1> QED BY <1>3, <1>4

LEMMA ConnectAnswers ==
  ASSUME AInv, NEW j \in Jobs, S_Connect(j), UNCHANGED faults
  PROVE  Served' /\ Working'
  <1> USE TypeFacts DEF AInv
  <1>1. /\ queue # <<>> /\ Head(queue) = j /\ queue' = Tail(queue)
    BY DEF S_Connect, Taken
  <1>2. /\ \A i \in 1..Len(queue') : queue'[i] \in Jobs =>
             queue'[i] # j /\ \E k \in 1..Len(queue) : queue[k] = queue'[i]
        /\ At(j, {"idle"}) /\ \E k \in 1..Len(queue) : queue[k] = j
    <2>1. /\ Len(queue') = Len(queue) - 1 /\ Len(queue) >= 1 /\ Head(queue) = queue[1]
          /\ \A i \in 1..Len(queue') : i + 1 \in 1..Len(queue) /\ queue'[i] = queue[i + 1]
      BY <1>1, QueueFacts
    <2> QED BY <1>1, <2>1, TailKeeps
  <1>3. asked[j] = "waiting" \/ (May("slow_list") /\ asked[j] = "unavailable")
    BY <1>2 DEF Served
  <1>4. /\ \A k \in Jobs : k # j => asked'[k] = asked[k]
        /\ job' = job \/ job' = [job EXCEPT ![j].pc = "previous"]
    BY DEF S_Connect, Answer, IInv, TypeOK
  <1>5. \A k \in Jobs : k # j => job'[k] = job[k]
    BY <1>4
  <1>6. /\ asked'[j] = "busy" => At(j, {"idle"})'
        /\ asked'[j] = "started" => ~At(j, {"idle"})'
        /\ Running(j)' => asked'[j] = "started" \/ (May("slow_list") /\ asked'[j] = "unavailable")
    <2>1. asked \in [Jobs -> {"new", "waiting", "started", "busy", "unavailable"}]
      BY DEF IInv, TypeOK
    <2>2. CASE Answer(j, "busy") /\ job' = job
      BY <1>2, <1>3, <2>1, <2>2 DEF Answer, At, Running
    <2>3. CASE Answer(j, "started") /\ job' = [job EXCEPT ![j].pc = "previous"]
      <3>1. job'[j].pc = "previous"
        BY <2>3 DEF JobRecords
      <3> QED BY <1>2, <1>3, <2>1, <2>3, <3>1 DEF Answer, At, Running
    <2>4. CASE Answer(j, "unavailable") /\ job' = job
      BY <1>2, <1>3, <2>1, <2>4 DEF Answer, At, Running
    <2> QED BY <2>2, <2>3, <2>4 DEF S_Connect
  <1>7. Served'
    <2>1. ASSUME NEW i \in 1..Len(queue'), queue'[i] \in Jobs
          PROVE  asked'[queue'[i]] = "waiting"
                   \/ (May("slow_list") /\ asked'[queue'[i]] = "unavailable")
      BY <1>2, <1>4, <2>1 DEF Served
    <2> QED BY <1>4, <1>5, <1>6, <2>1 DEF Served, At, Running, May
  <1>8. Working'
    <2>1. CASE UNCHANGED <<busy, last, job>>
      BY <2>1 DEF Working, Running, May
    <2>2. CASE May("thread_fail")
      BY <2>2 DEF Working, May
    <2>3. CASE StartJob(j) /\ job' = [job EXCEPT ![j].pc = "previous"]
      <3>1. job'[j].pc = "previous" /\ last' = [status |-> "IN_PROGRESS", job |-> j]
        BY <2>3 DEF StartJob, JobRecords
      <3> QED BY <3>1 DEF Working, Running
    <2> QED BY <2>1, <2>2, <2>3 DEF S_Connect
  <1> QED BY <1>7, <1>8

LEMMA RequestAnswers ==
  ASSUME AInv, UNCHANGED faults,
         \/ Drop \/ Autoconnect \/ AskList \/ S_List \/ S_ListDone \/ S_Expire \/ Restart
         \/ \E j \in Jobs : Ask(j) \/ GiveUp(j)
  PROVE  Served' /\ Working'
  <1> USE QueueFacts DEF AInv
  <1>1. UNCHANGED job
    BY DEF Drop, Autoconnect, AskList, S_List, S_ListDone, S_Expire, Restart, Ask, GiveUp
  <1>2. asked \in [Jobs -> {"new", "waiting", "started", "busy", "unavailable"}]
    BY DEF IInv, TypeOK
  <1>3. Working'
    <2>1. busy' = busy /\ (busy => last' = last)
      BY DEF Drop, Autoconnect, AskList, S_List, S_ListDone, S_Expire, Restart, Ask, GiveUp
    <2> QED BY <1>1, <2>1 DEF Working, Running, May
  <1>4. ASSUME Drop \/ Autoconnect \/ S_ListDone \/ S_Expire \/ Restart
        PROVE  Served'
    <2>1. UNCHANGED <<queue, asked>>
      BY <1>4 DEF Drop, Autoconnect, S_ListDone, S_Expire, Restart, server
    <2> QED BY <1>1, <2>1 DEF Served, At, Running, May
  <1>5. ASSUME S_List
        PROVE  Served'
    <2>1. queue # <<>> /\ queue' = Tail(queue) /\ asked' = asked
      BY <1>5 DEF S_List
    <2>2. \A i \in 1..Len(queue') : i + 1 \in 1..Len(queue) /\ queue'[i] = queue[i + 1]
      BY <2>1
    <2> QED BY <1>1, <2>1, <2>2 DEF Served, At, Running, May
  <1>6. ASSUME AskList
        PROVE  Served'
    <2>1. queue' = Append(queue, "list") /\ asked' = asked
      BY <1>6 DEF AskList
    <2>2. \A i \in 1..Len(queue') : queue'[i] = "list" \/ (i \in 1..Len(queue) /\ queue'[i] = queue[i])
      BY <2>1
    <2> QED BY <1>1, <2>1, <2>2 DEF Served, At, Running, May
  <1>7. ASSUME NEW j \in Jobs, Ask(j)
        PROVE  Served'
    <2>1. asked[j] = "new" /\ At(j, {"idle"}) /\ \A k \in Jobs : k # j => asked'[k] = asked[k]
      BY <1>2, <1>7 DEF Ask, IInv, QueueOK
    <2>2. CASE up
      <3>1. queue' = Append(queue, j) /\ asked'[j] = "waiting"
        BY <1>2, <1>7, <2>2 DEF Ask
      <3>2. \A i \in 1..Len(queue') : queue'[i] = j \/ (i \in 1..Len(queue) /\ queue'[i] = queue[i])
        BY <3>1
      <3> QED BY <1>1, <2>1, <3>1, <3>2 DEF Served, At, Running, May
    <2>3. CASE ~up
      <3>1. queue' = queue /\ asked'[j] = "unavailable"
        BY <1>2, <1>7, <2>3 DEF Ask
      <3>2. \A i \in 1..Len(queue) : queue[i] # j
        BY <2>1 DEF Served
      <3> QED BY <1>1, <2>1, <3>1, <3>2 DEF Served, At, Running, May
    <2> QED BY <2>2, <2>3
  <1>8. ASSUME NEW j \in Jobs, GiveUp(j)
        PROVE  Served'
    <2>1. /\ asked[j] = "waiting" /\ asked' = [asked EXCEPT ![j] = "unavailable"]
          /\ May("slow_list") /\ UNCHANGED queue
      BY <1>8 DEF GiveUp
    <2>2. asked'[j] = "unavailable" /\ \A k \in Jobs : k # j => asked'[k] = asked[k]
      BY <1>2, <2>1
    <2> QED BY <1>1, <2>1, <2>2 DEF Served, At, Running, May
  <1> QED BY <1>3, <1>4, <1>5, <1>6, <1>7, <1>8

LEMMA CrashAnswers ==
  ASSUME AInv, Crash, UNCHANGED faults
  PROVE  Served' /\ Working'
  <1> USE TypeFacts DEF AInv
  <1>1. /\ queue' = <<>> /\ busy' = FALSE
        /\ \A j \in Jobs : asked'[j] = IF asked[j] = "waiting" THEN "unavailable" ELSE asked[j]
        /\ \A j \in Jobs : job'[j].pc = IF job[j].pc = "idle" THEN "idle" ELSE "over"
    BY DEF Crash, JobRecords
  <1> QED BY <1>1 DEF Served, Working, At, Running, May

LEMMA Answers == Spec => []AInv
  <1>1. Init => AInv
    <2> SUFFICES ASSUME Init PROVE AInv
      OBVIOUS
    <2>1. IInv
      BY InitIInv
    <2> QED BY <2>1 DEF AInv, Init, Served, Working, At, Running, NoJob
  <1>2. AInv /\ [Next]_vars => AInv'
    <2> SUFFICES ASSUME AInv, [Next]_vars PROVE AInv'
      OBVIOUS
    <2>1. IInv'
      BY NextIInv DEF AInv
    <2>2. CASE UNCHANGED vars
      <3>1. UNCHANGED <<faults, queue, asked, job, busy, last>>
        BY <2>2 DEF vars, sysVars, server
      <3>2. Served'
        BY <3>1 DEF AInv, Served, At, Running, May
      <3>3. Working'
        BY <3>1 DEF AInv, Working, Running, May
      <3> QED BY <2>1, <3>2, <3>3 DEF AInv
    <2>3. CASE Next
      <3>1. Served' /\ Working'
        BY <2>3, JobStepAnswers, ConnectAnswers, RequestAnswers, CrashAnswers DEF Next, ServerStep
      <3> QED BY <2>1, <3>1 DEF AInv
    <2> QED BY <2>2, <2>3
  <1> QED BY <1>1, <1>2, PTL DEF Spec

\* The job of a request that was answered BUSY never starts, that of one answered
\* STARTED did; and when no scan outlasts the clients' timeout of one second, a change
\* whose client was told it could not be started does not run, also after crashes and
\* failed threads: the slow scan alone is why RefusedNeverRuns fails
\* (request_network_agent, NetworkAgentServer).
THEOREM AnswersAreTrue ==
  Spec => [](/\ \A j \in Jobs : /\ asked[j] = "busy" => job[j].pc = "idle"
                                /\ asked[j] = "started" => job[j].pc # "idle"
             /\ ~May("slow_list") => RefusedNeverRuns)
  <1>1. AInv => /\ \A j \in Jobs : /\ asked[j] = "busy" => job[j].pc = "idle"
                                   /\ asked[j] = "started" => job[j].pc # "idle"
                /\ ~May("slow_list") => RefusedNeverRuns
    BY DEF AInv, Served, At, RefusedNeverRuns
  <1> QED BY <1>1, Answers, PTL

\* The agent answers BUSY only while the job it names runs, unless the thread of that
\* job could not be started (WifiJobManager.start): what JobEnds needs to be true.
THEOREM BusyMeansRunning ==
  Spec => [](busy => \/ May("thread_fail")
                     \/ \E j \in Jobs : Running(j) /\ last = [status |-> "IN_PROGRESS", job |-> j])
  <1>1. AInv => Working
    BY DEF AInv
  <1> QED BY <1>1, Answers, PTL DEF Working
=============================================================================
