------------------------------ MODULE WifiJob ------------------------------
(***************************************************************************)
(* Changing the Wi-Fi network: the network agent takes connect requests    *)
(* from its socket one at a time, runs one job in a thread of its own, and *)
(* the job drives NetworkManager through nmcli: it adds a candidate        *)
(* profile that is not saved, activates it, verifies it, and only then     *)
(* saves it; a job that fails tries to bring the previous profile back and *)
(* deletes its candidate.                                                  *)
(*                                                                         *)
(* A request, the job it may become and the candidate profile of that job  *)
(* (pcdog-wifi-<uuid>) share one name.                                     *)
(***************************************************************************)
EXTENDS Naturals, Sequences, FiniteSets

CONSTANTS
  Jobs,       \* connect requests
  Home,       \* the Wi-Fi profiles the Raspberry Pi had before
  Network,    \* the network (SSID and BSSID) of every profile
  Scenarios,  \* sets of faults: which may happen together in one behaviour
  None        \* no profile, no result

FaultKinds == {"drop", "timeout", "delete_fail", "thread_fail", "slow_list", "crash"}

Profiles == Home \cup Jobs

ASSUME ConstantsAssumption ==
  /\ Home \cap Jobs = {} /\ None \notin Profiles /\ "list" \notin Jobs
  /\ DOMAIN Network = Profiles
  /\ Scenarios \subseteq SUBSET FaultKinds

VARIABLES
  faults,   \* never changes
  up,       \* the network agent runs
  queue,    \* requests its single-threaded server has not taken yet
  listing,  \* the server is in list_wifi
  asked,    \* what the client of a connect request knows
  busy,     \* WifiJobManager._active
  last,     \* WifiJobManager._last, or None
  temp,     \* NmcliExecutor._temporary_connection, or None
  job,      \* the job threads
  profile,  \* NetworkManager's profiles
  active    \* the profile NetworkManager has active, or None

server == <<up, queue, listing, asked>>
network == <<profile, active>>
sysVars == <<server, busy, last, temp, job, network>>
vars == <<faults, sysVars>>

May(fault) == fault \in faults

\* result is what _run will report; confirmed and displaced are history: the
\* verification succeeded, and the profile that the attempt took down.
NoJob == [pc |-> "idle", previous |-> None, result |-> "IN_PROGRESS",
          confirmed |-> FALSE, displaced |-> None]

Init ==
  /\ faults \in Scenarios
  /\ up = TRUE /\ queue = <<>> /\ listing = FALSE
  /\ asked = [j \in Jobs |-> "new"]
  /\ busy = FALSE /\ last = None /\ temp = None
  /\ job = [j \in Jobs |-> NoJob]
  /\ profile = [p \in Profiles |-> IF p \in Home THEN "durable" ELSE "absent"]
  /\ active \in Home \cup {None}

-----------------------------------------------------------------------------
(* NetworkManager by itself (external to src/)                             *)

\* The connection is lost.
Drop ==
  /\ May("drop") /\ active # None
  /\ active' = None
  /\ UNCHANGED <<server, busy, last, temp, job, profile>>

\* ... and NetworkManager finds a profile to activate.
Autoconnect ==
  /\ May("drop") /\ active = None
  /\ \E p \in Profiles : profile[p] # "absent" /\ active' = p
  /\ UNCHANGED <<server, busy, last, temp, job, profile>>

-----------------------------------------------------------------------------
(* Clients and the server (request_network_agent, NetworkAgentServer)      *)

\* The panel sends a connect request; without a server it is refused at once.
Ask(j) ==
  /\ asked[j] = "new"
  /\ IF up THEN queue' = Append(queue, j) /\ asked' = [asked EXCEPT ![j] = "waiting"]
           ELSE UNCHANGED queue /\ asked' = [asked EXCEPT ![j] = "unavailable"]
  /\ UNCHANGED <<up, listing, busy, last, temp, job, network>>

\* The client's timeout of one second passes while the server scans for up to
\* ten: the client gives up, its request stays in the socket.
GiveUp(j) ==
  /\ asked[j] = "waiting" /\ listing /\ May("slow_list")
  /\ asked' = [asked EXCEPT ![j] = "unavailable"]
  /\ UNCHANGED <<up, queue, listing, busy, last, temp, job, network>>

\* The panel asks for a scan.
AskList ==
  /\ up /\ ~listing /\ \A i \in DOMAIN queue : queue[i] # "list"
  /\ queue' = Append(queue, "list")
  /\ UNCHANGED <<up, listing, asked, busy, last, temp, job, network>>

\* handle_request for list_wifi; nothing else is served until it returns.
S_List ==
  /\ ~listing /\ queue # <<>> /\ Head(queue) = "list"
  /\ listing' = TRUE /\ queue' = Tail(queue)
  /\ UNCHANGED <<up, asked, busy, last, temp, job, network>>

S_ListDone ==
  /\ listing
  /\ listing' = FALSE
  /\ UNCHANGED <<up, queue, asked, busy, last, temp, job, network>>

\* The client of request j reads an answer, unless it gave up.
Answer(j, answer) == asked' = IF asked[j] = "waiting" THEN [asked EXCEPT ![j] = answer] ELSE asked

Taken(j) == ~listing /\ queue # <<>> /\ Head(queue) = j /\ queue' = Tail(queue)

StartJob(j) == busy' = TRUE /\ last' = [status |-> "IN_PROGRESS", job |-> j]

\* Fault variant of S_Connect: _active is not looked at.
S_ConnectUnchecked(j) ==
  /\ Taken(j)
  /\ StartJob(j)
  /\ job' = [job EXCEPT ![j].pc = "previous"]
  /\ Answer(j, "started")
  /\ UNCHANGED <<up, listing, temp, network>>

\* WifiJobManager.start. A thread that cannot be started leaves _active set.
S_Connect(j) ==
  /\ Taken(j)
  /\ \/ busy /\ Answer(j, "busy") /\ UNCHANGED <<busy, last, job>>
     \/ ~busy /\ StartJob(j) /\ Answer(j, "started") /\ job' = [job EXCEPT ![j].pc = "previous"]
     \/ ~busy /\ May("thread_fail") /\ StartJob(j) /\ Answer(j, "unavailable") /\ UNCHANGED job
  /\ UNCHANGED <<up, listing, temp, network>>

\* WifiJobManager.status forgets a result after JOB_RESULT_TTL_SECONDS.
S_Expire ==
  /\ up /\ ~listing /\ ~busy /\ last # None
  /\ last' = None
  /\ UNCHANGED <<server, busy, temp, job, network>>

\* The agent's process ends in the middle of anything; NetworkManager goes on.
Crash ==
  /\ up /\ May("crash")
  /\ up' = FALSE /\ queue' = <<>> /\ listing' = FALSE
  /\ asked' = [j \in Jobs |-> IF asked[j] = "waiting" THEN "unavailable" ELSE asked[j]]
  /\ busy' = FALSE /\ last' = None /\ temp' = None
  /\ job' = [j \in Jobs |-> [job[j] EXCEPT !.pc = IF @ = "idle" THEN "idle" ELSE "over"]]
  /\ UNCHANGED network

\* Restart=on-failure
Restart ==
  /\ ~up
  /\ up' = TRUE
  /\ UNCHANGED <<queue, listing, asked, busy, last, temp, job, network>>

-----------------------------------------------------------------------------
(* The job (WifiJobManager._run, NmcliExecutor)                            *)

\* _run's except branches: _rollback_result without a previous profile is FAILED
\* and goes straight to the cleanup.
Failed(s) == [s EXCEPT !.pc = IF s.previous = None THEN "cleanup" ELSE "rollback",
                       !.result = "FAILED"]

Fail(j) == job' = [job EXCEPT ![j] = Failed(@)]

\* previous = active_wifi()
J_Previous(j) ==
  /\ job[j].pc = "previous"
  /\ \/ job' = [job EXCEPT ![j].pc = "current", ![j].previous = active]
     \/ May("timeout") /\ Fail(j)
  /\ UNCHANGED <<server, busy, last, temp, network>>

\* connect reads the active connection once more, for its device.
J_Current(j) ==
  /\ job[j].pc = "current"
  /\ \/ active # None /\ job' = [job EXCEPT ![j].pc = "add"]
     \/ (active = None \/ May("timeout")) /\ Fail(j)
  /\ UNCHANGED <<server, busy, last, temp, network>>

\* Fault variant of J_Add: the profile is saved as it is added.
J_AddSaved(j) ==
  /\ job[j].pc = "add"
  /\ profile' = [profile EXCEPT ![j] = "durable"]
  /\ temp' = j
  /\ job' = [job EXCEPT ![j].pc = "up"]
  /\ UNCHANGED <<server, busy, last, active>>

\* Fault variant of J_Add: a failure of nmcli is not looked at.
J_AddUnchecked(j) ==
  /\ job[j].pc = "add"
  /\ profile' \in {profile, [profile EXCEPT ![j] = "memory"]}
  /\ temp' = j
  /\ job' = [job EXCEPT ![j].pc = "up"]
  /\ UNCHANGED <<server, busy, last, active>>

\* nmcli connection add save no. Its name is noted only when nmcli returned: a
\* timeout may leave a profile nobody knows of.
J_Add(j) ==
  /\ job[j].pc = "add"
  /\ \/ /\ profile' = [profile EXCEPT ![j] = "memory"]
        /\ temp' = j
        /\ job' = [job EXCEPT ![j].pc = "up"]
     \/ /\ Fail(j)
        /\ \/ UNCHANGED profile
           \/ May("timeout") /\ profile' = [profile EXCEPT ![j] = "memory"]
        /\ UNCHANGED temp
  /\ UNCHANGED <<server, busy, last, active>>

\* nmcli connection up. It replaces the active connection; a failure may come
\* before that or after, and a timeout may leave the candidate active.
J_Up(j) ==
  /\ job[j].pc = "up"
  /\ \/ active' = j /\ job' = [job EXCEPT ![j].pc = "confirm", ![j].displaced = active]
     \/ Fail(j) /\ UNCHANGED active
     \/ /\ active' \in {None} \cup (IF May("timeout") THEN {j} ELSE {})
        /\ job' = [job EXCEPT ![j] = [Failed(@) EXCEPT !.displaced = active]]
  /\ UNCHANGED <<server, busy, last, temp, profile>>

\* is_confirmed: the requested network is the active one and it has an address,
\* whichever profile that is by.
J_Confirm(j) ==
  /\ job[j].pc = "confirm"
  /\ \/ /\ active # None /\ Network[active] = Network[j]
        /\ job' = [job EXCEPT ![j].pc = "persist", ![j].confirmed = TRUE]
     \/ Fail(j)
  /\ UNCHANGED <<server, busy, last, temp, network>>

\* Fault variant of J_Persist: the name is forgotten before nmcli runs.
J_PersistForgets(j) ==
  /\ job[j].pc = "persist"
  /\ temp' = None
  /\ \/ /\ profile' = [profile EXCEPT ![temp] = "durable"]
        /\ job' = [job EXCEPT ![j].pc = "finish", ![j].result = "SUCCEEDED"]
     \/ Fail(j) /\ UNCHANGED profile
  /\ UNCHANGED <<server, busy, last, active>>

\* persist_connection: nmcli connection modify saves the profile. PERSIST_FAILED
\* after a timeout may have saved it all the same; the name is kept for cleanup.
J_Persist(j) ==
  /\ job[j].pc = "persist"
  /\ \/ /\ temp # None
        /\ profile' = [profile EXCEPT ![temp] = "durable"]
        /\ temp' = None
        /\ job' = [job EXCEPT ![j].pc = "finish", ![j].result = "SUCCEEDED"]
     \/ /\ Fail(j)
        /\ \/ UNCHANGED profile
           \/ /\ temp # None /\ May("timeout")
              /\ profile' = [profile EXCEPT ![temp] = "durable"]
        /\ UNCHANGED temp
  /\ UNCHANGED <<server, busy, last, active>>

\* Fault variant of J_Rollback: a failure counts as a rollback.
J_RollbackSwallows(j) ==
  /\ job[j].pc = "rollback"
  /\ active' \in {active, None, job[j].previous}
  /\ job' = [job EXCEPT ![j].pc = "cleanup", ![j].result = "ROLLED_BACK"]
  /\ UNCHANGED <<server, busy, last, temp, profile>>

\* rollback: nmcli connection up of the previous profile.
J_Rollback(j) ==
  /\ job[j].pc = "rollback"
  /\ \/ /\ active' = job[j].previous
        /\ job' = [job EXCEPT ![j].pc = "cleanup", ![j].result = "ROLLED_BACK"]
     \/ /\ active' \in {active, None, job[j].previous}
        /\ job' = [job EXCEPT ![j].pc = "cleanup", ![j].result = "ROLLBACK_FAILED"]
  /\ UNCHANGED <<server, busy, last, temp, profile>>

\* Fault variant of J_Cleanup: whatever is active is deleted.
J_CleanupActive(j) ==
  /\ job[j].pc = "cleanup"
  /\ job' = [job EXCEPT ![j].pc = "finish"]
  /\ temp' = None
  /\ IF temp = None \/ active = None THEN UNCHANGED network
       ELSE profile' = [profile EXCEPT ![active] = "absent"] /\ active' = None
  /\ UNCHANGED <<server, busy, last>>

\* cleanup_failed_connection: the name is forgotten first, a failure to delete
\* is ignored. Deleting the active profile ends its connection.
J_Cleanup(j) ==
  /\ job[j].pc = "cleanup"
  /\ job' = [job EXCEPT ![j].pc = "finish"]
  /\ temp' = None
  /\ \/ /\ temp # None
        /\ profile' = [profile EXCEPT ![temp] = "absent"]
        /\ active' = IF active = temp THEN None ELSE active
     \/ (temp = None \/ May("delete_fail")) /\ UNCHANGED network
  /\ UNCHANGED <<server, busy, last>>

\* Fault variant of J_Finish: _active is only cleared by a success.
J_FinishKeepsActive(j) ==
  /\ job[j].pc = "finish"
  /\ job' = [job EXCEPT ![j].pc = "over"]
  /\ last' = [status |-> job[j].result, job |-> j]
  /\ busy' = (job[j].result # "SUCCEEDED")
  /\ UNCHANGED <<server, temp, network>>

\* _run's finally
J_Finish(j) ==
  /\ job[j].pc = "finish"
  /\ job' = [job EXCEPT ![j].pc = "over"]
  /\ last' = [status |-> job[j].result, job |-> j]
  /\ busy' = FALSE
  /\ UNCHANGED <<server, temp, network>>

-----------------------------------------------------------------------------
JobStep(j) ==
  \/ J_Previous(j) \/ J_Current(j) \/ J_Add(j) \/ J_Up(j) \/ J_Confirm(j) \/ J_Persist(j)
  \/ J_Rollback(j) \/ J_Cleanup(j) \/ J_Finish(j)

ServerStep == S_List \/ S_ListDone \/ \E j \in Jobs : S_Connect(j)

Next ==
  /\ \/ Drop \/ Autoconnect
     \/ AskList \/ ServerStep \/ S_Expire \/ Crash \/ Restart
     \/ \E j \in Jobs : Ask(j) \/ GiveUp(j) \/ JobStep(j)
  /\ UNCHANGED faults

Spec == Init /\ [][Next]_vars

\* The job's thread and the server's thread run, and every nmcli call has a
\* timeout. Nobody has to ask for anything, nothing has to fail.
FairSpec == Spec /\ WF_sysVars(ServerStep) /\ \A j \in Jobs : WF_sysVars(JobStep(j))
-----------------------------------------------------------------------------
(* Properties                                                              *)

Statuses == {"IN_PROGRESS", "SUCCEEDED", "FAILED", "ROLLED_BACK", "ROLLBACK_FAILED"}

Running(j) == job[j].pc \notin {"idle", "over"}

JobRecords ==
  [pc : {"idle", "previous", "current", "add", "up", "confirm", "persist", "rollback",
         "cleanup", "finish", "over"},
   previous : Profiles \cup {None}, result : Statuses, confirmed : BOOLEAN,
   displaced : Profiles \cup {None}]

\* Every variable has its type, and an active profile is one that exists.
TypeOK ==
  /\ faults \in Scenarios
  /\ up \in BOOLEAN /\ listing \in BOOLEAN /\ busy \in BOOLEAN
  /\ queue \in Seq(Jobs \cup {"list"})
  /\ asked \in [Jobs -> {"new", "waiting", "started", "busy", "unavailable"}]
  /\ last \in [status : Statuses, job : Jobs] \cup {None}
  /\ temp \in Jobs \cup {None}
  /\ job \in [Jobs -> JobRecords]
  /\ profile \in [Profiles -> {"absent", "memory", "durable"}]
  /\ active \in Profiles \cup {None} /\ (active # None => profile[active] # "absent")

\* One job at a time, although each has a thread of its own: the executor's one
\* temporary connection is always that of the running job (WifiJobManager.start).
OneJob ==
  \A j \in Jobs : Running(j) \/ temp = j =>
    Running(j) /\ busy /\ last.job = j /\ \A k \in Jobs : Running(k) => k = j

\* A candidate is never saved before its network was verified, whatever times out
\* or crashes (docs/runtime.md, the workflow of POST /api/v1/wifi/connection).
OnlyVerifiedIsDurable ==
  \A j \in Jobs : profile[j] = "durable" => job[j].confirmed

\* The only profile ever deleted is the candidate of the running job, when that
\* job does not succeed: existing profiles, and those of earlier jobs, are kept.
OnlyFailedCandidatesDeleted ==
  [][\A p \in Profiles :
       profile[p] # "absent" /\ profile'[p] = "absent" =>
         p \in Jobs /\ Running(p) /\ job[p].result # "SUCCEEDED"]_vars

\* What the last result says is so: SUCCEEDED means that the candidate is saved,
\* and while nothing but the agent touches the connection, SUCCEEDED means that its
\* network is active, ROLLED_BACK that the previous profile is, and FAILED, which
\* the panel words as "there was no profile to restore", that none was taken down.
ResultIsTrue ==
  last # None =>
    /\ last.status = "SUCCEEDED" => profile[last.job] = "durable"
    /\ last.status = "SUCCEEDED" /\ ~May("drop") => active = last.job
    /\ last.status = "ROLLED_BACK" /\ ~May("drop") => active = job[last.job].previous
    /\ last.status = "FAILED" /\ ~May("drop") => job[last.job].displaced = None

\* When every nmcli call either has its effect or reports a failure, no candidate
\* outlives a job that did not succeed (cleanup_failed_connection).
NothingLeftBehind ==
  faults \subseteq {"drop", "thread_fail", "slow_list"} =>
    \A j \in Jobs : ~Running(j) /\ profile[j] # "absent" => job[j].result = "SUCCEEDED"

\* The agent does not answer BUSY for ever: a started job ends, whatever nmcli
\* does, unless its thread could not be started.
JobEnds == May("thread_fail") \/ (busy ~> ~busy)

\* A change that its client was told could not be started never runs.
RefusedNeverRuns ==
  \A j \in Jobs : asked[j] = "unavailable" => ~Running(j)

-----------------------------------------------------------------------------
(* The promise of a change                                                 *)

Promised ==
  INSTANCE WifiChange WITH
    Changes <- Jobs,
    change <- IF busy THEN last.job ELSE None,
    verified <- {j \in Jobs : job[j].confirmed},
    verdict <- IF busy THEN None ELSE last

\* Server, threads and nmcli together do to the profiles and report of a change only
\* what is promised, whatever times out or crashes: a change never touches a profile
\* that is not its own candidate, saves it only when it was verified, and is reported
\* as a success only when it is saved (WifiJobManager, NmcliExecutor).
ImplementsWifiChange == Promised!Spec
=============================================================================
