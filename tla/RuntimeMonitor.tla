--------------------------- MODULE RuntimeMonitor ---------------------------
(***************************************************************************)
(* From stabilised inputs to what the Web API reads: the State Engine      *)
(* compares each reading with the previous one and makes events of the     *)
(* differences, and RuntimeInputMonitor stores events and Current State in *)
(* one SQLite transaction, unless the state is the one it stored last.     *)
(*                                                                         *)
(* The stabilised inputs are those InputMonitor may report (its POWER and  *)
(* HDD readings), in any order. Of the events table only the newest value  *)
(* per event type is kept: that is what tells a gap in the history.        *)
(***************************************************************************)
EXTENDS Naturals, Sequences

CONSTANTS
  MaxFaults,  \* failed statements, failed opens and ends of the process, at most
  None        \* no snapshot, no event, no transaction

ASSUME FaultsAssumption == MaxFaults \in Nat

PowerReadings == {<<"ON", TRUE>>, <<"OFF", TRUE>>, <<"UNKNOWN", FALSE>>}
HddReadings == {<<"ACTIVE", TRUE>>, <<"IDLE", TRUE>>, <<"UNKNOWN", FALSE>>}

\* The fields events are about: POWER_LED_CHANGED, HDD_ACTIVITY_CHANGED and
\* PC_STATE_CHANGED.
EventTypes == {"power_led", "hdd_activity", "pc_state"}

\* _pc_state_for: HDD activity has no part in it.
PcStateFor(power) == IF power[2] THEN power[1] ELSE "UNKNOWN"

\* The part of a StateSnapshot that changes; reliability goes with the values.
Snapshot(power, hdd) ==
  [power_led |-> power[1], hdd_activity |-> hdd[1], pc_state |-> PcStateFor(power)]

Snapshots == {Snapshot(power, hdd) : power \in PowerReadings, hdd \in HddReadings}

\* The event of one field, if it changed.
EventOf(type, previous, current) ==
  IF previous[type] = current[type] THEN <<>>
  ELSE <<[type |-> type, old |-> previous[type], new |-> current[type]]>>

\* _events_for_transition: the first snapshot of a process has no events.
EventsFor(previous, current) ==
  IF previous = None THEN <<>>
  ELSE EventOf("power_led", previous, current) \o EventOf("hdd_activity", previous, current)
         \o EventOf("pc_state", previous, current)

VARIABLES
  pc,         \* where the runtime process and its monitor thread are
  engine,     \* the State Engine's current snapshot, or None
  events,     \* the events of the last update
  signature,  \* _last_persisted_signature, or None
  todo,       \* events the open transaction has yet to append
  tx,         \* the database as the open transaction would leave it, or None
  db,         \* committed: Current State and the newest value of each event type
  faults,     \* failures so far
  lost        \* history: since the database was where the engine is, an update of this
              \* process that had events was not stored

memory == <<engine, events, signature, todo, tx, lost>>
vars == <<pc, memory, db, faults>>

FreshMemory ==
  /\ engine' = None /\ events' = <<>> /\ signature' = None
  /\ todo' = <<>> /\ tx' = None /\ lost' = FALSE

Init ==
  /\ pc = "opening"
  /\ engine = None /\ events = <<>> /\ signature = None
  /\ todo = <<>> /\ tx = None /\ lost = FALSE
  /\ db = [state |-> None, newest |-> [type \in EventTypes |-> None]]
  /\ faults = 0

\* One more failure of the bounded number.
Fault == faults < MaxFaults /\ faults' = faults + 1

\* The monitor thread opens its EventStore; a failure ends the thread, and only
\* the thread: HTTP stays up.
Open ==
  /\ pc = "opening"
  /\ \/ pc' = "poll" /\ UNCHANGED faults
     \/ pc' = "dead" /\ Fault
  /\ UNCHANGED <<memory, db>>

\* Fault variant of Poll: only the PC state decides whether the update is stored.
PollComparesPcState(snapshot) ==
  /\ pc = "poll"
  /\ engine' = snapshot
  /\ events' = EventsFor(engine, snapshot)
  /\ pc' = IF signature # None /\ snapshot.pc_state = signature.pc_state THEN "poll" ELSE "begin"
  /\ lost' = (lost /\ snapshot # signature)
  /\ UNCHANGED <<signature, todo, tx, db, faults>>

\* RuntimeInputMonitor.poll_once: the engine moves on, stored or not.
Poll(snapshot) ==
  /\ pc = "poll"
  /\ engine' = snapshot
  /\ events' = EventsFor(engine, snapshot)
  /\ pc' = IF snapshot = signature THEN "poll" ELSE "begin"
  /\ lost' = (lost /\ snapshot # signature)
  /\ UNCHANGED <<signature, todo, tx, db, faults>>

\* Fault variant of Begin: the signature is noted before the update is stored.
BeginSigned ==
  /\ pc = "begin"
  /\ pc' = "write"
  /\ tx' = db
  /\ todo' = events
  /\ signature' = engine
  /\ UNCHANGED <<engine, events, db, faults, lost>>

\* BEGIN IMMEDIATE
Begin ==
  /\ pc = "begin"
  /\ pc' = "write"
  /\ tx' = db
  /\ todo' = events
  /\ UNCHANGED <<engine, events, signature, db, faults, lost>>

\* Fault variant of Append: the statement commits by itself.
AppendAutocommit ==
  /\ pc = "write"
  /\ todo # <<>>
  /\ tx' = [tx EXCEPT !.newest[Head(todo).type] = Head(todo).new]
  /\ db' = tx'
  /\ todo' = Tail(todo)
  /\ UNCHANGED <<pc, engine, events, signature, faults, lost>>

\* _append_event
Append1 ==
  /\ pc = "write"
  /\ todo # <<>>
  /\ tx' = [tx EXCEPT !.newest[Head(todo).type] = Head(todo).new]
  /\ todo' = Tail(todo)
  /\ UNCHANGED <<pc, engine, events, signature, db, faults, lost>>

\* _write_current_state
WriteState ==
  /\ pc = "write"
  /\ todo = <<>>
  /\ pc' = "commit"
  /\ tx' = [tx EXCEPT !.state = engine]
  /\ UNCHANGED <<engine, events, signature, todo, db, faults, lost>>

\* COMMIT, and the signature of what is stored now.
Commit ==
  /\ pc = "commit"
  /\ pc' = "poll"
  /\ db' = tx
  /\ tx' = None
  /\ signature' = engine
  /\ lost' = FALSE
  /\ UNCHANGED <<engine, events, todo, faults>>

\* Fault variant of PersistFails: the transaction is not rolled back.
PersistFailsOpen ==
  /\ pc \in {"begin", "write", "commit"}
  /\ Fault
  /\ pc' = "poll"
  /\ todo' = <<>>
  /\ lost' = (lost \/ events # <<>>)
  /\ UNCHANGED <<engine, events, signature, tx, db>>

\* A statement fails: _rollback_if_needed, and _run goes on to the next poll.
PersistFails ==
  /\ pc \in {"begin", "write", "commit"}
  /\ Fault
  /\ pc' = "poll"
  /\ tx' = None
  /\ todo' = <<>>
  /\ lost' = (lost \/ events # <<>>)
  /\ UNCHANGED <<engine, events, signature, db>>

\* The process ends at any point, a signal or a crash; SQLite drops what was not
\* committed.
ProcessEnds ==
  /\ pc # "down"
  /\ Fault
  /\ pc' = "down"
  /\ FreshMemory
  /\ UNCHANGED db

\* An operator restarts the service whose monitor thread has ended.
ServiceRestart ==
  /\ pc = "dead"
  /\ pc' = "opening"
  /\ FreshMemory
  /\ UNCHANGED <<db, faults>>

\* systemd starts it again.
Restart ==
  /\ pc = "down"
  /\ pc' = "opening"
  /\ UNCHANGED <<memory, db, faults>>

StoreStep == Begin \/ Append1 \/ WriteState \/ Commit

\* The next poll of inputs that did not change.
PollAgain == \E s \in Snapshots : engine \in {None, s} /\ Poll(s)

Next ==
  \/ Open \/ (\E s \in Snapshots : Poll(s)) \/ StoreStep
  \/ PersistFails \/ ProcessEnds \/ Restart \/ ServiceRestart

Spec == Init /\ [][Next]_vars

\* The monitor thread keeps running, since the wait between two polls is bounded,
\* and systemd restarts the service. No input has to change, nothing has to fail.
FairSpec == Spec /\ WF_vars(Open \/ PollAgain \/ StoreStep \/ Restart)
-----------------------------------------------------------------------------
(* Properties                                                              *)

Values == {"ON", "OFF", "UNKNOWN", "ACTIVE", "IDLE"}
Databases == [state : Snapshots \cup {None}, newest : [EventTypes -> Values \cup {None}]]
Events == [type : EventTypes, old : Values, new : Values]

ASSUME NoneAssumption == None \notin Snapshots /\ None \notin Databases

\* Every variable has its type; a transaction is open exactly between BEGIN and
\* COMMIT, and the update being stored is the engine's current one.
TypeOK ==
  /\ pc \in {"opening", "poll", "begin", "write", "commit", "dead", "down"}
  /\ engine \in Snapshots \cup {None}
  /\ signature \in Snapshots \cup {None}
  /\ events \in Seq(Events) /\ todo \in Seq(Events)
  /\ tx \in Databases \cup {None} /\ (tx # None <=> pc \in {"write", "commit"})
  /\ pc \in {"begin", "write", "commit"} => engine # None
  /\ db \in Databases
  /\ faults \in 0..MaxFaults
  /\ lost \in BOOLEAN

\* An update is skipped only when Current State already shows it: the signature
\* is that of the stored state whatever failed before (RuntimeInputMonitor).
SkipIsSound == signature # None => db.state = signature

\* What becomes visible to readers is one whole update, its events together with
\* its Current State, also when a statement fails or the process ends in between
\* (EventStore.persist).
CommitsWholeUpdates ==
  [][db' # db =>
       /\ db'.state = engine
       /\ \A i \in DOMAIN events : db'.newest[events[i].type] = events[i].new]_vars

\* Within one life of the process, a commit adds exactly the events that lead from
\* the Current State readers saw before to the one they see now, unless an update
\* with events could not be stored: that leaves a gap, and the next update that is
\* stored, or found to be stored already, ends it (poll_once, EventStore.persist).
HistoryIsComplete ==
  [][db' # db /\ signature # None /\ ~lost => events = EventsFor(db.state, db'.state)]_vars

\* However often storing fails or the process ends, Current State comes to show
\* what the engine saw last, unless the monitor could not open its database.
StoreCatchesUp == []<>(pc = "dead" \/ (pc = "poll" /\ db.state = engine))

-----------------------------------------------------------------------------
(* The promise to readers                                                  *)

Published ==
  INSTANCE StoredHistory WITH
    Fields <- EventTypes,
    shown <- db.state,
    newest <- db.newest,
    seen <- engine,
    changed <- {events[i].type : i \in DOMAIN events},
    due <- pc \in {"begin", "write", "commit"},
    gap <- signature = None \/ lost

\* The store, with its statements, rollbacks and restarts, shows its readers no
\* more than the promise allows: whole observations, each with all it changed and
\* nothing else, and none that is skipped unless it is shown already
\* (RuntimeInputMonitor.poll_once, EventStore.persist).
ImplementsStoredHistory == Published!Spec
=============================================================================
