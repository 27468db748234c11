----------------------- MODULE RuntimeMonitor_proofs -----------------------
(***************************************************************************)
(* Proofs about RuntimeMonitor, for any number of failed statements and    *)
(* ended processes.                                                        *)
(*                                                                         *)
(* The database is described through the open transaction: Stored says how *)
(* far the update has got in it. That the history has no gap follows from  *)
(* Continuous: between updates the engine is where the signature says the  *)
(* database is, unless an update with events was lost.                     *)
(***************************************************************************)
EXTENDS RuntimeMonitor, SequenceTheorems, TLAPS

\* The first k events of the update are in the open transaction.
Appended(k) == \A i \in 1..k : tx.newest[events[i].type] = events[i].new

\* The events still to append are the last ones of the update.
Remaining ==
  /\ Len(todo) <= Len(events)
  /\ \A i \in 1..Len(todo) : todo[i] = events[Len(events) - Len(todo) + i]

\* What the first k events of the update are not about is as readers see it.
Untouched(k) ==
  \A type \in EventTypes :
    (\A i \in 1..k : events[i].type # type) => tx.newest[type] = db.newest[type]

\* An event tells what its field is now.
Current == \A i \in DOMAIN events : events[i].new = engine[events[i].type]

\* An update has at most one event of a type, so none overwrites another.
OneOfAType == \A i, j \in DOMAIN events : events[i].type = events[j].type => i = j

Stored ==
  /\ pc = "write" =>
       Remaining /\ Appended(Len(events) - Len(todo)) /\ Untouched(Len(events) - Len(todo))
  /\ pc = "commit" => tx.state = engine /\ Appended(Len(events)) /\ Untouched(Len(events))

Continuous ==
  signature # None /\ ~lost =>
    /\ pc = "poll" => engine = signature
    /\ pc \in {"begin", "write", "commit"} => events = EventsFor(signature, engine)

\* A process that has not opened its store has stored nothing.
Unopened == pc \in {"opening", "down"} => signature = None

IInv ==
  TypeOK /\ SkipIsSound /\ OneOfAType /\ Current /\ Stored /\ Continuous /\ Unopened

-----------------------------------------------------------------------------
\* Snapshots are records of values (StateSnapshot).
LEMMA SnapshotType ==
  ASSUME NEW s \in Snapshots
  PROVE  /\ s.power_led \in Values /\ s.hdd_activity \in Values /\ s.pc_state \in Values
         /\ s = [power_led |-> s.power_led, hdd_activity |-> s.hdd_activity,
                 pc_state |-> s.pc_state]
<1>1. PICK power \in PowerReadings, hdd \in HddReadings : s = Snapshot(power, hdd)
  BY DEF Snapshots
<1>2. power[1] \in Values
  <2>1. CASE power = <<"ON", TRUE>>
    BY <2>1 DEF Values
  <2>2. CASE power = <<"OFF", TRUE>>
    BY <2>2 DEF Values
  <2>3. CASE power = <<"UNKNOWN", FALSE>>
    BY <2>3 DEF Values
  <2> QED
    BY <2>1, <2>2, <2>3 DEF PowerReadings
<1>3. hdd[1] \in Values
  <2>1. CASE hdd = <<"ACTIVE", TRUE>>
    BY <2>1 DEF Values
  <2>2. CASE hdd = <<"IDLE", TRUE>>
    BY <2>2 DEF Values
  <2>3. CASE hdd = <<"UNKNOWN", FALSE>>
    BY <2>3 DEF Values
  <2> QED
    BY <2>1, <2>2, <2>3 DEF HddReadings
<1>4. PcStateFor(power) \in Values
  BY <1>2 DEF PcStateFor, Values
<1> QED
  BY <1>1, <1>2, <1>3, <1>4 DEF Snapshot

\* One field gives one event or none (_events_for_transition).
LEMMA EventOfType ==
  ASSUME NEW s \in Snapshots, NEW t \in Snapshots, NEW type \in EventTypes
  PROVE  /\ EventOf(type, s, t) \in Seq(Events) /\ Len(EventOf(type, s, t)) <= 1
         /\ Len(EventOf(type, s, t)) = 1 =>
              /\ EventOf(type, s, t)[1].type = type /\ EventOf(type, s, t)[1].new = t[type]
              /\ s[type] # t[type]
         /\ Len(EventOf(type, s, t)) = 0 => s[type] = t[type]
<1>1. s[type] \in Values /\ t[type] \in Values
  BY SnapshotType DEF EventTypes
<1>2. CASE s[type] = t[type]
  <2>1. EventOf(type, s, t) = <<>>
    BY <1>2 DEF EventOf
  <2>2. <<>> \in Seq(Events) /\ Len(<<>>) = 0
    OBVIOUS
  <2> QED
    BY <1>2, <2>1, <2>2
<1>3. CASE s[type] # t[type]
  <2> DEFINE e == [type |-> type, old |-> s[type], new |-> t[type]]
  <2>1. e \in Events /\ e.type = type /\ e.new = t[type]
    BY <1>1 DEF Events
  <2>2. EventOf(type, s, t) = <<e>>
    BY <1>3 DEF EventOf
  <2> HIDE DEF e
  <2>3. <<e>> \in Seq(Events) /\ Len(<<e>>) = 1 /\ <<e>>[1] = e
    BY <2>1
  <2> QED
    BY <1>3, <2>1, <2>2, <2>3
<1> QED
  BY <1>2, <1>3

\* At most one element each, concatenated: what the result is and where from.
LEMMA ConcatThree ==
  ASSUME NEW S, NEW a \in Seq(S), NEW b \in Seq(S), NEW c \in Seq(S),
         Len(a) <= 1, Len(b) <= 1, Len(c) <= 1
  PROVE  /\ a \o b \o c \in Seq(S)
         /\ Len(a \o b \o c) = Len(a) + Len(b) + Len(c)
         /\ \A i \in 1..Len(a \o b \o c) :
              \/ i = 1 /\ Len(a) = 1 /\ (a \o b \o c)[i] = a[1]
              \/ i = Len(a) + 1 /\ Len(b) = 1 /\ (a \o b \o c)[i] = b[1]
              \/ i = Len(a) + Len(b) + 1 /\ Len(c) = 1 /\ (a \o b \o c)[i] = c[1]
         /\ Len(a) = 1 => (a \o b \o c)[1] = a[1]
         /\ Len(b) = 1 => (a \o b \o c)[Len(a) + 1] = b[1]
         /\ Len(c) = 1 => (a \o b \o c)[Len(a) + Len(b) + 1] = c[1]
<1> DEFINE ab == a \o b
<1>1. /\ ab \in Seq(S) /\ Len(ab) = Len(a) + Len(b)
      /\ \A i \in 1..Len(ab) : ab[i] = IF i <= Len(a) THEN a[i] ELSE b[i - Len(a)]
  BY ConcatProperties
<1>2. /\ ab \o c \in Seq(S) /\ Len(ab \o c) = Len(ab) + Len(c)
      /\ \A i \in 1..Len(ab \o c) : (ab \o c)[i] = IF i <= Len(ab) THEN ab[i] ELSE c[i - Len(ab)]
  BY <1>1, ConcatProperties
<1>3. Len(a) \in {0, 1} /\ Len(b) \in {0, 1} /\ Len(c) \in {0, 1}
  <2>1. Len(a) \in Nat /\ Len(b) \in Nat /\ Len(c) \in Nat
    BY LenProperties
  <2>2. \A n \in Nat : n <= 1 => n \in {0, 1}
    OBVIOUS
  <2>3. Len(a) \in {0, 1}
    BY <2>1, <2>2
  <2>4. Len(b) \in {0, 1}
    BY <2>1, <2>2
  <2>5. Len(c) \in {0, 1}
    BY <2>1, <2>2
  <2> QED
    BY <2>3, <2>4, <2>5
<1>4. ASSUME NEW i \in 1..Len(ab \o c)
      PROVE  \/ i = 1 /\ Len(a) = 1 /\ (ab \o c)[i] = a[1]
             \/ i = Len(a) + 1 /\ Len(b) = 1 /\ (ab \o c)[i] = b[1]
             \/ i = Len(a) + Len(b) + 1 /\ Len(c) = 1 /\ (ab \o c)[i] = c[1]
  <2> HIDE DEF ab
  <2>1. CASE i <= Len(a)
    BY <1>1, <1>2, <1>3, <2>1
  <2>2. CASE i > Len(a) /\ i <= Len(a) + Len(b)
    BY <1>1, <1>2, <1>3, <2>2
  <2>3. CASE i > Len(a) + Len(b)
    BY <1>1, <1>2, <1>3, <2>3
  <2> QED
    BY <1>3, <2>1, <2>2, <2>3
<1>5. /\ Len(a) = 1 => (ab \o c)[1] = a[1]
      /\ Len(b) = 1 => (ab \o c)[Len(a) + 1] = b[1]
      /\ Len(c) = 1 => (ab \o c)[Len(a) + Len(b) + 1] = c[1]
  <2> HIDE DEF ab
  <2>1. ASSUME Len(a) = 1 PROVE (ab \o c)[1] = a[1]
    BY <1>1, <1>2, <1>3, <2>1
  <2>2. ASSUME Len(b) = 1 PROVE (ab \o c)[Len(a) + 1] = b[1]
    BY <1>1, <1>2, <1>3, <2>2
  <2>3. ASSUME Len(c) = 1 PROVE (ab \o c)[Len(a) + Len(b) + 1] = c[1]
    BY <1>1, <1>2, <1>3, <2>3
  <2> QED
    BY <2>1, <2>2, <2>3
<1> QED
  BY <1>1, <1>2, <1>4, <1>5

\* An update's events: typed, about just the fields that changed, one of a type, and
\* telling their new values (_events_for_transition).
LEMMA EventsForType ==
  ASSUME NEW s \in Snapshots, NEW t \in Snapshots
  PROVE  /\ EventsFor(s, t) \in Seq(Events)
         /\ \A i, j \in DOMAIN EventsFor(s, t) :
              EventsFor(s, t)[i].type = EventsFor(s, t)[j].type => i = j
         /\ EventsFor(s, t) = <<>> => s = t
         /\ \A i \in DOMAIN EventsFor(s, t) :
              EventsFor(s, t)[i].new = t[EventsFor(s, t)[i].type]
         /\ {EventsFor(s, t)[i].type : i \in DOMAIN EventsFor(s, t)}
              = {f \in EventTypes : t[f] # s[f]}
<1> DEFINE a == EventOf("power_led", s, t)
           b == EventOf("hdd_activity", s, t)
           c == EventOf("pc_state", s, t)
<1>1. s # None
  BY NoneAssumption
<1>2. EventsFor(s, t) = a \o b \o c
  BY <1>1 DEF EventsFor
<1>3. /\ a \in Seq(Events) /\ Len(a) <= 1
      /\ Len(a) = 1 => a[1].type = "power_led" /\ a[1].new = t["power_led"] /\ s["power_led"] # t["power_led"]
      /\ Len(a) = 0 => s.power_led = t.power_led
  <2>1. "power_led" \in EventTypes
    BY DEF EventTypes
  <2> QED
    BY <2>1, EventOfType
<1>4. /\ b \in Seq(Events) /\ Len(b) <= 1
      /\ Len(b) = 1 => b[1].type = "hdd_activity" /\ b[1].new = t["hdd_activity"] /\ s["hdd_activity"] # t["hdd_activity"]
      /\ Len(b) = 0 => s.hdd_activity = t.hdd_activity
  <2>1. "hdd_activity" \in EventTypes
    BY DEF EventTypes
  <2> QED
    BY <2>1, EventOfType
<1>5. /\ c \in Seq(Events) /\ Len(c) <= 1
      /\ Len(c) = 1 => c[1].type = "pc_state" /\ c[1].new = t["pc_state"] /\ s["pc_state"] # t["pc_state"]
      /\ Len(c) = 0 => s.pc_state = t.pc_state
  <2>1. "pc_state" \in EventTypes
    BY DEF EventTypes
  <2> QED
    BY <2>1, EventOfType
<1> HIDE DEF a, b, c
<1> DEFINE abc == a \o b \o c
<1>6. /\ abc \in Seq(Events)
      /\ Len(abc) = Len(a) + Len(b) + Len(c)
      /\ \A i \in 1..Len(abc) :
           \/ i = 1 /\ Len(a) = 1 /\ abc[i] = a[1]
           \/ i = Len(a) + 1 /\ Len(b) = 1 /\ abc[i] = b[1]
           \/ i = Len(a) + Len(b) + 1 /\ Len(c) = 1 /\ abc[i] = c[1]
      /\ Len(a) = 1 => abc[1] = a[1]
      /\ Len(b) = 1 => abc[Len(a) + 1] = b[1]
      /\ Len(c) = 1 => abc[Len(a) + Len(b) + 1] = c[1]
  BY <1>3, <1>4, <1>5, ConcatThree
<1>7. DOMAIN abc = 1..Len(abc)
  BY <1>6, LenProperties
<1> HIDE DEF abc
<1>8. ASSUME NEW i \in DOMAIN abc, NEW j \in DOMAIN abc, abc[i].type = abc[j].type
      PROVE  i = j
  BY <1>3, <1>4, <1>5, <1>6, <1>7, <1>8
<1>9. ASSUME abc = <<>>
      PROVE  s = t
  <2>1. Len(a) = 0 /\ Len(b) = 0 /\ Len(c) = 0
    BY <1>3, <1>4, <1>5, <1>6, <1>9, LenProperties
  <2> QED
    BY <1>3, <1>4, <1>5, <2>1, SnapshotType
<1>10. ASSUME NEW i \in DOMAIN abc
       PROVE  /\ abc[i].new = t[abc[i].type]
              /\ abc[i].type \in {f \in EventTypes : t[f] # s[f]}
  <2>1. \/ abc[i] = a[1] /\ Len(a) = 1
        \/ abc[i] = b[1] /\ Len(b) = 1
        \/ abc[i] = c[1] /\ Len(c) = 1
    BY <1>6, <1>7
  <2> QED
    BY <1>3, <1>4, <1>5, <2>1 DEF EventTypes
<1>11. ASSUME NEW f \in EventTypes, t[f] # s[f]
       PROVE  \E i \in DOMAIN abc : abc[i].type = f
  <2>1. Len(a) \in {0, 1} /\ Len(b) \in {0, 1} /\ Len(c) \in {0, 1}
    <3>1. \A n \in Nat : n <= 1 => n \in {0, 1}
      OBVIOUS
    <3>2. Len(a) \in Nat /\ Len(b) \in Nat /\ Len(c) \in Nat
      BY <1>3, <1>4, <1>5, LenProperties
    <3> QED
      BY <1>3, <1>4, <1>5, <3>1, <3>2
  <2>2. CASE f = "power_led"
    <3>1. Len(a) = 1
      BY <1>3, <1>11, <2>1, <2>2
    <3> QED
      BY <1>3, <1>6, <1>7, <2>1, <2>2, <3>1
  <2>3. CASE f = "hdd_activity"
    <3>1. Len(b) = 1
      BY <1>4, <1>11, <2>1, <2>3
    <3>2. Len(a) + 1 \in DOMAIN abc
      BY <1>6, <1>7, <2>1, <3>1
    <3> QED
      BY <1>4, <1>6, <2>3, <3>1, <3>2
  <2>4. CASE f = "pc_state"
    <3>1. Len(c) = 1
      BY <1>5, <1>11, <2>1, <2>4
    <3>2. Len(a) + Len(b) + 1 \in DOMAIN abc
      BY <1>6, <1>7, <2>1, <3>1
    <3> QED
      BY <1>5, <1>6, <2>4, <3>1, <3>2
  <2> QED
    BY <2>2, <2>3, <2>4 DEF EventTypes
<1>12. {abc[i].type : i \in DOMAIN abc} = {f \in EventTypes : t[f] # s[f]}
  BY <1>10, <1>11
<1>13. EventsFor(s, t) = abc
  BY <1>2 DEF abc
<1> QED
  BY <1>6, <1>8, <1>9, <1>10, <1>12, <1>13

-----------------------------------------------------------------------------
\* The first read of a process starts without a history (FreshMemory).
LEMMA FreshStep ==
  ASSUME IInv, FreshMemory, UNCHANGED db, faults' \in 0..MaxFaults,
         pc' \in {"opening", "down"}
  PROVE  IInv'
<1>1. <<>> \in Seq(Events) /\ DOMAIN <<>> = {}
  OBVIOUS
<1>2. TypeOK'
  BY <1>1 DEF IInv, TypeOK, FreshMemory
<1>3. SkipIsSound' /\ Stored' /\ Continuous' /\ Unopened'
  BY DEF FreshMemory, SkipIsSound, Stored, Continuous, Unopened
<1>4. OneOfAType' /\ Current'
  BY <1>1 DEF FreshMemory, OneOfAType, Current
<1> QED
  BY <1>2, <1>3, <1>4 DEF IInv

LEMMA InitIInv == Init => IInv
<1> SUFFICES ASSUME Init PROVE IInv
  OBVIOUS
<1>1. <<>> \in Seq(Events) /\ DOMAIN <<>> = {}
  OBVIOUS
<1>2. db \in Databases /\ db.state = None
  BY DEF Init, Databases
<1>3. TypeOK
  <2>1. faults \in 0..MaxFaults
    BY FaultsAssumption DEF Init
  <2>3. lost \in BOOLEAN
    BY DEF Init
  <2>2. /\ events \in Seq(Events) /\ todo \in Seq(Events)
        /\ tx = None /\ engine = None /\ signature = None /\ pc = "opening"
    BY <1>1 DEF Init
  <2> QED
    BY <1>2, <2>1, <2>2, <2>3 DEF TypeOK
<1>4. SkipIsSound /\ Stored /\ Continuous /\ Unopened
  BY DEF Init, SkipIsSound, Stored, Continuous, Unopened
<1>5. OneOfAType /\ Current
  BY <1>1 DEF Init, OneOfAType, Current
<1> QED
  BY <1>3, <1>4, <1>5 DEF IInv

\* Opening the store changes nothing that the invariant speaks of.
LEMMA OpenStep == ASSUME IInv, Open PROVE IInv'
<1>1. TypeOK'
  BY FaultsAssumption DEF IInv, TypeOK, Open, Fault, memory
<1>2. SkipIsSound' /\ OneOfAType' /\ Current'
  BY DEF IInv, SkipIsSound, OneOfAType, Current, Open, memory
<1>3. Stored'
  BY DEF Stored, Open
<1>5. Unopened'
  BY DEF Unopened, Open
<1>4. Continuous'
  <2>1. UNCHANGED <<engine, signature, lost>> /\ pc' \in {"poll", "dead"} /\ pc = "opening"
    BY DEF Open, memory
  <2>2. signature = None
    BY <2>1 DEF IInv, Unopened
  <2> QED
    BY <2>1, <2>2 DEF Continuous
<1> QED
  BY <1>1, <1>2, <1>3, <1>4, <1>5 DEF IInv

\* A poll makes the events of its change and nothing else (poll_once).
LEMMA PollStep == ASSUME IInv, NEW snapshot \in Snapshots, Poll(snapshot) PROVE IInv'
<1>1. /\ pc = "poll" /\ engine' = snapshot /\ events' = EventsFor(engine, snapshot)
      /\ pc' = IF snapshot = signature THEN "poll" ELSE "begin"
      /\ lost' = (lost /\ snapshot # signature)
      /\ UNCHANGED <<signature, todo, tx, db, faults>>
  BY DEF Poll
<1>2. events' \in Seq(Events) /\ OneOfAType' /\ Current'
  <2>1. CASE engine = None
    <3>1. events' = <<>> /\ <<>> \in Seq(Events) /\ DOMAIN <<>> = {}
      BY <1>1, <2>1 DEF EventsFor
    <3> QED
      BY <3>1 DEF OneOfAType, Current
  <2>2. CASE engine # None
    <3>1. engine \in Snapshots
      BY <2>2 DEF IInv, TypeOK
    <3> QED
      BY <1>1, <3>1, EventsForType DEF OneOfAType, Current
  <2> QED
    BY <2>1, <2>2
<1>3. snapshot # None
  BY NoneAssumption
<1>4. TypeOK'
  BY <1>1, <1>2, <1>3 DEF IInv, TypeOK
<1>5. SkipIsSound' /\ Stored' /\ Unopened'
  BY <1>1 DEF IInv, SkipIsSound, Stored, Unopened
<1>6. Continuous'
  BY <1>1 DEF IInv, Continuous
<1> QED
  BY <1>2, <1>4, <1>5, <1>6 DEF IInv

\* BEGIN IMMEDIATE
LEMMA BeginStep == ASSUME IInv, Begin PROVE IInv'
<1>1. /\ pc = "begin" /\ pc' = "write" /\ tx' = db /\ todo' = events
      /\ UNCHANGED <<engine, events, signature, db, faults, lost>>
  BY DEF Begin
<1>2. TypeOK'
  BY <1>1, NoneAssumption DEF IInv, TypeOK
<1>3. SkipIsSound' /\ OneOfAType' /\ Current' /\ Continuous' /\ Unopened'
  BY <1>1 DEF IInv, SkipIsSound, OneOfAType, Current, Continuous, Unopened
<1>4. Stored'
  <2>1. Len(events) \in Nat
    BY LenProperties DEF IInv, TypeOK
  <2> QED
    BY <1>1, <2>1 DEF Stored, Remaining, Appended, Untouched
<1> QED
  BY <1>2, <1>3, <1>4 DEF IInv

\* One event more is in the transaction, and none it holds is overwritten
\* (_append_event).
LEMMA AppendStep == ASSUME IInv, Append1 PROVE IInv'
<1>1. /\ pc = "write" /\ todo # <<>>
      /\ tx' = [tx EXCEPT !.newest[Head(todo).type] = Head(todo).new]
      /\ todo' = Tail(todo)
      /\ UNCHANGED <<pc, engine, events, signature, db, faults, lost>>
  BY DEF Append1
<1>2. /\ tx \in Databases /\ todo \in Seq(Events) /\ events \in Seq(Events)
      /\ Remaining /\ Appended(Len(events) - Len(todo)) /\ OneOfAType
      /\ Untouched(Len(events) - Len(todo))
  BY <1>1 DEF IInv, TypeOK, Stored
<1>3. /\ Head(todo) = todo[1] /\ Head(todo) \in Events
      /\ Tail(todo) \in Seq(Events) /\ Len(Tail(todo)) = Len(todo) - 1
      /\ Len(todo) \in Nat /\ Len(todo) >= 1 /\ Len(events) \in Nat
      /\ DOMAIN events = 1..Len(events)
      /\ \A i \in 1..Len(Tail(todo)) : Tail(todo)[i] = todo[i + 1]
  BY <1>1, <1>2, HeadTailProperties, LenProperties, EmptySeq
<1> DEFINE k == Len(events) - Len(todo)
<1>4. k \in Nat /\ k + 1 \in 1..Len(events) /\ Head(todo) = events[k + 1]
  BY <1>2, <1>3 DEF Remaining
<1>5. /\ tx' \in Databases /\ tx'.state = tx.state
      /\ \A type \in EventTypes :
           tx'.newest[type] = IF type = Head(todo).type THEN Head(todo).new ELSE tx.newest[type]
  BY <1>1, <1>2, <1>3 DEF Databases, Events
<1>6. TypeOK'
  BY <1>1, <1>3, <1>5, NoneAssumption DEF IInv, TypeOK
<1>7. SkipIsSound' /\ OneOfAType' /\ Current' /\ Continuous' /\ Unopened'
  BY <1>1 DEF IInv, SkipIsSound, OneOfAType, Current, Continuous, Unopened
<1>8. Len(events') - Len(todo') = k + 1
  BY <1>1, <1>3
<1>9. Remaining'
  <2>1. Len(todo') <= Len(events')
    BY <1>1, <1>3, <1>4
  <2>2. ASSUME NEW i \in 1..Len(todo')
        PROVE  todo'[i] = events'[Len(events') - Len(todo') + i]
    <3>1. i + 1 \in 1..Len(todo) /\ todo'[i] = todo[i + 1]
      BY <1>1, <1>3, <2>2
    <3>2. todo[i + 1] = events[k + (i + 1)]
      BY <1>2, <3>1 DEF Remaining
    <3>3. k + (i + 1) = (k + 1) + i
      BY <1>4, <3>1
    <3> QED
      BY <1>1, <1>8, <3>1, <3>2, <3>3
  <2> QED
    BY <2>1, <2>2 DEF Remaining
<1>10. ASSUME NEW i \in 1..(k + 1)
       PROVE  tx'.newest[events'[i].type] = events'[i].new
  <2>1. i \in DOMAIN events /\ k + 1 \in DOMAIN events
    BY <1>3, <1>4
  <2>2. events[i] \in Events
    BY <1>2, <2>1, ElementOfSeq, <1>3
  <2>3. events[i].type \in EventTypes
    BY <2>2 DEF Events
  <2>4. CASE i = k + 1
    BY <1>1, <1>4, <1>5, <2>3, <2>4
  <2>5. CASE i \in 1..k
    <3>1. i # k + 1
      BY <1>4, <2>5
    <3>2. events[i].type # Head(todo).type
      BY <1>2, <1>4, <2>1, <3>1 DEF OneOfAType
    <3>3. tx.newest[events[i].type] = events[i].new
      BY <1>2, <2>5 DEF Appended
    <3> QED
      BY <1>1, <1>5, <2>3, <3>2, <3>3
  <2> QED
    BY <1>4, <2>4, <2>5
<1>11. ASSUME NEW type \in EventTypes, \A i \in 1..(k + 1) : events[i].type # type
       PROVE  tx'.newest[type] = db.newest[type]
  <2>1. Head(todo).type # type /\ \A i \in 1..k : events[i].type # type
    BY <1>4, <1>11
  <2> QED
    BY <1>2, <1>5, <2>1 DEF Untouched
<1>12. Stored'
  BY <1>1, <1>8, <1>9, <1>10, <1>11 DEF Stored, Appended, Untouched
<1> QED
  BY <1>6, <1>7, <1>12 DEF IInv

\* _write_current_state
LEMMA WriteStep == ASSUME IInv, WriteState PROVE IInv'
<1>1. /\ pc = "write" /\ todo = <<>> /\ pc' = "commit"
      /\ tx' = [tx EXCEPT !.state = engine]
      /\ UNCHANGED <<engine, events, signature, todo, db, faults, lost>>
  BY DEF WriteState
<1>2. tx \in Databases /\ engine \in Snapshots /\ events \in Seq(Events)
  BY <1>1 DEF IInv, TypeOK
<1>3. tx' \in Databases /\ tx'.state = engine /\ tx'.newest = tx.newest
  BY <1>1, <1>2 DEF Databases
<1>4. TypeOK'
  BY <1>1, <1>3, NoneAssumption DEF IInv, TypeOK
<1>5. SkipIsSound' /\ OneOfAType' /\ Current' /\ Continuous' /\ Unopened'
  BY <1>1 DEF IInv, SkipIsSound, OneOfAType, Current, Continuous, Unopened
<1>6. Stored'
  <2>1. Len(todo) = 0 /\ Len(events) \in Nat
    BY <1>1, <1>2, LenProperties
  <2>2. Appended(Len(events)) /\ Untouched(Len(events))
    BY <1>1, <2>1 DEF IInv, Stored
  <2> QED
    BY <1>1, <1>3, <2>2 DEF Stored, Appended, Untouched
<1> QED
  BY <1>4, <1>5, <1>6 DEF IInv

\* COMMIT
LEMMA CommitStep == ASSUME IInv, Commit PROVE IInv'
<1>1. /\ pc = "commit" /\ pc' = "poll" /\ db' = tx /\ tx' = None /\ signature' = engine
      /\ lost' = FALSE /\ UNCHANGED <<engine, events, todo, faults>>
  BY DEF Commit
<1>2. tx \in Databases /\ tx.state = engine
  BY <1>1 DEF IInv, TypeOK, Stored
<1>3. TypeOK'
  BY <1>1, <1>2 DEF IInv, TypeOK
<1>4. SkipIsSound' /\ OneOfAType' /\ Current' /\ Continuous' /\ Stored' /\ Unopened'
  BY <1>1, <1>2 DEF IInv, SkipIsSound, OneOfAType, Current, Continuous, Stored, Unopened
<1> QED
  BY <1>3, <1>4 DEF IInv

\* A rollback loses the update; if it had no events, nothing had changed.
LEMMA FailStep == ASSUME IInv, PersistFails PROVE IInv'
<1>1. /\ pc \in {"begin", "write", "commit"} /\ Fault
      /\ pc' = "poll" /\ tx' = None /\ todo' = <<>> /\ lost' = (lost \/ events # <<>>)
      /\ UNCHANGED <<engine, events, signature, db>>
  BY DEF PersistFails
<1>2. TypeOK'
  <2>1. <<>> \in Seq(Events)
    OBVIOUS
  <2>2. faults' \in 0..MaxFaults
    BY <1>1, FaultsAssumption DEF IInv, TypeOK, Fault
  <2>3. lost' \in BOOLEAN
    BY <1>1
  <2> QED
    BY <1>1, <2>1, <2>2, <2>3 DEF IInv, TypeOK
<1>3. SkipIsSound' /\ OneOfAType' /\ Current' /\ Stored' /\ Unopened'
  BY <1>1 DEF IInv, SkipIsSound, OneOfAType, Current, Stored, Unopened
<1>4. Continuous'
  <2> SUFFICES ASSUME signature # None, ~lost, events = <<>> PROVE engine = signature
    BY <1>1 DEF Continuous
  <2>1. signature \in Snapshots /\ engine \in Snapshots
    BY <1>1 DEF IInv, TypeOK
  <2>2. EventsFor(signature, engine) = <<>>
    BY <1>1 DEF IInv, Continuous
  <2> QED
    BY <2>1, <2>2, EventsForType
<1> QED
  BY <1>2, <1>3, <1>4 DEF IInv

\* The process ends, or is started again after it ended or its monitor did.
LEMMA EndStep == ASSUME IInv, ProcessEnds \/ Restart \/ ServiceRestart PROVE IInv'
<1>1. CASE ProcessEnds \/ ServiceRestart
  <2>1. faults' \in 0..MaxFaults
    BY <1>1, FaultsAssumption DEF IInv, TypeOK, ProcessEnds, ServiceRestart, Fault
  <2>2. FreshMemory /\ UNCHANGED db /\ pc' \in {"opening", "down"}
    BY <1>1 DEF ProcessEnds, ServiceRestart
  <2> QED
    BY <2>1, <2>2, FreshStep
<1>2. CASE Restart
  <2>1. /\ pc = "down" /\ pc' = "opening"
        /\ UNCHANGED <<engine, events, signature, todo, tx, lost, db, faults>>
    BY <1>2 DEF Restart, memory
  <2>2. TypeOK'
    BY <2>1 DEF IInv, TypeOK
  <2>3. SkipIsSound' /\ OneOfAType' /\ Current' /\ Stored' /\ Unopened'
    BY <2>1 DEF IInv, SkipIsSound, OneOfAType, Current, Stored, Unopened
  <2>4. Continuous'
    BY <2>1 DEF IInv, Continuous, Unopened
  <2> QED
    BY <2>2, <2>3, <2>4 DEF IInv
<1> QED
  BY <1>1, <1>2

\* IInv is inductive.
LEMMA NextIInv == IInv /\ [Next]_vars => IInv'
<1> SUFFICES ASSUME IInv, [Next]_vars PROVE IInv'
  OBVIOUS
<1>1. CASE Open
  BY <1>1, OpenStep
<1>2. CASE \E s \in Snapshots : Poll(s)
  BY <1>2, PollStep
<1>3. CASE StoreStep
  BY <1>3, BeginStep, AppendStep, WriteStep, CommitStep DEF StoreStep
<1>4. CASE PersistFails
  BY <1>4, FailStep
<1>5. CASE ProcessEnds \/ Restart \/ ServiceRestart
  BY <1>5, EndStep
<1>6. CASE UNCHANGED vars
  <2>1. UNCHANGED <<pc, engine, events, signature, todo, tx, lost, db, faults>>
    BY <1>6 DEF vars, memory
  <2>2. TypeOK' /\ SkipIsSound'
    BY <2>1 DEF IInv, TypeOK, SkipIsSound
  <2>3. OneOfAType' /\ Current' /\ Unopened'
    BY <2>1 DEF IInv, OneOfAType, Current, Unopened
  <2>4. Stored'
    BY <2>1 DEF IInv, Stored, Remaining, Appended, Untouched
  <2>5. Continuous'
    BY <2>1 DEF IInv, Continuous
  <2> QED
    BY <2>2, <2>3, <2>4, <2>5 DEF IInv
<1> QED
  BY <1>1, <1>2, <1>3, <1>4, <1>5, <1>6 DEF Next

LEMMA InvariantHolds == Spec => []IInv
BY InitIInv, NextIInv, PTL DEF Spec

\* Only COMMIT changes what readers see (EventStore.persist).
LEMMA OnlyCommit == ASSUME Next, db' # db PROVE Commit
<1>1. CASE Open \/ \E s \in Snapshots : Poll(s)
  BY <1>1 DEF Open, Poll
<1>2. CASE StoreStep
  BY <1>2 DEF StoreStep, Begin, Append1, WriteState
<1>3. CASE PersistFails \/ ProcessEnds \/ Restart \/ ServiceRestart
  BY <1>3 DEF PersistFails, ProcessEnds, Restart, ServiceRestart
<1> QED
  BY <1>1, <1>2, <1>3 DEF Next

-----------------------------------------------------------------------------
\* Every variable has its type, and a transaction is open exactly between BEGIN
\* and COMMIT (EventStore.persist).
THEOREM TypeCorrect == Spec => []TypeOK
BY InvariantHolds, PTL DEF IInv

\* The signature that lets an update be skipped is that of the stored state
\* (RuntimeInputMonitor.poll_once).
THEOREM SkipIsSoundHolds == Spec => []SkipIsSound
BY InvariantHolds, PTL DEF IInv

\* Readers only ever see whole updates (EventStore.persist).
THEOREM CommitsWholeUpdatesHolds == Spec => CommitsWholeUpdates
<1>1. IInv /\ [Next]_vars =>
        [db' # db =>
           /\ db'.state = engine
           /\ \A i \in DOMAIN events : db'.newest[events[i].type] = events[i].new]_vars
  <2> SUFFICES ASSUME IInv, Next, db' # db
               PROVE  /\ db'.state = engine
                      /\ \A i \in DOMAIN events : db'.newest[events[i].type] = events[i].new
    OBVIOUS
  <2>1. pc = "commit" /\ db' = tx
    BY OnlyCommit DEF Commit
  <2>2. DOMAIN events = 1..Len(events)
    BY LenProperties DEF IInv, TypeOK
  <2> QED
    BY <2>1, <2>2 DEF IInv, Stored, Appended
<1> QED
  BY <1>1, InvariantHolds, PTL DEF Spec, CommitsWholeUpdates

\* Until an update with events is lost, every commit adds exactly the events that
\* lead from one visible Current State to the next (poll_once, persist).
THEOREM HistoryIsCompleteHolds == Spec => HistoryIsComplete
<1>1. IInv /\ [Next]_vars =>
        [db' # db /\ signature # None /\ ~lost => events = EventsFor(db.state, db'.state)]_vars
  <2> SUFFICES ASSUME IInv, Next, db' # db, signature # None, ~lost
               PROVE  events = EventsFor(db.state, db'.state)
    OBVIOUS
  <2>1. pc = "commit" /\ db' = tx
    BY OnlyCommit DEF Commit
  <2>2. db.state = signature /\ tx.state = engine /\ events = EventsFor(signature, engine)
    BY <2>1 DEF IInv, SkipIsSound, Stored, Continuous
  <2> QED
    BY <2>1, <2>2
<1> QED
  BY <1>1, InvariantHolds, PTL DEF Spec, HistoryIsComplete
-----------------------------------------------------------------------------
(* The store keeps the promise of StoredHistory                            *)

LEMMA AbstractInit == Init => Published!Init
<1> SUFFICES ASSUME Init PROVE Published!Init
  OBVIOUS
<1>1. events = <<>> /\ DOMAIN <<>> = {}
  BY DEF Init
<1>2. {events[i].type : i \in DOMAIN events} = {}
  BY <1>1
<1> QED
  BY <1>2 DEF Init, Published!Init

\* A poll is an observation; it is due unless it is what readers see (poll_once).
LEMMA AbstractPoll ==
  ASSUME IInv, NEW snapshot \in Snapshots, Poll(snapshot)
  PROVE  Published!Observe
<1>1. /\ pc = "poll" /\ engine' = snapshot /\ events' = EventsFor(engine, snapshot)
      /\ pc' = IF snapshot = signature THEN "poll" ELSE "begin"
      /\ lost' = (lost /\ snapshot # signature)
      /\ UNCHANGED <<signature, todo, tx, db, faults>>
  BY DEF Poll
<1>2. snapshot # None /\ (signature # None => db.state = signature)
  BY NoneAssumption DEF IInv, SkipIsSound
<1>3. {events'[i].type : i \in DOMAIN events'} = Published!Differences(engine, engine')
  <2>1. CASE engine = None
    <3>1. events' = <<>> /\ DOMAIN <<>> = {}
      BY <1>1, <2>1 DEF EventsFor
    <3>2. {events'[i].type : i \in DOMAIN events'} = {}
      BY <3>1
    <3> QED
      BY <2>1, <3>2 DEF Published!Differences
  <2>2. CASE engine # None
    <3>1. engine \in Snapshots
      BY <2>2 DEF IInv, TypeOK
    <3>2. {EventsFor(engine, snapshot)[i].type : i \in DOMAIN EventsFor(engine, snapshot)}
            = {f \in EventTypes : snapshot[f] # engine[f]}
      BY <3>1, EventsForType
    <3>3. Published!Differences(engine, engine') = {f \in EventTypes : engine'[f] # engine[f]}
      BY <2>2 DEF Published!Differences
    <3>4. engine' = snapshot /\ events' = EventsFor(engine, snapshot)
      BY <1>1
    <3> QED
      BY <3>2, <3>3, <3>4, ZenonT(30)
  <2> QED
    BY <2>1, <2>2
<1>4. engine' # db.state => pc' = "begin"
  BY <1>1, <1>2
<1>5. (signature' = None \/ lost')
        \in {(signature = None \/ lost), (signature = None \/ lost) /\ engine' # db.state}
  BY <1>1, <1>2 DEF IInv, TypeOK
<1> QED
  BY <1>1, <1>3, <1>4, <1>5 DEF Published!Observe

\* COMMIT shows the whole update and nothing else (EventStore.persist).
LEMMA AbstractCommit == ASSUME IInv, Commit PROVE Published!Publish
<1>1. /\ pc = "commit" /\ pc' = "poll" /\ db' = tx /\ tx' = None /\ signature' = engine
      /\ lost' = FALSE /\ UNCHANGED <<engine, events, todo, faults>>
  BY DEF Commit
<1>2. /\ tx \in Databases /\ engine \in Snapshots /\ tx.state = engine
      /\ Appended(Len(events)) /\ Untouched(Len(events)) /\ Current
      /\ events \in Seq(Events) /\ DOMAIN events = 1..Len(events)
  BY <1>1, LenProperties DEF IInv, TypeOK, Stored
<1>3. engine # None
  BY <1>2, NoneAssumption
<1> DEFINE changed == {events[i].type : i \in DOMAIN events}
<1>4. ASSUME NEW f \in EventTypes
      PROVE  tx.newest[f] = IF f \in changed THEN engine[f] ELSE db.newest[f]
  <2>1. CASE f \in changed
    <3>1. PICK i \in DOMAIN events : f = events[i].type
      BY <2>1
    <3> QED
      BY <1>2, <2>1, <3>1 DEF Appended, Current
  <2>2. CASE f \notin changed
    <3>1. \A i \in 1..Len(events) : events[i].type # f
      BY <1>2, <2>2
    <3> QED
      BY <1>2, <2>2, <3>1 DEF Untouched
  <2> QED
    BY <2>1, <2>2
<1>5. tx.newest = [f \in EventTypes |-> IF f \in changed THEN engine[f] ELSE db.newest[f]]
  <2>1. tx.newest \in [EventTypes -> Values \cup {None}]
    BY <1>2 DEF Databases
  <2> QED
    BY <1>4, <2>1
<1>6. ~(signature = None \/ lost) => changed = Published!Differences(db.state, engine)
  <2> SUFFICES ASSUME signature # None, ~lost
               PROVE  changed = Published!Differences(db.state, engine)
    OBVIOUS
  <2>1. events = EventsFor(signature, engine) /\ db.state = signature /\ signature \in Snapshots
    BY <1>1 DEF IInv, Continuous, SkipIsSound, TypeOK
  <2>2. {EventsFor(signature, engine)[i].type : i \in DOMAIN EventsFor(signature, engine)}
          = {f \in EventTypes : engine[f] # signature[f]}
    BY <1>2, <2>1, EventsForType
  <2>3. db.state # None
    BY <2>1, NoneAssumption
  <2>4. Published!Differences(db.state, engine) = {f \in EventTypes : engine[f] # db.state[f]}
    BY <2>3 DEF Published!Differences
  <2>5. changed = {f \in EventTypes : engine[f] # signature[f]}
    BY <2>1, <2>2
  <2> QED
    BY <2>1, <2>4, <2>5
<1> HIDE DEF changed
<1>7. changed' = changed
  BY <1>1 DEF changed
<1> QED
  BY <1>1, <1>2, <1>3, <1>5, <1>6, <1>7 DEF Published!Publish, changed

\* What was not committed is not shown, and is forgotten with the process.
LEMMA AbstractStep == IInv /\ [Next]_vars => [Published!Next]_(Published!vars)
<1> SUFFICES ASSUME IInv, [Next]_vars PROVE [Published!Next]_(Published!vars)
  OBVIOUS
<1>1. CASE Open \/ Begin \/ Append1 \/ WriteState \/ Restart \/ UNCHANGED vars
  <2>1. /\ UNCHANGED <<db, engine, events, signature, lost>>
        /\ pc \in {"begin", "write", "commit"} <=> pc' \in {"begin", "write", "commit"}
    BY <1>1 DEF Open, Begin, Append1, WriteState, Restart, vars, memory
  <2> QED
    BY <2>1 DEF Published!vars
<1>2. CASE \E s \in Snapshots : Poll(s)
  BY <1>2, AbstractPoll DEF Published!Next
<1>3. CASE Commit
  BY <1>3, AbstractCommit DEF Published!Next
<1>4. CASE PersistFails
  <2>1. /\ pc \in {"begin", "write", "commit"} /\ pc' = "poll"
        /\ lost' = (lost \/ events # <<>>)
        /\ UNCHANGED <<engine, events, signature, db>>
    BY <1>4 DEF PersistFails
  <2>2. events # <<>> <=> {events[i].type : i \in DOMAIN events} # {}
    <3>1. events \in Seq(Events) /\ DOMAIN events = 1..Len(events) /\ Len(events) \in Nat
      BY LenProperties DEF IInv, TypeOK
    <3>2. events # <<>> => 1 \in DOMAIN events
      BY <3>1, EmptySeq
    <3>3. events = <<>> => DOMAIN events = {}
      OBVIOUS
    <3> QED
      BY <3>2, <3>3
  <2>3. {events'[i].type : i \in DOMAIN events'} = {events[i].type : i \in DOMAIN events}
    BY <2>1
  <2>4. /\ pc \in {"begin", "write", "commit"}
        /\ (pc' \in {"begin", "write", "commit"}) = FALSE
        /\ UNCHANGED <<db, engine>>
    BY <2>1
  <2>5. (signature' = None \/ lost')
          = ((signature = None \/ lost) \/ {events[i].type : i \in DOMAIN events} # {})
    <3>1. lost' <=> lost \/ {events[i].type : i \in DOMAIN events} # {}
      BY <2>1, <2>2
    <3>2. signature' = signature
      BY <2>1
    <3> QED
      BY <3>1, <3>2, Zenon
  <2>6. Published!Drop
    BY <2>3, <2>4, <2>5 DEF Published!Drop
  <2> QED
    BY <2>6 DEF Published!Next
<1>5. CASE ProcessEnds \/ ServiceRestart
  <2>1. FreshMemory /\ UNCHANGED db /\ pc' \in {"down", "opening"}
    BY <1>5 DEF ProcessEnds, ServiceRestart
  <2>2. {events'[i].type : i \in DOMAIN events'} = {}
    BY <2>1 DEF FreshMemory
  <2>3. Published!Forget
    BY <2>1, <2>2 DEF FreshMemory, Published!Forget
  <2> QED
    BY <2>3 DEF Published!Next
<1> QED
  BY <1>1, <1>2, <1>3, <1>4, <1>5 DEF Next, StoreStep

\* The readers of the Web API are shown what StoredHistory promises: whole
\* observations, nothing skipped that they do not see already, and a history without
\* a gap where nothing was dropped (RuntimeInputMonitor, EventStore).
THEOREM StoredHistoryImplemented == Spec => ImplementsStoredHistory
BY InvariantHolds, AbstractInit, AbstractStep, PTL
   DEF Spec, ImplementsStoredHistory, Published!Spec
=============================================================================
