------------------------- MODULE ServiceEngineProofs -------------------------
(***************************************************************************)
(* Over any number of failed and successful starts and stops, for any      *)
(* timers and threads: no engine is started twice, sinks are called only   *)
(* while they are started, and what an earlier service leaves in the       *)
(* queues is at most events that the closed queue of the attemper took.    *)
(***************************************************************************)
EXTENDS ServiceEngine, SequenceTheorems, TLAPS

(* StartService has yet to call the i-th engine. *)
Before(i) ==
  control.op = "start" /\ (control.at < i \/ (control.at = i /\ control.step = 1))

(* StopService has called the i-th engine. *)
After(i) == control.op = "stop" /\ control.at > i

(* Between a StopService, or the start of the program, and a StartService. *)
Resting == control = Idle /\ "timer" \notin flags

DownInv ==
  /\ Before(1) \/ Resting \/ After(3) => Down("timer")
  /\ Before(2) \/ Resting \/ After(2) => Down("database")
  /\ Before(3) \/ Resting => Down("asynchronism")
  /\ Before(4) \/ Resting \/ After(1) => Down("attemper")
  /\ Before(5) \/ Resting \/ After(4) => Down("socket")

ControlInv ==
  /\ control.op = "idle" => control = Idle
  /\ bService => control = Idle /\ "timer" \in flags
  /\ control.op = "start" /\ control.at > 1 => "timer" \in flags
  /\ control.op = "start" /\ control.at > 2 =>
       "database" \in flags /\ queue["database"].thread
  /\ control.op = "start" /\ control.at > 3 => "asynchronism" \in flags
  /\ \A e \in Engines : Stopping(e, 2) => e \notin flags
  /\ Stopping("asynchronism", 3) => "asynchronism" \notin flags

QueueInv(q) ==
  /\ queue[q].thread => queue[q].port /\ q \in sinkUp
  /\ ~queue[q].thread => queue[q].current = << >>
  /\ queue[q].data <= Len(queue[q].store)
  /\ queue[q].quit => Stopping(q, 2)
  /\ queue[q].thread /\ q \notin flags => Starting(q, 3) \/ Stopping(q, 2)
  /\ Starting(q, 2) => q \in sinkUp /\ ~queue[q].port /\ ~queue[q].thread
  /\ Starting(q, 3) => queue[q].thread
  /\ Stopping(q, 3) => q \notin flags /\ ~queue[q].port /\ ~queue[q].thread

EventsInv ==
  /\ \A e \in Entries("attemper") : e.announced => e.service = service
  /\ ~queue["attemper"].port => \A e \in Entries("attemper") : ~e.announced

(* The data base queue is empty before its requests can be made, and once  *)
(* it was closed.                                                          *)
NoRequests ==
  \/ Resting \/ Before(4) \/ After(2)
  \/ control.op = "stop" /\ control.at = 2 /\ control.step = 3

RequestsInv ==
  /\ \A e \in Entries("database") : e.service = service
  /\ NoRequests => queue["database"].store = << >> /\ queue["database"].current = << >>

TimersInv ==
  /\ CountdownRuns
  /\ Resting \/ Before(2) \/ After(3) => timers = {}

IInv ==
  /\ TypeOK
  /\ DownInv
  /\ ControlInv
  /\ \A q \in Queues : QueueInv(q)
  /\ AttemperHasItsEngines
  /\ EventsInv
  /\ RequestsInv
  /\ TimersInv
-----------------------------------------------------------------------------
QueueType == [port : BOOLEAN, thread : BOOLEAN, quit : BOOLEAN, data : Nat,
              store : Seq(Entry), current : Seq(Entry)]

NewEntry(q) == [service |-> service, announced |-> queue[q].port]

(* What threads and sinks do to a queue: they take entries and add entries *)
(* of the current service.                                                 *)
Follows(q) ==
  /\ queue'[q].port = queue[q].port
  /\ queue'[q].thread = queue[q].thread
  /\ queue'[q].quit = queue[q].quit
  /\ queue'[q].data <= Len(queue'[q].store)
  /\ Entries(q)' \subseteq Entries(q) \cup {NewEntry(q)}
  /\ ~queue[q].thread => queue'[q].current = << >>

LEMMA AppendFacts ==
  ASSUME NEW s \in Seq(Entry), NEW e \in Entry
  PROVE  /\ Append(s, e) \in Seq(Entry)
         /\ Len(Append(s, e)) = Len(s) + 1
         /\ {Append(s, e)[i] : i \in DOMAIN Append(s, e)}
              \subseteq {s[i] : i \in DOMAIN s} \cup {e}
  OBVIOUS

LEMMA EntryType ==
  ASSUME TypeOK, NEW q \in Queues
  PROVE  /\ queue[q] \in QueueType
         /\ NewEntry(q) \in Entry
  BY DEF TypeOK, QueueType, NewEntry, Entry

LEMMA WithEntryFacts ==
  ASSUME TypeOK, NEW q \in Queues, queue[q].data <= Len(queue[q].store)
  PROVE  /\ WithEntry(q) \in [Queues -> QueueType]
         /\ \A p \in Queues \ {q} : WithEntry(q)[p] = queue[p]
         /\ WithEntry(q)[q].port = queue[q].port
         /\ WithEntry(q)[q].thread = queue[q].thread
         /\ WithEntry(q)[q].quit = queue[q].quit
         /\ WithEntry(q)[q].current = queue[q].current
         /\ WithEntry(q)[q].data <= Len(WithEntry(q)[q].store)
         /\ WithEntry(q)[q].store = Append(queue[q].store, NewEntry(q))
<1>1. queue \in [Queues -> QueueType] /\ queue[q] \in QueueType
  BY DEF TypeOK, QueueType
<1>2. /\ Append(queue[q].store, NewEntry(q)) \in Seq(Entry)
      /\ Len(Append(queue[q].store, NewEntry(q))) = Len(queue[q].store) + 1
  BY <1>1, EntryType, AppendFacts DEF QueueType
<1>3. Len(queue[q].store) \in Nat /\ queue[q].data \in Nat
  BY <1>1 DEF QueueType
<1>4. WithEntry(q) = [queue EXCEPT
        ![q] = [queue[q] EXCEPT
          !.store = Append(queue[q].store, NewEntry(q)),
          !.data = IF queue[q].port /\ ~queue[q].quit THEN queue[q].data + 1
                   ELSE queue[q].data]]
  BY <1>1 DEF WithEntry, NewEntry, QueueType
<1> DEFINE new == [queue[q] EXCEPT
                    !.store = Append(queue[q].store, NewEntry(q)),
                    !.data = IF queue[q].port /\ ~queue[q].quit THEN queue[q].data + 1
                             ELSE queue[q].data]
<1>5. /\ new.port = queue[q].port /\ new.thread = queue[q].thread
      /\ new.quit = queue[q].quit /\ new.current = queue[q].current
      /\ new.store = Append(queue[q].store, NewEntry(q))
      /\ new.data \in {queue[q].data, queue[q].data + 1}
  BY <1>1 DEF QueueType
<1>6. new.data \in Nat /\ new.data <= Len(new.store)
  BY <1>2, <1>3, <1>5
<1>7. new \in QueueType
  BY <1>1, <1>2, <1>6 DEF QueueType
<1>8. WithEntry(q) = [queue EXCEPT ![q] = new]
  BY <1>4
<1> HIDE DEF new
<1>9. WithEntry(q)[q] = new /\ \A p \in Queues \ {q} : WithEntry(q)[p] = queue[p]
  BY <1>1, <1>8
<1>10. WithEntry(q) \in [Queues -> QueueType]
  BY <1>1, <1>7, <1>8
<1> QED
  BY <1>5, <1>6, <1>9, <1>10

LEMMA FollowsFrom ==
  ASSUME TypeOK, NEW q \in Queues, QueueInv(q),
         queue'[q].port = queue[q].port,
         queue'[q].thread = queue[q].thread,
         queue'[q].quit = queue[q].quit,
         queue'[q].current = queue[q].current \/ queue'[q].current = << >>,
         \/ queue'[q].store = queue[q].store /\ queue'[q].data = queue[q].data
         \/ /\ queue'[q].store = Append(queue[q].store, NewEntry(q))
            /\ queue'[q].data <= Len(queue'[q].store)
  PROVE  Follows(q)
<1>1. queue[q] \in QueueType /\ NewEntry(q) \in Entry
  BY EntryType
<1>2. queue'[q].data <= Len(queue'[q].store)
  BY DEF QueueInv
<1>3. {queue'[q].store[i] : i \in DOMAIN queue'[q].store}
        \subseteq {queue[q].store[i] : i \in DOMAIN queue[q].store} \cup {NewEntry(q)}
  <2>1. CASE queue'[q].store = queue[q].store
    BY <2>1
  <2>2. CASE queue'[q].store = Append(queue[q].store, NewEntry(q))
    <3>1. queue[q].store \in Seq(Entry)
      BY <1>1 DEF QueueType
    <3> QED
      BY <1>1, <2>2, <3>1, AppendFacts
  <2> QED
    BY <2>1, <2>2
<1>4. {queue'[q].current[i] : i \in DOMAIN queue'[q].current}
        \subseteq {queue[q].current[i] : i \in DOMAIN queue[q].current}
  <2>1. CASE queue'[q].current = queue[q].current
    BY <2>1
  <2>2. CASE queue'[q].current = << >>
    BY <2>2
  <2> QED
    BY <2>1, <2>2
<1>5. Entries(q)' \subseteq Entries(q) \cup {NewEntry(q)}
  BY <1>3, <1>4 DEF Entries
<1>6. ~queue[q].thread => queue'[q].current = << >>
  BY DEF QueueInv
<1> QED
  BY <1>2, <1>5, <1>6 DEF Follows

LEMMA SameFollows ==
  ASSUME TypeOK, NEW q \in Queues, QueueInv(q), queue'[q] = queue[q]
  PROVE  Follows(q)
  BY FollowsFrom

(* A call of the attemper's sink, after an event was taken or not. *)
LEMMA SinkCallsFacts ==
  ASSUME IInv, NEW after, SinkCalls(after),
         after = queue \/ after = [queue EXCEPT !["attemper"].current = << >>]
  PROVE  /\ queue' \in [Queues -> QueueType]
         /\ \A q \in Queues : Follows(q)
         /\ timers' \subseteq Timers
         /\ counting' \in BOOLEAN
         /\ added' \in Nat
         /\ CountdownRuns'
<1>1. TypeOK /\ queue \in [Queues -> QueueType]
      /\ "attemper" \in Queues /\ "database" \in Queues
      /\ Queues = {"attemper", "database"}
      /\ QueueInv("attemper") /\ QueueInv("database")
  BY DEF IInv, TypeOK, QueueType, Queues
<1>2. /\ after \in [Queues -> QueueType]
      /\ after["database"] = queue["database"]
      /\ after["attemper"].port = queue["attemper"].port
      /\ after["attemper"].thread = queue["attemper"].thread
      /\ after["attemper"].quit = queue["attemper"].quit
      /\ after["attemper"].data = queue["attemper"].data
      /\ after["attemper"].store = queue["attemper"].store
      /\ after["attemper"].current = queue["attemper"].current
           \/ after["attemper"].current = << >>
  <2>1. queue["attemper"] \in QueueType /\ << >> \in Seq(Entry)
    BY <1>1
  <2>2. [queue["attemper"] EXCEPT !.current = << >>] \in QueueType
    BY <2>1 DEF QueueType
  <2>3. CASE after = queue
    BY <1>1, <2>3
  <2>4. CASE after = [queue EXCEPT !["attemper"].current = << >>]
    <3>1. after = [queue EXCEPT !["attemper"] = [queue["attemper"] EXCEPT !.current = << >>]]
      BY <2>4
    <3>2. /\ after \in [Queues -> QueueType]
          /\ after["database"] = queue["database"]
          /\ after["attemper"] = [queue["attemper"] EXCEPT !.current = << >>]
      BY <1>1, <2>2, <3>1
    <3> QED
      BY <2>1, <3>2 DEF QueueType
  <2> QED
    BY <2>3, <2>4
<1>3. timers' \subseteq Timers /\ counting' \in BOOLEAN /\ added' \in Nat /\ CountdownRuns'
  <2>1. timers \subseteq Timers /\ counting \in BOOLEAN /\ added \in Nat /\ CountdownRuns
    BY DEF IInv, TypeOK, TimersInv
  <2>2. ASSUME NEW t \in Timers, SetTimer(t) \/ KillTimer(t), added' = added
        PROVE  timers' \subseteq Timers /\ counting' \in BOOLEAN /\ added' \in Nat
               /\ CountdownRuns'
    BY <2>1, <2>2 DEF SetTimer, KillTimer, CountdownRuns
  <2>3. CASE timers' = timers /\ counting' = counting /\ (added' = added \/ added' = added + 1)
    BY <2>1, <2>3 DEF CountdownRuns
  <2> QED
    BY <2>2, <2>3 DEF SinkCalls
<1>4. CASE queue' = after
  <2>1. queue'["attemper"] = after["attemper"] /\ queue'["database"] = queue["database"]
    BY <1>2, <1>4
  <2>2. Follows("attemper") /\ Follows("database")
    BY <1>1, <1>2, <2>1, FollowsFrom, SameFollows
  <2> QED
    BY <1>1, <1>2, <1>3, <1>4, <2>2
<1>5. CASE queue' = [after EXCEPT !["database"] = WithEntry("database")["database"]]
  <2>1. queue["database"].data <= Len(queue["database"].store)
    BY <1>1 DEF QueueInv
  <2>2. queue'["attemper"] = after["attemper"]
        /\ queue'["database"] = WithEntry("database")["database"]
    BY <1>1, <1>2, <1>5
  <2>3. Follows("attemper")
    BY <1>1, <1>2, <2>2, FollowsFrom
  <2>4. Follows("database")
    BY <1>1, <2>1, <2>2, WithEntryFacts, FollowsFrom
  <2>5. queue' \in [Queues -> QueueType]
    BY <1>1, <1>2, <1>5, <2>1, WithEntryFacts
  <2> QED
    BY <1>1, <1>3, <2>3, <2>4, <2>5
<1> QED
  BY <1>3, <1>4, <1>5 DEF SinkCalls

(* Steps of the threads keep the invariant. *)
LEMMA ThreadsKeep ==
  ASSUME IInv, TypeOK',
         UNCHANGED <<bService, control, flags, live, sinkUp, service>>,
         \A q \in Queues : Follows(q),
         NoRequests =>
           queue'["database"].store = << >> /\ queue'["database"].current = << >>,
         TimersInv'
  PROVE  IInv'
<1>1. \A q \in Queues : /\ queue'[q].port = queue[q].port
                        /\ queue'[q].thread = queue[q].thread
                        /\ queue'[q].quit = queue[q].quit
  BY DEF Follows
<1>2. "attemper" \in Queues /\ "database" \in Queues
  BY DEF Queues
<1>3. \A e : Down(e)' <=> Down(e)
  BY <1>1 DEF Down
<1>4. /\ \A i : Before(i)' <=> Before(i)
      /\ \A i : After(i)' <=> After(i)
      /\ Resting' <=> Resting
      /\ NoRequests' <=> NoRequests
      /\ \A e, s : Starting(e, s)' <=> Starting(e, s)
      /\ \A e, s : Stopping(e, s)' <=> Stopping(e, s)
  BY DEF Before, After, Resting, NoRequests, Starting, Stopping
<1>5. DownInv'
  BY <1>3, <1>4 DEF IInv, DownInv
<1>6. ControlInv'
  BY <1>1, <1>2, <1>4 DEF IInv, ControlInv
<1>7. \A q \in Queues : QueueInv(q)'
  <2> SUFFICES ASSUME NEW q \in Queues PROVE QueueInv(q)'
    OBVIOUS
  <2>1. Follows(q) /\ QueueInv(q)
    BY DEF IInv
  <2> QED
    BY <1>1, <1>4, <2>1 DEF QueueInv, Follows
<1>8. AttemperHasItsEngines'
  BY <1>1, <1>2 DEF IInv, AttemperHasItsEngines
<1>9. EventsInv'
  BY <1>1, <1>2 DEF IInv, EventsInv, Follows, NewEntry
<1>10. RequestsInv'
  BY <1>1, <1>2, <1>4 DEF IInv, RequestsInv, Follows, NewEntry
<1> QED
  BY <1>5, <1>6, <1>7, <1>8, <1>9, <1>10 DEF IInv
-----------------------------------------------------------------------------
(* The threads. *)

LEMMA TwoQueues == Queues = {"attemper", "database"}
  BY DEF Queues

(* While the attemper's thread lives, the service is up to there. *)
LEMMA AttemperAlive ==
  ASSUME IInv, queue["attemper"].thread
  PROVE  ~NoRequests /\ ~Resting /\ ~Before(2) /\ ~After(3)
<1>1. ~Down("attemper")
  BY TwoQueues DEF Down
<1>2. control.at \in 1 .. 5
  BY DEF IInv, TypeOK
<1>3. ~Resting /\ ~Before(4) /\ ~After(1)
  BY <1>1 DEF IInv, DownInv
<1> QED
  BY <1>2, <1>3 DEF NoRequests, Before, After

LEMMA TypeFollows ==
  ASSUME TypeOK, queue' \in [Queues -> QueueType], timers' \subseteq Timers,
         counting' \in BOOLEAN, checked' \subseteq Controllers \cup {Worker}, added' \in Nat,
         UNCHANGED <<bService, control, flags, live, sinkUp, service>>
  PROVE  TypeOK'
  BY DEF TypeOK, QueueType

LEMMA AttemperEventInv ==
  ASSUME IInv, AttemperEvent
  PROVE  IInv'
<1>1. queue["attemper"].thread
  BY TwoQueues DEF AttemperEvent, IInv, QueueInv
<1>2. /\ queue' \in [Queues -> QueueType]
      /\ \A q \in Queues : Follows(q)
      /\ timers' \subseteq Timers /\ counting' \in BOOLEAN /\ added' \in Nat
      /\ CountdownRuns'
  BY SinkCallsFacts DEF AttemperEvent
<1>3. UNCHANGED <<bService, control, flags, live, sinkUp, checked, service>>
  BY DEF AttemperEvent
<1>4. TypeOK'
  BY <1>2, <1>3, TypeFollows DEF IInv, TypeOK
<1>5. ~NoRequests /\ ~Resting' /\ ~Before(2)' /\ ~After(3)'
  BY <1>1, <1>3, AttemperAlive DEF Resting, Before, After
<1>6. TimersInv'
  BY <1>2, <1>5 DEF TimersInv
<1> QED
  BY <1>2, <1>3, <1>4, <1>5, <1>6, ThreadsKeep

(* Something is added to the attemper's queue. *)
LEMMA AddEventFacts ==
  ASSUME IInv, queue' = WithEntry("attemper")
  PROVE  /\ queue' \in [Queues -> QueueType]
         /\ \A q \in Queues : Follows(q)
         /\ queue'["database"] = queue["database"]
<1>1. QueueInv("attemper") /\ QueueInv("database") /\ TypeOK
  BY TwoQueues DEF IInv
<1>2. queue["attemper"].data <= Len(queue["attemper"].store)
  BY <1>1 DEF QueueInv
<1>3. /\ queue' \in [Queues -> QueueType]
      /\ queue'["database"] = queue["database"]
      /\ queue'["attemper"].port = queue["attemper"].port
      /\ queue'["attemper"].thread = queue["attemper"].thread
      /\ queue'["attemper"].quit = queue["attemper"].quit
      /\ queue'["attemper"].current = queue["attemper"].current
      /\ queue'["attemper"].data <= Len(queue'["attemper"].store)
      /\ queue'["attemper"].store = Append(queue["attemper"].store, NewEntry("attemper"))
  BY <1>1, <1>2, WithEntryFacts, TwoQueues
<1>4. Follows("attemper")
  BY <1>1, <1>3, FollowsFrom, TwoQueues
<1>5. Follows("database")
  BY <1>1, <1>3, SameFollows, TwoQueues
<1> QED
  BY <1>3, <1>4, <1>5, TwoQueues

LEMMA TimerThreadInv ==
  ASSUME IInv, OnTimerThreadSink
  PROVE  IInv'
<1>1. /\ UNCHANGED <<bService, control, flags, live, sinkUp, checked, service>>
      /\ queue' = WithEntry("attemper") /\ added' = added + 1
  BY DEF OnTimerThreadSink
<1>2. PICK t \in timers : timers' = timers \/ timers' = timers \ {t}
  BY DEF OnTimerThreadSink
<1>3. counting' = (timers' # {})
  BY DEF OnTimerThreadSink
<1>4. timers' \subseteq Timers /\ counting' \in BOOLEAN /\ added' \in Nat
  BY <1>1, <1>2, <1>3 DEF IInv, TypeOK
<1>5. TypeOK'
  BY <1>1, <1>4, AddEventFacts, TypeFollows DEF IInv, TypeOK
<1>6. TimersInv'
  BY <1>1, <1>2, <1>3 DEF IInv, TimersInv, CountdownRuns, Resting, Before, After
<1>7. NoRequests =>
        queue'["database"].store = << >> /\ queue'["database"].current = << >>
  BY <1>1, AddEventFacts DEF IInv, RequestsInv
<1> QED
  BY <1>1, <1>5, <1>6, <1>7, AddEventFacts, ThreadsKeep

LEMMA PostEventInv ==
  ASSUME IInv, NEW c \in Controllers \cup {Worker}, PostEvent(c)
  PROVE  IInv'
<1>1. /\ UNCHANGED <<bService, control, flags, live, sinkUp, timers, counting, service>>
      /\ queue' = WithEntry("attemper") /\ added' = added + 1 /\ checked' = checked \ {c}
  BY DEF PostEvent
<1>2. TypeOK'
  BY <1>1, AddEventFacts, TypeFollows DEF IInv, TypeOK
<1>3. TimersInv'
  BY <1>1 DEF IInv, TimersInv, CountdownRuns, Resting, Before, After
<1>4. NoRequests =>
        queue'["database"].store = << >> /\ queue'["database"].current = << >>
  BY <1>1, AddEventFacts DEF IInv, RequestsInv
<1> QED
  BY <1>1, <1>2, <1>3, <1>4, AddEventFacts, ThreadsKeep

LEMMA CheckServiceInv ==
  ASSUME IInv, NEW c \in Controllers \cup {Worker}, CheckService(c)
  PROVE  IInv'
<1>1. /\ UNCHANGED <<bService, control, flags, live, sinkUp, queue, timers, counting,
                     service, added>>
      /\ checked' = checked \cup {c}
  BY DEF CheckService
<1>2. TypeOK' /\ \A q \in Queues : Follows(q)
  BY <1>1, SameFollows DEF IInv, TypeOK
<1>3. TimersInv'
  BY <1>1 DEF IInv, TimersInv, CountdownRuns, Resting, Before, After
<1>4. NoRequests =>
        queue'["database"].store = << >> /\ queue'["database"].current = << >>
  BY <1>1 DEF IInv, RequestsInv
<1> QED
  BY <1>1, <1>2, <1>3, <1>4, ThreadsKeep

LEMMA TakenFields ==
  ASSUME NEW r \in QueueType, NEW n, n = [r EXCEPT !.current = << >>]
  PROVE  /\ n.port = r.port /\ n.thread = r.thread /\ n.quit = r.quit
         /\ n.store = r.store /\ n.data = r.data /\ n.current = << >>
  BY DEF QueueType

(* A request leaves the data base engine, with or without an answer. *)
LEMMA DataBaseRequestInv ==
  ASSUME IInv, DataBaseRequest
  PROVE  IInv'
<1>1. UNCHANGED <<bService, control, flags, live, sinkUp, timers, counting, checked, service>>
  BY DEF DataBaseRequest
<1>2. ~NoRequests
  BY DEF DataBaseRequest, IInv, RequestsInv
<1>3. TimersInv'
  BY <1>1 DEF IInv, TimersInv, CountdownRuns, Resting, Before, After
<1>4. /\ QueueInv("attemper") /\ QueueInv("database")
      /\ TypeOK /\ queue \in [Queues -> QueueType] /\ queue["database"] \in QueueType
  BY TwoQueues DEF IInv, TypeOK, QueueType
<1> DEFINE w == IF added' = added THEN queue ELSE WithEntry("attemper")
<1>5. /\ w \in [Queues -> QueueType]
      /\ \/ w = queue /\ added' = added
         \/ w = WithEntry("attemper") /\ added' = added + 1
      /\ queue' = [w EXCEPT !["database"].current = << >>]
  <2>1. queue["attemper"].data <= Len(queue["attemper"].store)
    BY <1>4 DEF QueueInv
  <2>2. WithEntry("attemper") \in [Queues -> QueueType]
    BY <1>4, <2>1, WithEntryFacts, TwoQueues
  <2>3. added \in Nat /\ added + 1 # added
    BY DEF IInv, TypeOK
  <2>4. CASE queue' = [queue EXCEPT !["database"].current = << >>] /\ added' = added
    <3>1. w = queue
      BY <2>4
    <3> QED
      BY <1>4, <2>4, <3>1
  <2>5. CASE /\ added' = added + 1
             /\ queue' = [WithEntry("attemper") EXCEPT !["database"].current = << >>]
    <3>1. w = WithEntry("attemper")
      BY <2>3, <2>5
    <3> QED
      BY <2>2, <2>5, <3>1
  <2> QED
    BY <2>4, <2>5 DEF DataBaseRequest
<1> HIDE DEF w
<1>6. /\ w["database"] = queue["database"]
      /\ w["attemper"] = queue["attemper"]
           \/ /\ w["attemper"].port = queue["attemper"].port
              /\ w["attemper"].thread = queue["attemper"].thread
              /\ w["attemper"].quit = queue["attemper"].quit
              /\ w["attemper"].current = queue["attemper"].current
              /\ w["attemper"].data <= Len(w["attemper"].store)
              /\ w["attemper"].store
                   = Append(queue["attemper"].store, NewEntry("attemper"))
  <2>1. queue["attemper"].data <= Len(queue["attemper"].store)
    BY <1>4 DEF QueueInv
  <2> QED
    BY <1>4, <1>5, <2>1, WithEntryFacts, TwoQueues
<1>7. /\ queue' = [w EXCEPT !["database"] = [queue["database"] EXCEPT !.current = << >>]]
      /\ queue'["attemper"] = w["attemper"]
      /\ queue'["database"] = [queue["database"] EXCEPT !.current = << >>]
  BY <1>5, <1>6, TwoQueues
<1>8. [queue["database"] EXCEPT !.current = << >>] \in QueueType
  <2>1. << >> \in Seq(Entry)
    OBVIOUS
  <2> QED
    BY <1>4, <2>1 DEF QueueType
<1>9. queue' \in [Queues -> QueueType]
  BY <1>5, <1>7, <1>8, TwoQueues
<1>10. Follows("attemper")
  BY <1>4, <1>6, <1>7, FollowsFrom, TwoQueues
<1>11. Follows("database")
  <2>1. /\ queue'["database"].port = queue["database"].port
        /\ queue'["database"].thread = queue["database"].thread
        /\ queue'["database"].quit = queue["database"].quit
        /\ queue'["database"].store = queue["database"].store
        /\ queue'["database"].data = queue["database"].data
        /\ queue'["database"].current = << >>
    BY <1>4, <1>7, TakenFields
  <2> QED
    BY <1>4, <2>1, FollowsFrom, TwoQueues
<1>12. TypeOK'
  BY <1>1, <1>5, <1>9, TypeFollows DEF IInv, TypeOK
<1> QED
  BY <1>1, <1>2, <1>3, <1>10, <1>11, <1>12, ThreadsKeep, TwoQueues

LEMMA FrontFacts ==
  ASSUME NEW s \in Seq(Entry), s # << >>
  PROVE  /\ SubSeq(s, 1, 1) \in Seq(Entry) /\ SubSeq(s, 2, Len(s)) \in Seq(Entry)
         /\ Len(SubSeq(s, 2, Len(s))) = Len(s) - 1
         /\ {SubSeq(s, 1, 1)[i] : i \in DOMAIN SubSeq(s, 1, 1)} \subseteq {s[i] : i \in DOMAIN s}
         /\ {SubSeq(s, 2, Len(s))[i] : i \in DOMAIN SubSeq(s, 2, Len(s))}
              \subseteq {s[i] : i \in DOMAIN s}
<1>1. Len(s) \in Nat /\ Len(s) >= 1
  OBVIOUS
<1>2. SubSeq(s, 1, 1) \in Seq(Entry) /\ SubSeq(s, 2, Len(s)) \in Seq(Entry)
  BY <1>1, SubSeqProperties
<1>3. Len(SubSeq(s, 1, 1)) = 1 /\ Len(SubSeq(s, 2, Len(s))) = Len(s) - 1
  <2>1. \A i \in 1 .. Len(s) : s[i] \in Entry
    OBVIOUS
  <2>2. Len(SubSeq(s, 1, 1)) = IF 1 <= 1 THEN 1 - 1 + 1 ELSE 0
    <3>1. \A i \in 1 .. 1 : s[i] \in Entry
      BY <1>1, <2>1
    <3> QED
      BY <3>1, SubSeqProperties
  <2>3. Len(SubSeq(s, 2, Len(s))) = IF 2 <= Len(s) THEN Len(s) - 2 + 1 ELSE 0
    <3>1. \A i \in 2 .. Len(s) : s[i] \in Entry
      BY <1>1, <2>1
    <3> QED
      BY <1>1, <3>1, SubSeqProperties
  <2> QED
    BY <1>1, <2>2, <2>3
<1>4. \A i \in 1 .. 1 : SubSeq(s, 1, 1)[i] = s[i]
  BY <1>1, <1>3, SubSeqProperties
<1>5. \A i \in 1 .. Len(s) - 1 : SubSeq(s, 2, Len(s))[i] = s[i + 1]
  BY <1>1, <1>3, SubSeqProperties
<1>6. DOMAIN SubSeq(s, 1, 1) = 1 .. 1 /\ DOMAIN SubSeq(s, 2, Len(s)) = 1 .. Len(s) - 1
      /\ DOMAIN s = 1 .. Len(s)
  BY <1>1, <1>2, <1>3
<1>7. \A i \in 1 .. Len(s) - 1 : i + 1 \in 1 .. Len(s)
  BY <1>1
<1> QED
  BY <1>1, <1>2, <1>3, <1>4, <1>5, <1>6, <1>7

LEMMA GetDataInv ==
  ASSUME IInv, NEW q \in Queues, GetData(q)
  PROVE  IInv'
<1> DEFINE r == queue[q]
<1>1. /\ UNCHANGED <<bService, control, flags, live, sinkUp, timers, counting, checked,
                     service, added>>
      /\ r.thread /\ r.data > 0
      /\ queue' = [queue EXCEPT ![q] = [r EXCEPT !.data = r.data - 1,
                                                 !.current = SubSeq(r.store, 1, 1),
                                                 !.store = SubSeq(r.store, 2, Len(r.store))]]
  BY DEF GetData
<1>2. queue \in [Queues -> QueueType] /\ r \in QueueType /\ r.data <= Len(r.store)
      /\ TypeOK /\ \A p \in Queues : QueueInv(p)
  BY DEF IInv, TypeOK, QueueType, QueueInv
<1>3. r.store \in Seq(Entry) /\ r.store # << >> /\ r.data \in Nat /\ Len(r.store) \in Nat
  BY <1>1, <1>2 DEF QueueType
<1> DEFINE n == [r EXCEPT !.data = r.data - 1,
                          !.current = SubSeq(r.store, 1, 1),
                          !.store = SubSeq(r.store, 2, Len(r.store))]
<1>4. /\ n.port = r.port /\ n.thread = r.thread /\ n.quit = r.quit
      /\ n.data = r.data - 1 /\ n.current = SubSeq(r.store, 1, 1)
      /\ n.store = SubSeq(r.store, 2, Len(r.store))
  BY <1>2 DEF QueueType
<1>5. n.data \in Nat /\ n.data <= Len(n.store)
  BY <1>1, <1>2, <1>3, <1>4, FrontFacts
<1>6. n \in QueueType
  BY <1>2, <1>3, <1>5, FrontFacts DEF QueueType
<1>7. queue'[q] = n /\ \A p \in Queues \ {q} : queue'[p] = queue[p]
  BY <1>1, <1>2
<1>8. queue' \in [Queues -> QueueType]
  BY <1>1, <1>2, <1>6
<1> HIDE DEF n
<1>9. Follows(q)
  <2>1. /\ {n.current[i] : i \in DOMAIN n.current} \subseteq {r.store[i] : i \in DOMAIN r.store}
        /\ {n.store[i] : i \in DOMAIN n.store} \subseteq {r.store[i] : i \in DOMAIN r.store}
    BY <1>3, <1>4, FrontFacts
  <2>2. Entries(q)' \subseteq Entries(q)
    BY <1>7, <2>1 DEF Entries
  <2> QED
    BY <1>1, <1>4, <1>5, <1>7, <2>2 DEF Follows
<1>10. \A p \in Queues : Follows(p)
  BY <1>2, <1>7, <1>9, SameFollows
<1>11. TypeOK'
  BY <1>1, <1>2, <1>8, TypeFollows DEF TypeOK
<1>12. TimersInv'
  BY <1>1 DEF IInv, TimersInv, CountdownRuns, Resting, Before, After
<1>13. NoRequests =>
        queue'["database"].store = << >> /\ queue'["database"].current = << >>
  <2>1. CASE q = "database"
    BY <1>3, <2>1 DEF IInv, RequestsInv
  <2>2. CASE q # "database"
    BY <1>7, <2>2, TwoQueues DEF IInv, RequestsInv
  <2> QED
    BY <2>1, <2>2
<1> QED
  BY <1>1, <1>10, <1>11, <1>12, <1>13, ThreadsKeep

(* The thread ends when its engine is being stopped. *)
LEMMA GetQuitInv ==
  ASSUME IInv, NEW q \in Queues, GetQuit(q)
  PROVE  IInv'
<1>1. /\ UNCHANGED <<bService, control, flags, live, sinkUp, timers, counting, checked,
                     service, added>>
      /\ queue[q].quit /\ queue[q].current = << >>
      /\ queue' = [queue EXCEPT ![q].thread = FALSE]
  BY DEF GetQuit
<1>2. queue \in [Queues -> QueueType] /\ queue[q] \in QueueType
  BY DEF IInv, TypeOK, QueueType
<1>3. Stopping(q, 2) /\ control.op = "stop" /\ control.step = 2 /\ control.at \in 1 .. 5
      /\ StopOrder[control.at] = q
  BY <1>1 DEF IInv, QueueInv, Stopping, TypeOK
<1>4. (q = "attemper" => control.at = 1) /\ (q = "database" => control.at = 2)
  BY <1>3 DEF StopOrder
<1>5. /\ queue'[q] = [queue[q] EXCEPT !.thread = FALSE]
      /\ \A p \in Queues \ {q} : queue'[p] = queue[p]
  BY <1>1, <1>2
<1>6. /\ queue'[q].port = queue[q].port /\ ~queue'[q].thread /\ queue'[q].quit = queue[q].quit
      /\ queue'[q].data = queue[q].data /\ queue'[q].store = queue[q].store
      /\ queue'[q].current = queue[q].current
      /\ queue'[q] \in QueueType
  BY <1>2, <1>5 DEF QueueType
<1>7. queue' \in [Queues -> QueueType]
  BY <1>1, <1>2, <1>5, <1>6
<1>8. TypeOK'
  BY <1>1, <1>7, TypeFollows DEF IInv, TypeOK
<1>9. /\ \A i : Before(i)' <=> Before(i)
      /\ \A i : After(i)' <=> After(i)
      /\ Resting' <=> Resting
      /\ NoRequests' <=> NoRequests
      /\ \A e, s : Starting(e, s)' <=> Starting(e, s)
      /\ \A e, s : Stopping(e, s)' <=> Stopping(e, s)
  BY <1>1 DEF Before, After, Resting, NoRequests, Starting, Stopping
<1>10. \A e : Down(e) => Down(e)'
  BY <1>1, <1>5, <1>6 DEF Down
<1>11. DownInv'
  BY <1>9, <1>10 DEF IInv, DownInv
<1>12. ControlInv'
  BY <1>1, <1>3, <1>9 DEF IInv, ControlInv
<1>13. \A p \in Queues : QueueInv(p)'
  <2> SUFFICES ASSUME NEW p \in Queues PROVE QueueInv(p)'
    OBVIOUS
  <2>1. QueueInv(p)
    BY DEF IInv
  <2>2. CASE p = q
    BY <1>1, <1>3, <1>6, <1>9, <2>1, <2>2 DEF QueueInv, Starting, Stopping
  <2>3. CASE p # q
    BY <1>1, <1>5, <1>9, <2>1, <2>3 DEF QueueInv
  <2> QED
    BY <2>2, <2>3
<1>14. AttemperHasItsEngines'
  <2>1. CASE q = "attemper"
    BY <1>6, <2>1 DEF AttemperHasItsEngines
  <2>2. CASE q = "database"
    <3>1. After(1)
      BY <1>3, <1>4, <2>2 DEF After
    <3>2. ~queue["attemper"].thread
      BY <3>1, TwoQueues DEF IInv, DownInv, Down
    <3> QED
      BY <1>5, <2>2, <3>2, TwoQueues DEF AttemperHasItsEngines
  <2> QED
    BY <2>1, <2>2, TwoQueues
<1>15. \A p \in Queues : Entries(p)' = Entries(p) /\ queue'[p].port = queue[p].port
                         /\ queue'[p].store = queue[p].store
                         /\ queue'[p].current = queue[p].current
  <2>1. \A p \in Queues : /\ queue'[p].port = queue[p].port
                          /\ queue'[p].store = queue[p].store
                          /\ queue'[p].current = queue[p].current
    BY <1>5, <1>6
  <2> QED
    BY <2>1 DEF Entries
<1>16. EventsInv' /\ RequestsInv'
  BY <1>1, <1>9, <1>15, TwoQueues DEF IInv, EventsInv, RequestsInv
<1>17. TimersInv'
  BY <1>1, <1>9 DEF IInv, TimersInv, CountdownRuns
<1> QED
  BY <1>8, <1>11, <1>12, <1>13, <1>14, <1>16, <1>17 DEF IInv
-----------------------------------------------------------------------------
(* StartService and StopService. *)

LEMMA Orders ==
  /\ \A i \in 1 .. 5 :
       /\ StartOrder[i] = "timer" <=> i = 1
       /\ StartOrder[i] = "database" <=> i = 2
       /\ StartOrder[i] = "asynchronism" <=> i = 3
       /\ StartOrder[i] = "attemper" <=> i = 4
       /\ StartOrder[i] = "socket" <=> i = 5
       /\ StopOrder[i] = "attemper" <=> i = 1
       /\ StopOrder[i] = "database" <=> i = 2
       /\ StopOrder[i] = "timer" <=> i = 3
       /\ StopOrder[i] = "socket" <=> i = 4
       /\ StopOrder[i] = "asynchronism" <=> i = 5
  /\ Idle.op = "idle" /\ Idle.at = 1 /\ Idle.step = 1
<1>1. \A i \in 1 .. 5 : i = 1 \/ i = 2 \/ i = 3 \/ i = 4 \/ i = 5
  OBVIOUS
<1> QED
  BY <1>1 DEF StartOrder, StopOrder, Idle

ControlType == [op : {"idle", "start", "stop"}, at : 1 .. 5, step : 1 .. 3]

LEMMA TypeStep ==
  ASSUME control' \in ControlType, bService' \in BOOLEAN, flags' \subseteq Engines,
         live' \subseteq Engines \ Queues, sinkUp' \subseteq Queues,
         queue' \in [Queues -> QueueType], timers' \subseteq Timers, counting' \in BOOLEAN,
         checked' \subseteq Controllers \cup {Worker}, service' \in Nat, added' \in Nat
  PROVE  TypeOK'
  BY DEF TypeOK, ControlType, QueueType

LEMMA TypeParts ==
  ASSUME TypeOK
  PROVE  /\ control \in ControlType /\ bService \in BOOLEAN /\ flags \subseteq Engines
         /\ live \subseteq Engines \ Queues /\ sinkUp \subseteq Queues
         /\ queue \in [Queues -> QueueType] /\ timers \subseteq Timers
         /\ counting \in BOOLEAN /\ checked \subseteq Controllers \cup {Worker}
         /\ service \in Nat /\ added \in Nat
  BY DEF TypeOK, ControlType, QueueType

LEMMA ControlStep ==
  ASSUME TypeOK', DownInv', ControlInv', \A q \in Queues : QueueInv(q)',
         AttemperHasItsEngines', EventsInv', RequestsInv', TimersInv'
  PROVE  IInv'
  BY DEF IInv

LEMMA NextStepFacts ==
  ASSUME TypeOK, NextStep, control.step # 3
  PROVE  /\ control' \in ControlType
         /\ control'.op = control.op /\ control'.at = control.at
         /\ control'.step = control.step + 1
<1>1. control \in ControlType /\ control.step \in 1 .. 2
  BY DEF TypeOK, ControlType
<1> QED
  BY <1>1 DEF NextStep, ControlType

LEMMA NextEngineFacts ==
  ASSUME TypeOK, NextEngine
  PROVE  /\ control' \in ControlType
         /\ IF control.at = 5 THEN control' = Idle /\ bService'
            ELSE /\ control'.op = control.op /\ control'.at = control.at + 1
                 /\ control'.step = 1 /\ bService' = bService
<1>1. control \in ControlType
  BY DEF TypeOK, ControlType
<1>2. Idle \in ControlType
  BY DEF Idle, ControlType
<1>3. CASE control.at = 5
  BY <1>2, <1>3 DEF NextEngine
<1>4. CASE control.at # 5
  <2>1. control.at + 1 \in 1 .. 5 /\ 1 \in 1 .. 3
    BY <1>1, <1>4 DEF ControlType
  <2> QED
    BY <1>1, <1>4, <2>1 DEF NextEngine, ControlType
<1> QED
  BY <1>3, <1>4

LEMMA EngineStoppedFacts ==
  ASSUME TypeOK, EngineStopped
  PROVE  /\ control' \in ControlType
         /\ IF control.at = 5 THEN control' = Idle
            ELSE /\ control'.op = control.op /\ control'.at = control.at + 1
                 /\ control'.step = 1
<1>1. control \in ControlType
  BY DEF TypeOK, ControlType
<1>2. Idle \in ControlType
  BY DEF Idle, ControlType
<1>3. CASE control.at = 5
  BY <1>2, <1>3 DEF EngineStopped
<1>4. CASE control.at # 5
  <2>1. control.at + 1 \in 1 .. 5 /\ 1 \in 1 .. 3
    BY <1>1, <1>4 DEF ControlType
  <2> QED
    BY <1>1, <1>4, <2>1 DEF EngineStopped, ControlType
<1> QED
  BY <1>3, <1>4

LEMMA StartTimerInv ==
  ASSUME IInv, StartTimer
  PROVE  IInv'
<1>1. /\ UNCHANGED <<sinkUp, queue, timers, checked, service, added>> /\ ~counting'
      /\ control.op = "start" /\ control.at = 1 /\ control.step = 1
      /\ control \in ControlType
  BY Orders DEF StartTimer, Starting, IInv, TypeOK, ControlType
<1>2. \/ /\ control' = Idle /\ UNCHANGED <<bService, live, flags>>
      \/ /\ flags' = flags \cup {"timer"} /\ live' = live \cup {"timer"} /\ bService' = bService
         /\ control'.op = "start" /\ control'.at = 2 /\ control'.step = 1
  BY <1>1, NextEngineFacts DEF StartTimer, IInv
<1>3. control' \in ControlType /\ Idle \in ControlType
  <2>1. Idle \in ControlType
    BY DEF Idle, ControlType
  <2> QED
    BY <1>1, <2>1, NextEngineFacts DEF StartTimer, IInv
<1>4. "timer" \notin flags /\ ~bService
  BY <1>1, Orders DEF IInv, DownInv, Before, Down, ControlInv
<1>5. TypeOK'
  <2>1. counting' \in BOOLEAN
    BY DEF StartTimer
  <2>2. {"timer"} \subseteq Engines \ Queues
    BY DEF Engines, Queues
  <2> QED
    BY <1>1, <1>2, <1>3, <2>1, <2>2, TypeParts, TypeStep DEF IInv
<1>6. DownInv'
  BY <1>1, <1>2, <1>3, Orders DEF IInv, DownInv, Down, Before, After, Resting, Queues
<1>7. ControlInv'
  BY <1>1, <1>2, <1>3, <1>4, Orders DEF IInv, ControlInv, Stopping
<1>8. \A q \in Queues : QueueInv(q)'
  BY <1>1, <1>2, <1>3, Orders DEF IInv, QueueInv, Starting, Stopping, Queues, Down, DownInv, Before, ControlType
<1>9. AttemperHasItsEngines'
  BY <1>1, <1>2 DEF IInv, AttemperHasItsEngines
<1>10. EventsInv'
  BY <1>1 DEF IInv, EventsInv, Entries
<1>11. RequestsInv'
  BY <1>1, <1>2, Orders DEF IInv, RequestsInv, Entries, NoRequests, Resting, Before, After
<1>12. TimersInv'
  BY <1>1, <1>2, Orders DEF IInv, TimersInv, CountdownRuns, Resting, Before, After
<1> QED
  BY <1>5, <1>6, <1>7, <1>8, <1>9, <1>10, <1>11, <1>12, ControlStep

LEMMA IdleType == Idle \in ControlType
  BY DEF Idle, ControlType

LEMMA StartAsynchronismInv ==
  ASSUME IInv, StartAsynchronism
  PROVE  IInv'
<1>1. /\ UNCHANGED <<sinkUp, queue, timers, counting, checked, service, added>>
      /\ control.op = "start" /\ control.at = 3 /\ control.step = 1
      /\ control \in ControlType
  BY Orders DEF StartAsynchronism, Starting, IInv, TypeOK, ControlType
<1>2. \/ /\ control' = Idle /\ UNCHANGED <<bService, live, flags>>
      \/ /\ flags' = flags \cup {"asynchronism"} /\ live' = live \cup {"asynchronism"}
         /\ bService' = bService
         /\ control'.op = "start" /\ control'.at = 4 /\ control'.step = 1
  BY <1>1, NextEngineFacts DEF StartAsynchronism, IInv
<1>3. control' \in ControlType
  BY <1>1, NextEngineFacts, IdleType DEF StartAsynchronism, IInv
<1>4. "timer" \in flags /\ ~bService
  BY <1>1, Orders DEF IInv, ControlInv
<1>5. TypeOK'
  <2>1. {"asynchronism"} \subseteq Engines \ Queues
    BY DEF Engines, Queues
  <2> QED
    BY <1>1, <1>2, <1>3, <2>1, TypeParts, TypeStep DEF IInv
<1>6. DownInv'
  BY <1>1, <1>2, <1>3, <1>4, Orders
     DEF IInv, DownInv, Down, Before, After, Resting, Queues
<1>7. ControlInv'
  BY <1>1, <1>2, <1>3, <1>4, Orders DEF IInv, ControlInv, Stopping
<1>8. \A q \in Queues : QueueInv(q)'
  BY <1>1, <1>2, <1>3, Orders
     DEF IInv, QueueInv, Starting, Stopping, Queues, Down, DownInv, Before, ControlType
<1>9. AttemperHasItsEngines'
  BY <1>1, <1>2 DEF IInv, AttemperHasItsEngines
<1>10. EventsInv'
  BY <1>1 DEF IInv, EventsInv, Entries
<1>11. RequestsInv'
  BY <1>1, <1>2, <1>4, Orders DEF IInv, RequestsInv, Entries, NoRequests, Resting, Before, After
<1>12. TimersInv'
  BY <1>1, <1>2, <1>4, Orders DEF IInv, TimersInv, CountdownRuns, Resting, Before, After
<1> QED
  BY <1>5, <1>6, <1>7, <1>8, <1>9, <1>10, <1>11, <1>12, ControlStep

LEMMA StartSocketInv ==
  ASSUME IInv, StartSocket
  PROVE  IInv'
<1>1. /\ UNCHANGED <<sinkUp, queue, timers, counting, checked, service, added>>
      /\ control.op = "start" /\ control.at = 5 /\ control.step \in {1, 2}
      /\ control \in ControlType
  BY Orders DEF StartSocket, Starting, IInv, TypeOK, ControlType
<1>2. "timer" \in flags /\ ~bService
  BY <1>1, Orders DEF IInv, ControlInv
<1>3. /\ control' \in ControlType
      /\ flags \subseteq flags' /\ flags' \subseteq flags \cup {"socket"}
      /\ live \subseteq live' /\ live' \subseteq live \cup {"socket"}
      /\ bService' \in BOOLEAN
      /\ \/ control' = Idle
         \/ /\ control'.op = "start" /\ control'.at = 5 /\ control'.step = 2 /\ ~bService'
  <2>1. CASE Starting("socket", 1)
    BY <1>1, <1>2, <2>1, NextStepFacts, IdleType, TypeParts DEF StartSocket, IInv, Starting
  <2>2. CASE Starting("socket", 2)
    <3>1. /\ UNCHANGED live
          /\ \/ flags' = flags \cup {"socket"} /\ NextEngine
             \/ control' = Idle /\ UNCHANGED <<bService, flags>>
      BY <1>1, <2>2 DEF StartSocket, Starting
    <3>2. CASE flags' = flags \cup {"socket"} /\ NextEngine
      <4>1. control' = Idle /\ bService' = TRUE
        BY <1>1, <3>2 DEF NextEngine
      <4> QED
        BY <3>1, <3>2, <4>1, IdleType
    <3>3. CASE control' = Idle /\ UNCHANGED <<bService, flags>>
      BY <1>2, <3>1, <3>3, IdleType, TypeParts DEF IInv
    <3> QED
      BY <3>1, <3>2, <3>3
  <2> QED
    BY <2>1, <2>2 DEF StartSocket
<1>4. "timer" \in flags' /\ Idle.op = "idle"
  BY <1>2, <1>3, Orders
<1>5. TypeOK'
  <2>1. {"socket"} \subseteq Engines \ Queues
    BY DEF Engines, Queues
  <2> QED
    BY <1>1, <1>3, <2>1, TypeParts, TypeStep DEF IInv
<1>6. DownInv'
  BY <1>1, <1>3, <1>4, Orders DEF IInv, DownInv, Down, Before, After, Resting, Queues
<1>7. ControlInv'
  BY <1>1, <1>3, <1>4, Orders DEF IInv, ControlInv, Stopping
<1>8. \A q \in Queues : QueueInv(q)'
  BY <1>1, <1>3, <1>4, Orders
     DEF IInv, QueueInv, Starting, Stopping, Queues, ControlType
<1>9. AttemperHasItsEngines'
  BY <1>1, <1>3 DEF IInv, AttemperHasItsEngines
<1>10. EventsInv'
  BY <1>1 DEF IInv, EventsInv, Entries
<1>11. RequestsInv'
  BY <1>1, <1>3, <1>4, Orders DEF IInv, RequestsInv, Entries, NoRequests, Resting, Before, After
<1>12. TimersInv'
  BY <1>1, <1>3, <1>4, Orders DEF IInv, TimersInv, CountdownRuns, Resting, Before, After
<1> QED
  BY <1>5, <1>6, <1>7, <1>8, <1>9, <1>10, <1>11, <1>12, ControlStep

LEMMA StartServiceInv ==
  ASSUME IInv, StartService
  PROVE  IInv'
<1>1. /\ UNCHANGED <<bService, flags, live, sinkUp, queue, timers, counting, checked, added>>
      /\ control = Idle /\ ~bService /\ "timer" \notin flags /\ service' = service + 1
      /\ Resting
  BY DEF StartService, Resting
<1>2. control'.op = "start" /\ control'.at = 1 /\ control'.step = 1 /\ control' \in ControlType
  BY IdleType DEF StartService, Idle, ControlType
<1>3. Down("timer") /\ Down("database") /\ Down("asynchronism") /\ Down("attemper")
      /\ Down("socket")
  BY <1>1 DEF IInv, DownInv
<1>4. \A q \in Queues : ~queue[q].port /\ ~queue[q].thread
  BY <1>3, TwoQueues DEF Down
<1>5. TypeOK'
  BY <1>1, <1>2, TypeParts, TypeStep DEF IInv
<1>6. DownInv'
  <2>1. \A e : Down(e)' <=> Down(e)
    BY <1>1 DEF Down
  <2> QED
    BY <1>3, <2>1 DEF DownInv
<1>7. ControlInv'
  BY <1>1, <1>2, Orders DEF IInv, ControlInv, Stopping
<1>8. \A q \in Queues : QueueInv(q)'
  <2>1. \A q \in Queues : ~queue[q].quit
    BY <1>1, Orders DEF IInv, QueueInv, Stopping
  <2> QED
    BY <1>1, <1>2, <1>4, <2>1, Orders DEF IInv, QueueInv, Starting, Stopping
<1>9. AttemperHasItsEngines'
  BY <1>1 DEF IInv, AttemperHasItsEngines
<1>10. EventsInv'
  BY <1>1, <1>4, TwoQueues DEF IInv, EventsInv, Entries
<1>11. RequestsInv'
  <2>1. queue["database"].store = << >> /\ queue["database"].current = << >>
    BY <1>1 DEF IInv, RequestsInv, NoRequests
  <2>2. Entries("database")' = {}
    BY <1>1, <2>1 DEF Entries
  <2> QED
    BY <1>1, <2>1, <2>2 DEF RequestsInv
<1>12. TimersInv'
  BY <1>1 DEF IInv, TimersInv, CountdownRuns
<1> QED
  BY <1>5, <1>6, <1>7, <1>8, <1>9, <1>10, <1>11, <1>12, ControlStep

LEMMA StopServiceInv ==
  ASSUME IInv, StopService
  PROVE  IInv'
<1>1. /\ UNCHANGED <<flags, live, sinkUp, queue, checked, service, added>>
      /\ control = Idle /\ ~bService' /\ timers' = {} /\ ~counting'
  BY DEF StopService
<1>2. control'.op = "stop" /\ control'.at = 1 /\ control'.step = 1 /\ control' \in ControlType
  BY IdleType DEF StopService, Idle, ControlType
<1>3. TypeOK'
  <2>1. counting' \in BOOLEAN /\ bService' \in BOOLEAN
    BY DEF StopService
  <2> QED
    BY <1>1, <1>2, <2>1, TypeParts, TypeStep DEF IInv
<1>4. DownInv'
  BY <1>1, <1>2, Orders DEF IInv, DownInv, Before, After, Resting
<1>5. ControlInv'
  BY <1>1, <1>2, Orders DEF IInv, ControlInv, Stopping
<1>6. \A q \in Queues : QueueInv(q)'
  BY <1>1, <1>2, Orders DEF IInv, QueueInv, Starting, Stopping
<1>7. AttemperHasItsEngines'
  BY <1>1 DEF IInv, AttemperHasItsEngines
<1>8. EventsInv'
  BY <1>1 DEF IInv, EventsInv, Entries
<1>9. RequestsInv'
  BY <1>1, <1>2, Orders DEF IInv, RequestsInv, Entries, NoRequests, Resting, Before, After
<1>10. TimersInv'
  BY <1>1 DEF IInv, TimersInv, CountdownRuns
<1> QED
  BY <1>3, <1>4, <1>5, <1>6, <1>7, <1>8, <1>9, <1>10, ControlStep

(* A queue that only its quit mark, port or thread is set in. *)
LEMMA QueueUpdate ==
  ASSUME TypeOK, NEW q \in Queues, NEW n \in QueueType, queue' = [queue EXCEPT ![q] = n]
  PROVE  /\ queue' \in [Queues -> QueueType]
         /\ queue'[q] = n
         /\ \A p \in Queues \ {q} : queue'[p] = queue[p]
  BY TypeParts

LEMMA StopEngineInv ==
  ASSUME IInv, NEW e \in Engines, StopEngine(e)
  PROVE  IInv'
<1>1. /\ UNCHANGED <<bService, live, sinkUp, timers, counting, checked, service, added>>
      /\ control.op = "stop" /\ control.step = 1 /\ StopOrder[control.at] = e
      /\ flags' = flags \ {e} /\ control \in ControlType
  BY TypeParts DEF StopEngine, Stopping, IInv
<1>2. /\ control' \in ControlType
      /\ control'.op = "stop" /\ control'.at = control.at /\ control'.step = 2
  BY <1>1, NextStepFacts DEF StopEngine, IInv
<1>3. control.at \in 1 .. 5
  BY <1>1 DEF ControlType
<1>4. /\ queue' \in [Queues -> QueueType]
      /\ \A q \in Queues :
           /\ queue'[q].port = queue[q].port /\ queue'[q].thread = queue[q].thread
           /\ queue'[q].data = queue[q].data /\ queue'[q].store = queue[q].store
           /\ queue'[q].current = queue[q].current
           /\ q # e => queue'[q].quit = queue[q].quit
  <2>1. CASE e \in Queues
    <3> DEFINE n == [queue[e] EXCEPT !.quit = queue[e].port]
    <3>1. queue[e] \in QueueType
      BY <2>1, TypeParts DEF IInv
    <3>2. /\ n \in QueueType /\ n.port = queue[e].port /\ n.thread = queue[e].thread
          /\ n.data = queue[e].data /\ n.store = queue[e].store
          /\ n.current = queue[e].current
      BY <3>1 DEF QueueType
    <3>3. queue' = [queue EXCEPT ![e] = n]
      BY <2>1 DEF StopEngine
    <3> HIDE DEF n
    <3> QED
      BY <2>1, <3>2, <3>3, QueueUpdate DEF IInv
  <2>2. CASE e \notin Queues
    BY <2>2, TypeParts DEF StopEngine, IInv
  <2> QED
    BY <2>1, <2>2
<1>5. TypeOK'
  BY <1>1, <1>2, <1>4, TypeParts, TypeStep DEF IInv
<1>6. DownInv'
  <2>1. \A x : Down(x) => Down(x)'
    BY <1>1, <1>4 DEF Down
  <2>2. \A i : ~Before(i)' /\ ~Resting' /\ (After(i)' <=> After(i))
    BY <1>1, <1>2, Orders DEF Before, Resting, After
  <2> QED
    BY <2>1, <2>2 DEF IInv, DownInv
<1>7. ControlInv'
  BY <1>1, <1>2, <1>3, Orders DEF IInv, ControlInv, Stopping
<1>8. \A q \in Queues : QueueInv(q)'
  <2> SUFFICES ASSUME NEW q \in Queues PROVE QueueInv(q)'
    OBVIOUS
  <2>1. QueueInv(q)
    BY DEF IInv
  <2>2. CASE q = e
    BY <1>1, <1>2, <1>4, <2>1, <2>2 DEF QueueInv, Starting, Stopping
  <2>3. CASE q # e
    <3>1. ~Stopping(q, 2) /\ ~Starting(q, 3) /\ ~queue[q].quit
      BY <1>1, <2>1 DEF QueueInv, Starting, Stopping
    <3> QED
      BY <1>1, <1>2, <1>4, <2>1, <2>3, <3>1 DEF QueueInv, Starting, Stopping
  <2> QED
    BY <2>2, <2>3
<1>9. AttemperHasItsEngines'
  <2>1. CASE control.at = 1
    <3>1. e = "attemper"
      BY <1>1, <1>3, <2>1, Orders
    <3> QED
      BY <1>1, <1>4, <3>1, TwoQueues DEF IInv, AttemperHasItsEngines
  <2>2. CASE control.at > 1
    <3>1. ~queue["attemper"].thread
      BY <1>1, <2>2, TwoQueues DEF IInv, DownInv, After, Down
    <3> QED
      BY <1>4, <3>1, TwoQueues DEF AttemperHasItsEngines
  <2> QED
    BY <1>3, <2>1, <2>2
<1>10. \A q \in Queues : Entries(q)' = Entries(q)
  BY <1>4 DEF Entries
<1>11. EventsInv'
  BY <1>1, <1>4, <1>10, TwoQueues DEF IInv, EventsInv
<1>12. RequestsInv'
  BY <1>1, <1>2, <1>4, <1>10, TwoQueues, Orders
     DEF IInv, RequestsInv, NoRequests, Resting, Before, After
<1>13. TimersInv'
  BY <1>1, <1>2, Orders DEF IInv, TimersInv, CountdownRuns, Resting, Before, After
<1> QED
  BY <1>5, <1>6, <1>7, <1>8, <1>9, <1>11, <1>12, <1>13, ControlStep

LEMMA ConcludeRefusedInv ==
  ASSUME IInv, ConcludeRefused \/ LateMessage
  PROVE  IInv'
<1>1. /\ UNCHANGED <<bService, live, sinkUp, queue, timers, counting, checked, service, added>>
      /\ control.op = "stop" /\ StopOrder[control.at] = "asynchronism"
      /\ flags' = flags \ {"asynchronism"} /\ control \in ControlType
  BY TypeParts DEF ConcludeRefused, LateMessage, Stopping, ControlInv, IInv
<1>2. /\ control' \in ControlType
      /\ control'.op = "stop" /\ control'.at = control.at /\ control'.step \in 2 .. 3
  BY <1>1 DEF ConcludeRefused, LateMessage, ControlType
<1>3. control.at = 5
  BY <1>1, Orders DEF ControlType
<1>4. TypeOK'
  BY <1>1, <1>2, TypeParts, TypeStep DEF IInv
<1>5. DownInv'
  <2>1. \A x : Down(x) => Down(x)'
    BY <1>1 DEF Down
  <2>2. \A i : ~Before(i)' /\ ~Resting' /\ (After(i)' <=> After(i))
    BY <1>1, <1>2 DEF Before, Resting, After, Idle
  <2> QED
    BY <2>1, <2>2 DEF IInv, DownInv
<1>6. ControlInv'
  BY <1>1, <1>2, <1>3, Orders DEF IInv, ControlInv, Stopping
<1>7. \A q \in Queues : QueueInv(q)'
  BY <1>1, <1>2, <1>3, Orders DEF IInv, QueueInv, Starting, Stopping, Queues
<1>8. AttemperHasItsEngines'
  <2>1. ~queue["attemper"].thread
    BY <1>1, <1>3, TwoQueues DEF IInv, DownInv, After, Down
  <2> QED
    BY <1>1, <2>1 DEF AttemperHasItsEngines
<1>9. EventsInv'
  BY <1>1 DEF IInv, EventsInv, Entries
<1>10. RequestsInv'
  BY <1>1, <1>2, <1>3 DEF IInv, RequestsInv, Entries, NoRequests, Resting, Before, After, Idle
<1>11. TimersInv'
  BY <1>1, <1>2, <1>3 DEF IInv, TimersInv, CountdownRuns, Resting, Before, After, Idle
<1> QED
  BY <1>4, <1>5, <1>6, <1>7, <1>8, <1>9, <1>10, <1>11, ControlStep

LEMMA StopThreadsInv ==
  ASSUME IInv, NEW e \in Engines, StopThreads(e) \/ (e = "timer" /\ StopTimer)
  PROVE  IInv'
<1>1. /\ UNCHANGED <<bService, flags, sinkUp, queue, checked, service, added>>
      /\ control.op = "stop" /\ control.step = 2 /\ StopOrder[control.at] = e
      /\ live' = live \ {e} /\ control \in ControlType
      /\ e \in {"timer", "socket", "asynchronism"}
      /\ \/ timers' = timers /\ counting' = counting /\ e # "timer"
         \/ timers' = {} /\ counting' = FALSE
  BY TypeParts DEF StopThreads, StopTimer, Stopping, IInv
<1>2. control.at \in 3 .. 5
  BY <1>1, Orders DEF ControlType
<1>3. /\ control' \in ControlType
      /\ IF control.at = 5 THEN control' = Idle
         ELSE /\ control'.op = "stop" /\ control'.at = control.at + 1 /\ control'.step = 1
  BY <1>1, EngineStoppedFacts DEF StopThreads, StopTimer, IInv
<1>4. TypeOK'
  BY <1>1, <1>3, TypeParts, TypeStep DEF IInv
<1>5. e \notin flags
  BY <1>1 DEF IInv, ControlInv, Stopping
<1>6. Down(e)' /\ \A x : Down(x) => Down(x)'
  BY <1>1, <1>5, TypeParts DEF Down, Queues, IInv
<1>7. DownInv'
  BY <1>1, <1>2, <1>3, <1>6, Orders DEF IInv, DownInv, Before, Resting, After
<1>8. ControlInv'
  BY <1>1, <1>2, <1>3, Orders DEF IInv, ControlInv, Stopping
<1>9. \A q \in Queues : QueueInv(q)'
  BY <1>1, <1>2, <1>3, Orders DEF IInv, QueueInv, Starting, Stopping, Queues
<1>10. AttemperHasItsEngines'
  BY <1>1 DEF IInv, AttemperHasItsEngines
<1>11. EventsInv'
  BY <1>1 DEF IInv, EventsInv, Entries
<1>12. RequestsInv'
  BY <1>1, <1>2, <1>3, Orders DEF IInv, RequestsInv, Entries, NoRequests, Resting, Before, After
<1>13. TimersInv'
  BY <1>1, <1>2, <1>3, Orders DEF IInv, TimersInv, CountdownRuns, Resting, Before, After
<1> QED
  BY <1>4, <1>7, <1>8, <1>9, <1>10, <1>11, <1>12, <1>13, ControlStep

LEMMA StartedQueueInv ==
  ASSUME IInv, NEW q \in Queues, StartedQueue(q)
  PROVE  IInv'
<1>1. /\ UNCHANGED <<live, sinkUp, queue, timers, counting, checked, service, added>>
      /\ control.op = "start" /\ control.step = 3 /\ StartOrder[control.at] = q
      /\ flags' = flags \cup {q} /\ control \in ControlType
  BY TypeParts DEF StartedQueue, Starting, IInv
<1>2. /\ q = "database" => control.at = 2
      /\ q = "attemper" => control.at = 4
      /\ control.at \in {2, 4}
  BY <1>1, Orders, TwoQueues DEF ControlType
<1>3. /\ control' \in ControlType /\ bService' = bService
      /\ control'.op = "start" /\ control'.at = control.at + 1 /\ control'.step = 1
  BY <1>1, <1>2, NextEngineFacts DEF StartedQueue, IInv
<1>4. "timer" \in flags /\ ~bService /\ queue[q].thread
  BY <1>1, <1>2, Orders DEF IInv, ControlInv, QueueInv, Starting
<1>5. TypeOK'
  <2>1. {q} \subseteq Engines
    BY DEF Engines, Queues
  <2> QED
    BY <1>1, <1>3, <2>1, TypeParts, TypeStep DEF IInv
<1>6. DownInv'
  <2>1. \A x : x # q /\ Down(x) => Down(x)'
    BY <1>1 DEF Down
  <2> QED
    BY <1>1, <1>2, <1>3, <2>1, Orders, TwoQueues
       DEF IInv, DownInv, Before, Resting, After
<1>7. ControlInv'
  BY <1>1, <1>2, <1>3, <1>4, Orders, TwoQueues DEF IInv, ControlInv, Stopping
<1>8. \A p \in Queues : QueueInv(p)'
  BY <1>1, <1>2, <1>3, Orders, TwoQueues DEF IInv, QueueInv, Starting, Stopping
<1>9. AttemperHasItsEngines'
  BY <1>1 DEF IInv, AttemperHasItsEngines
<1>10. EventsInv'
  BY <1>1 DEF IInv, EventsInv, Entries
<1>11. RequestsInv'
  BY <1>1, <1>2, <1>3, Orders DEF IInv, RequestsInv, Entries, NoRequests, Resting, Before, After
<1>12. TimersInv'
  BY <1>1, <1>2, <1>3, Orders DEF IInv, TimersInv, CountdownRuns, Resting, Before, After
<1> QED
  BY <1>5, <1>6, <1>7, <1>8, <1>9, <1>10, <1>11, <1>12, ControlStep

LEMMA StartQueueInv ==
  ASSUME IInv, NEW q \in Queues, StartQueue(q)
  PROVE  IInv'
<1>1. /\ UNCHANGED <<bService, flags, live, sinkUp, timers, counting, checked, service, added>>
      /\ control.op = "start" /\ control.step = 2 /\ StartOrder[control.at] = q
      /\ control \in ControlType /\ Starting(q, 2)
  BY TypeParts DEF StartQueue, Starting, IInv
<1>2. /\ q = "database" => control.at = 2
      /\ q = "attemper" => control.at = 4
      /\ control.at \in {2, 4}
  BY <1>1, Orders, TwoQueues DEF ControlType
<1>3. /\ "timer" \in flags /\ ~bService /\ q \in sinkUp
      /\ ~queue[q].port /\ ~queue[q].thread /\ ~queue[q].quit
      /\ queue[q].current = << >> /\ queue[q].data <= Len(queue[q].store)
  BY <1>1, <1>2, Orders DEF IInv, ControlInv, QueueInv, Stopping
<1>4. /\ control' \in ControlType
      /\ queue' \in [Queues -> QueueType]
      /\ \A p \in Queues \ {q} : queue'[p] = queue[p]
      /\ queue'[q].quit = queue[q].quit /\ queue'[q].data = queue[q].data
      /\ queue'[q].store = queue[q].store /\ queue'[q].current = queue[q].current
      /\ \/ /\ control'.op = "start" /\ control'.at = control.at /\ control'.step = 3
            /\ queue'[q].port /\ queue'[q].thread
         \/ control' = Idle /\ ~queue'[q].thread
  <2>1. queue[q] \in QueueType
    BY TypeParts DEF IInv
  <2>2. CASE queue' = [queue EXCEPT ![q].port = TRUE, ![q].thread = TRUE] /\ NextStep
    <3> DEFINE n == [queue[q] EXCEPT !.port = TRUE, !.thread = TRUE]
    <3>1. /\ n \in QueueType /\ n.port /\ n.thread /\ n.quit = queue[q].quit
          /\ n.data = queue[q].data /\ n.store = queue[q].store
          /\ n.current = queue[q].current
      BY <2>1 DEF QueueType
    <3>2. queue' = [queue EXCEPT ![q] = n]
      BY <2>1, <2>2, TypeParts DEF QueueType, IInv
    <3>3. control' \in ControlType /\ control'.op = "start" /\ control'.at = control.at
          /\ control'.step = 3
      BY <1>1, <2>2, NextStepFacts DEF IInv
    <3> HIDE DEF n
    <3> QED
      BY <3>1, <3>2, <3>3, QueueUpdate DEF IInv
  <2>3. CASE /\ \E made \in BOOLEAN : queue' = [queue EXCEPT ![q].port = made]
             /\ control' = Idle
    <3>1. PICK made \in BOOLEAN : queue' = [queue EXCEPT ![q].port = made]
      BY <2>3
    <3> DEFINE n == [queue[q] EXCEPT !.port = made]
    <3>2. /\ n \in QueueType /\ n.thread = queue[q].thread /\ n.quit = queue[q].quit
          /\ n.data = queue[q].data /\ n.store = queue[q].store
          /\ n.current = queue[q].current
      BY <2>1 DEF QueueType
    <3>3. queue' = [queue EXCEPT ![q] = n]
      BY <3>1
    <3> HIDE DEF n
    <3>4. /\ queue' \in [Queues -> QueueType] /\ queue'[q] = n
          /\ \A p \in Queues \ {q} : queue'[p] = queue[p]
      BY <3>2, <3>3, QueueUpdate DEF IInv
    <3> QED
      BY <1>3, <2>3, <3>2, <3>4, IdleType
  <2> QED
    BY <2>2, <2>3 DEF StartQueue
<1>5. TypeOK'
  BY <1>1, <1>4, TypeParts, TypeStep DEF IInv
<1>6. DownInv'
  <2>1. \A x : x # q /\ Down(x) => Down(x)'
    BY <1>1, <1>4 DEF Down
  <2> QED
    BY <1>1, <1>2, <1>3, <1>4, <2>1, Orders DEF IInv, DownInv, Before, Resting, After
<1>7. ControlInv'
  <2>1. control.at > 2 => queue'["database"].thread
    BY <1>1, <1>2, <1>4, TwoQueues DEF IInv, ControlInv
  <2> QED
    BY <1>1, <1>2, <1>3, <1>4, <2>1, Orders DEF IInv, ControlInv, Stopping
<1>8. \A p \in Queues : QueueInv(p)'
  <2> SUFFICES ASSUME NEW p \in Queues PROVE QueueInv(p)'
    OBVIOUS
  <2>1. QueueInv(p)
    BY DEF IInv
  <2>2. CASE p = q
    BY <1>1, <1>3, <1>4, <2>2, Orders DEF QueueInv, Starting, Stopping
  <2>3. CASE p # q
    <3>1. ~Starting(p, 3) /\ ~Stopping(p, 2) /\ ~Starting(p, 2)' /\ ~Starting(p, 3)'
          /\ ~Stopping(p, 3)'
      BY <1>1, <1>4, <2>3, Orders DEF Starting, Stopping
    <3> QED
      BY <1>1, <1>4, <2>1, <2>3, <3>1 DEF QueueInv
  <2> QED
    BY <2>2, <2>3
<1>9. AttemperHasItsEngines'
  <2>1. CASE q = "attemper"
    BY <1>1, <1>2, <1>4, <2>1, TwoQueues DEF IInv, ControlInv, AttemperHasItsEngines
  <2>2. CASE q = "database"
    <3>1. ~queue["attemper"].thread
      BY <1>1, <1>2, <2>2, TwoQueues DEF IInv, DownInv, Before, Down
    <3> QED
      BY <1>4, <2>2, <3>1, TwoQueues DEF AttemperHasItsEngines
  <2> QED
    BY <2>1, <2>2, TwoQueues
<1>10. \A p \in Queues : Entries(p)' = Entries(p)
                         /\ queue'[p].store = queue[p].store
                         /\ queue'[p].current = queue[p].current
  <2>1. \A p \in Queues : /\ queue'[p].store = queue[p].store
                          /\ queue'[p].current = queue[p].current
    BY <1>4
  <2> QED
    BY <2>1 DEF Entries
<1>11. EventsInv'
  <2>1. queue["attemper"].port => queue'["attemper"].port
    BY <1>3, <1>4, TwoQueues
  <2> QED
    BY <1>1, <1>10, <2>1, TwoQueues DEF IInv, EventsInv
<1>12. RequestsInv'
  <2>1. NoRequests' => NoRequests
    BY <1>1, <1>2, <1>3, <1>4, Orders DEF NoRequests, Resting, Before, After
  <2> QED
    BY <1>1, <1>10, <2>1, TwoQueues DEF IInv, RequestsInv
<1>13. TimersInv'
  BY <1>1, <1>2, <1>3, <1>4, Orders DEF IInv, TimersInv, CountdownRuns, Resting, Before, After
<1> QED
  BY <1>5, <1>6, <1>7, <1>8, <1>9, <1>11, <1>12, <1>13, ControlStep

LEMMA StopQueueInv ==
  ASSUME IInv, NEW q \in Queues, StopQueue(q)
  PROVE  IInv'
<1>1. /\ UNCHANGED <<bService, flags, live, sinkUp, timers, counting, checked, service, added>>
      /\ control.op = "stop" /\ control.step = 2 /\ StopOrder[control.at] = q
      /\ control \in ControlType /\ Stopping(q, 2) /\ ~queue[q].thread
      /\ queue' = [queue EXCEPT ![q] = ClosedQueue]
  BY TypeParts DEF StopQueue, Stopping, IInv
<1>2. /\ control' \in ControlType
      /\ control'.op = "stop" /\ control'.at = control.at /\ control'.step = 3
  BY <1>1, NextStepFacts DEF StopQueue, IInv
<1>3. control.at \in 1 .. 5
  BY <1>1 DEF ControlType
<1>4. /\ ClosedQueue \in QueueType /\ ~ClosedQueue.port /\ ~ClosedQueue.thread
      /\ ~ClosedQueue.quit /\ ClosedQueue.data = 0
      /\ ClosedQueue.store = << >> /\ ClosedQueue.current = << >>
  BY DEF ClosedQueue, QueueType
<1>5. /\ queue' \in [Queues -> QueueType]
      /\ queue'[q] = ClosedQueue
      /\ \A p \in Queues \ {q} : queue'[p] = queue[p]
  BY <1>1, <1>4, QueueUpdate DEF IInv
<1>6. q \notin flags
  BY <1>1 DEF IInv, ControlInv, Queues, Engines
<1>7. TypeOK'
  BY <1>1, <1>2, <1>5, TypeParts, TypeStep DEF IInv
<1>8. DownInv'
  <2>1. \A x : Down(x) => Down(x)'
    BY <1>1, <1>4, <1>5 DEF Down
  <2>2. \A i : ~Before(i)' /\ ~Resting' /\ (After(i)' <=> After(i))
    BY <1>1, <1>2, Orders DEF Before, Resting, After
  <2> QED
    BY <2>1, <2>2 DEF IInv, DownInv
<1>9. ControlInv'
  <2>1. control.at \in 1 .. 2
    BY <1>1, <1>3, Orders, TwoQueues
  <2>2. ~Stopping("asynchronism", 3)'
    BY <1>2, <2>1, Orders DEF Stopping
  <2> QED
    BY <1>1, <1>2, <1>3, <2>2, Orders DEF IInv, ControlInv, Stopping
<1>10. \A p \in Queues : QueueInv(p)'
  <2> SUFFICES ASSUME NEW p \in Queues PROVE QueueInv(p)'
    OBVIOUS
  <2>1. QueueInv(p)
    BY DEF IInv
  <2>2. CASE p = q
    BY <1>1, <1>2, <1>4, <1>5, <1>6, <2>2 DEF QueueInv, Starting, Stopping
  <2>3. CASE p # q
    <3>1. ~Starting(p, 3) /\ ~Stopping(p, 2) /\ ~Starting(p, 2)' /\ ~Starting(p, 3)'
          /\ ~Stopping(p, 3)'
      BY <1>1, <1>2, <2>3 DEF Starting, Stopping
    <3> QED
      BY <1>1, <1>5, <2>1, <2>3, <3>1 DEF QueueInv
  <2> QED
    BY <2>2, <2>3
<1>11. AttemperHasItsEngines'
  <2>1. CASE q = "attemper"
    BY <1>4, <1>5, <2>1 DEF AttemperHasItsEngines
  <2>2. CASE q = "database"
    <3>1. ~queue["attemper"].thread
      <4>1. After(1)
        BY <1>1, <1>3, <2>2, Orders DEF After
      <4> QED
        BY <4>1, TwoQueues DEF IInv, DownInv, Down
    <3> QED
      BY <1>5, <2>2, <3>1, TwoQueues DEF AttemperHasItsEngines
  <2> QED
    BY <2>1, <2>2, TwoQueues
<1>12. /\ Entries(q)' = {}
       /\ \A p \in Queues \ {q} : Entries(p)' = Entries(p)
  BY <1>4, <1>5 DEF Entries
<1>13. EventsInv'
  <2>1. CASE q = "attemper"
    BY <1>12, <2>1 DEF EventsInv
  <2>2. CASE q # "attemper"
    BY <1>1, <1>5, <1>12, <2>2, TwoQueues DEF IInv, EventsInv
  <2> QED
    BY <2>1, <2>2
<1>14. RequestsInv'
  <2>1. CASE q = "database"
    BY <1>4, <1>5, <1>12, <2>1 DEF RequestsInv
  <2>2. CASE q # "database"
    <3>1. q = "attemper" /\ control.at = 1
      BY <1>1, <1>3, <2>2, TwoQueues, Orders
    <3>2. ~NoRequests'
      BY <1>2, <3>1, Orders DEF NoRequests, Resting, Before, After
    <3> QED
      BY <1>1, <1>5, <1>12, <2>2, <3>2, TwoQueues DEF IInv, RequestsInv
  <2> QED
    BY <2>1, <2>2
<1>15. TimersInv'
  BY <1>1, <1>2, Orders DEF IInv, TimersInv, CountdownRuns, Resting, Before, After
<1> QED
  BY <1>7, <1>8, <1>9, <1>10, <1>11, <1>13, <1>14, <1>15, ControlStep

(* What the start and the stop of a sink do to the queues and the timers. *)
LEMMA SinkMayCall ==
  ASSUME IInv, NEW q \in Queues,
         IF q = "attemper" THEN SinkCalls(queue)
         ELSE UNCHANGED <<queue, timers, counting, added>>
  PROVE  /\ queue' \in [Queues -> QueueType]
         /\ \A p \in Queues : Follows(p)
         /\ timers' \subseteq Timers
         /\ counting' \in BOOLEAN
         /\ added' \in Nat
         /\ CountdownRuns'
         /\ q # "attemper" => UNCHANGED <<queue, timers>>
<1>1. CASE q = "attemper"
  BY <1>1, SinkCallsFacts
<1>2. CASE q # "attemper"
  <2>1. TypeOK /\ CountdownRuns /\ \A p \in Queues : QueueInv(p)
    BY DEF IInv, TimersInv
  <2>2. UNCHANGED <<queue, timers, counting, added>>
    BY <1>2
  <2>3. \A p \in Queues : Follows(p)
    BY <2>1, <2>2, SameFollows
  <2> QED
    BY <1>2, <2>1, <2>2, <2>3, TypeParts DEF CountdownRuns
<1> QED
  BY <1>1, <1>2

LEMMA FollowsFacts ==
  ASSUME IInv, \A q \in Queues : Follows(q), UNCHANGED service
  PROVE  /\ EventsInv'
         /\ \A e \in Entries("database")' : e.service = service
         /\ \A q \in Queues :
              /\ queue'[q].port = queue[q].port
              /\ queue'[q].thread = queue[q].thread
              /\ queue'[q].quit = queue[q].quit
              /\ queue'[q].data <= Len(queue'[q].store)
              /\ ~queue[q].thread => queue'[q].current = << >>
  BY TwoQueues DEF IInv, EventsInv, RequestsInv, Follows, NewEntry

LEMMA StartSinkInv ==
  ASSUME IInv, NEW q \in Queues, StartSink(q)
  PROVE  IInv'
<1>1. /\ UNCHANGED <<bService, flags, live, checked, service>>
      /\ control.op = "start" /\ control.step = 1 /\ StartOrder[control.at] = q
      /\ control \in ControlType
  BY TypeParts DEF StartSink, Starting, IInv
<1>2. /\ q = "database" => control.at = 2
      /\ q = "attemper" => control.at = 4
      /\ control.at \in {2, 4}
  BY <1>1, Orders, TwoQueues DEF ControlType
<1>3. /\ "timer" \in flags /\ ~bService /\ Down(q)
      /\ ~queue[q].port /\ ~queue[q].thread /\ q \notin flags
  <2>1. Down(q)
    BY <1>1, <1>2, TwoQueues DEF IInv, DownInv, Before
  <2> QED
    BY <1>1, <1>2, <2>1, Orders DEF IInv, ControlInv, Down
<1>4. /\ control' \in ControlType
      /\ \/ /\ control'.op = "start" /\ control'.at = control.at /\ control'.step = 2
            /\ sinkUp' = sinkUp \cup {q}
         \/ control' = Idle /\ sinkUp' = sinkUp
  BY <1>1, NextStepFacts, IdleType DEF StartSink, IInv
<1>5. /\ queue' \in [Queues -> QueueType]
      /\ \A p \in Queues : Follows(p)
      /\ timers' \subseteq Timers /\ counting' \in BOOLEAN /\ added' \in Nat /\ CountdownRuns'
      /\ q # "attemper" => UNCHANGED <<queue, timers>>
  BY SinkMayCall DEF StartSink
<1>6. TypeOK'
  BY <1>1, <1>4, <1>5, TypeParts, TypeStep DEF IInv
<1>7. /\ EventsInv'
      /\ \A e \in Entries("database")' : e.service = service
      /\ \A p \in Queues :
           /\ queue'[p].port = queue[p].port
           /\ queue'[p].thread = queue[p].thread
           /\ queue'[p].quit = queue[p].quit
           /\ queue'[p].data <= Len(queue'[p].store)
           /\ ~queue[p].thread => queue'[p].current = << >>
  BY <1>1, <1>5, FollowsFacts
<1>8. DownInv'
  <2>1. \A x : x # q /\ Down(x) => Down(x)'
    BY <1>1, <1>4, <1>7 DEF Down
  <2> QED
    BY <1>1, <1>2, <1>3, <1>4, <2>1, Orders DEF IInv, DownInv, Before, Resting, After
<1>9. ControlInv'
  BY <1>1, <1>3, <1>4, <1>7, Orders, TwoQueues DEF IInv, ControlInv, Stopping
<1>10. \A p \in Queues : QueueInv(p)'
  <2> SUFFICES ASSUME NEW p \in Queues PROVE QueueInv(p)'
    OBVIOUS
  <2>1. QueueInv(p)
    BY DEF IInv
  <2>2. ~Starting(p, 3) /\ ~Stopping(p, 2) /\ ~Starting(p, 3)' /\ ~Stopping(p, 3)'
        /\ ~Stopping(p, 2)' /\ (Starting(p, 2)' => p = q /\ q \in sinkUp')
        /\ sinkUp \subseteq sinkUp'
    BY <1>1, <1>4, Orders DEF Starting, Stopping
  <2> QED
    BY <1>1, <1>3, <1>7, <2>1, <2>2 DEF QueueInv
<1>11. AttemperHasItsEngines'
  BY <1>1, <1>7, TwoQueues DEF IInv, AttemperHasItsEngines
<1>12. RequestsInv'
  <2>1. CASE q = "attemper"
    <3>1. ~NoRequests'
      BY <1>1, <1>2, <1>3, <1>4, <2>1, Orders DEF NoRequests, Resting, Before, After
    <3> QED
      BY <1>1, <1>7, <3>1 DEF RequestsInv
  <2>2. CASE q # "attemper"
    <3>1. NoRequests' => NoRequests
      BY <1>1, <1>2, <1>3, <1>4, Orders DEF NoRequests, Resting, Before, After
    <3> QED
      BY <1>1, <1>5, <1>7, <2>2, <3>1 DEF IInv, RequestsInv
  <2> QED
    BY <2>1, <2>2
<1>13. TimersInv'
  BY <1>1, <1>2, <1>3, <1>4, <1>5, Orders DEF TimersInv, Resting, Before, After
<1> QED
  BY <1>6, <1>7, <1>8, <1>9, <1>10, <1>11, <1>12, <1>13, ControlStep

LEMMA StopSinkInv ==
  ASSUME IInv, NEW q \in Queues, StopSink(q)
  PROVE  IInv'
<1>1. /\ UNCHANGED <<bService, flags, live, checked, service>>
      /\ control.op = "stop" /\ control.step = 3 /\ StopOrder[control.at] = q
      /\ control \in ControlType /\ Stopping(q, 3) /\ sinkUp' = sinkUp \ {q}
  BY TypeParts DEF StopSink, Stopping, IInv
<1>2. /\ q = "attemper" => control.at = 1
      /\ q = "database" => control.at = 2
      /\ control.at \in {1, 2}
  BY <1>1, Orders, TwoQueues DEF ControlType
<1>3. /\ control' \in ControlType
      /\ control'.op = "stop" /\ control'.at = control.at + 1 /\ control'.step = 1
  BY <1>1, <1>2, EngineStoppedFacts DEF StopSink, IInv
<1>4. /\ queue' \in [Queues -> QueueType]
      /\ \A p \in Queues : Follows(p)
      /\ timers' \subseteq Timers /\ counting' \in BOOLEAN /\ added' \in Nat /\ CountdownRuns'
      /\ q # "attemper" => UNCHANGED <<queue, timers>>
  BY SinkMayCall DEF StopSink
<1>5. TypeOK'
  BY <1>1, <1>3, <1>4, TypeParts, TypeStep DEF IInv
<1>6. /\ EventsInv'
      /\ \A e \in Entries("database")' : e.service = service
      /\ \A p \in Queues :
           /\ queue'[p].port = queue[p].port
           /\ queue'[p].thread = queue[p].thread
           /\ queue'[p].quit = queue[p].quit
           /\ queue'[p].data <= Len(queue'[p].store)
           /\ ~queue[p].thread => queue'[p].current = << >>
  BY <1>1, <1>4, FollowsFacts
<1>7. q \notin flags /\ ~queue[q].port /\ ~queue[q].thread
  BY <1>1 DEF IInv, QueueInv
<1>8. DownInv'
  <2>1. \A x : Down(x) => Down(x)'
    BY <1>1, <1>6 DEF Down
  <2>2. Down(q)'
    BY <1>1, <1>6, <1>7, TypeParts, TwoQueues DEF Down, IInv
  <2> QED
    BY <1>1, <1>2, <1>3, <2>1, <2>2, Orders, TwoQueues
       DEF IInv, DownInv, Before, Resting, After
<1>9. ControlInv'
  BY <1>1, <1>3, <1>6, Orders, TwoQueues DEF IInv, ControlInv, Stopping
<1>10. \A p \in Queues : QueueInv(p)'
  <2> SUFFICES ASSUME NEW p \in Queues PROVE QueueInv(p)'
    OBVIOUS
  <2>1. QueueInv(p)
    BY DEF IInv
  <2>2. ~Starting(p, 3) /\ ~Stopping(p, 2) /\ ~Starting(p, 2)' /\ ~Starting(p, 3)'
        /\ ~Stopping(p, 3)' /\ ~Stopping(p, 2)'
    BY <1>1, <1>3 DEF Starting, Stopping
  <2> QED
    BY <1>1, <1>6, <1>7, <2>1, <2>2 DEF QueueInv
<1>11. AttemperHasItsEngines'
  BY <1>1, <1>6, TwoQueues DEF IInv, AttemperHasItsEngines
<1>12. RequestsInv'
  <2>1. CASE q = "attemper"
    <3>1. ~NoRequests'
      BY <1>2, <1>3, <2>1, Orders DEF NoRequests, Resting, Before, After
    <3> QED
      BY <1>1, <1>6, <3>1 DEF RequestsInv
  <2>2. CASE q # "attemper"
    <3>1. NoRequests
      BY <1>1, <1>2, <2>2, TwoQueues DEF NoRequests
    <3> QED
      BY <1>1, <1>4, <1>6, <2>2, <3>1 DEF IInv, RequestsInv
  <2> QED
    BY <2>1, <2>2
<1>13. TimersInv'
  BY <1>1, <1>2, <1>3, <1>4, Orders DEF TimersInv, Resting, Before, After
<1> QED
  BY <1>5, <1>6, <1>8, <1>9, <1>10, <1>11, <1>12, <1>13, ControlStep
-----------------------------------------------------------------------------
LEMMA InitInv ==
  ASSUME Init
  PROVE  IInv
<1>1. /\ Idle \in ControlType /\ Idle.op = "idle"
      /\ ClosedQueue \in QueueType /\ ~ClosedQueue.port /\ ~ClosedQueue.thread
      /\ ~ClosedQueue.quit /\ ClosedQueue.data = 0
      /\ ClosedQueue.store = << >> /\ ClosedQueue.current = << >>
  BY Orders, IdleType DEF ClosedQueue, QueueType
<1>2. TypeOK
  BY <1>1 DEF Init, TypeOK, ControlType, QueueType
<1>3. \A q \in Queues : queue[q] = ClosedQueue
  BY DEF Init
<1>4. \A e : Down(e)
  BY <1>1, <1>3 DEF Init, Down
<1>5. DownInv
  BY <1>4 DEF DownInv
<1>6. ControlInv
  BY <1>1 DEF Init, ControlInv, Stopping
<1>7. \A q \in Queues : QueueInv(q)
  BY <1>1, <1>3 DEF Init, QueueInv, Starting, Stopping
<1>8. AttemperHasItsEngines
  BY <1>1, <1>3, TwoQueues DEF AttemperHasItsEngines
<1>9. \A q \in Queues : Entries(q) = {}
  BY <1>1, <1>3 DEF Entries
<1>10. EventsInv /\ RequestsInv
  BY <1>1, <1>3, <1>9, TwoQueues DEF EventsInv, RequestsInv
<1>11. TimersInv
  BY DEF Init, TimersInv, CountdownRuns
<1> QED
  BY <1>2, <1>5, <1>6, <1>7, <1>8, <1>10, <1>11 DEF IInv

LEMMA StutterInv ==
  ASSUME IInv, UNCHANGED vars
  PROVE  IInv'
<1>1. TypeOK'
  BY DEF vars, IInv, TypeOK
<1>2. DownInv'
  BY DEF vars, IInv, DownInv, Down, Before, Resting, After
<1>3. ControlInv'
  BY DEF vars, IInv, ControlInv, Stopping
<1>4. \A q \in Queues : QueueInv(q)'
  BY DEF vars, IInv, QueueInv, Starting, Stopping
<1>5. AttemperHasItsEngines'
  BY DEF vars, IInv, AttemperHasItsEngines
<1>6. EventsInv' /\ RequestsInv'
  BY DEF vars, IInv, EventsInv, RequestsInv, Entries, NoRequests, Before, Resting, After
<1>7. TimersInv'
  BY DEF vars, IInv, TimersInv, CountdownRuns, Before, Resting, After
<1> QED
  BY <1>1, <1>2, <1>3, <1>4, <1>5, <1>6, <1>7, ControlStep

LEMMA StepInv ==
  ASSUME IInv, [Next]_vars
  PROVE  IInv'
<1>1. CASE Control
  <2>1. ASSUME NEW q \in Queues,
               \/ StartSink(q) \/ StartQueue(q) \/ StartedQueue(q)
               \/ StopQueue(q) \/ StopSink(q)
        PROVE  IInv'
    BY <2>1, StartSinkInv, StartQueueInv, StartedQueueInv, StopQueueInv, StopSinkInv
  <2>2. ASSUME NEW e \in Engines, StopEngine(e) \/ StopThreads(e)
        PROVE  IInv'
    BY <2>2, StopEngineInv, StopThreadsInv
  <2>3. CASE StopTimer
    BY <2>3, StopThreadsInv DEF Engines
  <2> QED
    BY <1>1, <2>1, <2>2, <2>3, ConcludeRefusedInv, StartTimerInv, StartAsynchronismInv,
       StartSocketInv
       DEF Control
<1>2. ASSUME NEW c \in Controllers \cup {Worker}, CheckService(c) \/ PostEvent(c)
      PROVE  IInv'
  BY <1>2, CheckServiceInv, PostEventInv
<1>3. ASSUME NEW q \in Queues, QueueThread(q)
      PROVE  IInv'
  BY <1>3, GetDataInv, GetQuitInv DEF QueueThread
<1>4. CASE UNCHANGED vars
  BY <1>4, StutterInv
<1> QED
  BY <1>1, <1>2, <1>3, <1>4, StartServiceInv, StopServiceInv, TimerThreadInv,
     AttemperEventInv, DataBaseRequestInv, ConcludeRefusedInv
     DEF Next

(* The invariant holds in every state, for any number of threads, timers,  *)
(* starts and stops.                                                       *)
THEOREM InductiveInvariant == Spec => []IInv
  BY InitInv, StepInv, PTL DEF Spec

(* Every variable keeps its type. *)
THEOREM TypeCorrect == Spec => []TypeOK
<1>1. IInv => TypeOK
  BY DEF IInv
<1> QED
  BY <1>1, InductiveInvariant, PTL

(* However many starts have failed and at whichever engine: StartService   *)
(* reaches only engines, sinks and queues that are not started.            *)
THEOREM EnginesAlwaysRestBeforeStart == Spec => []RestBeforeStart
<1>1. ASSUME IInv PROVE RestBeforeStart
  <2> SUFFICES ASSUME control.op = "start", NEW i \in 1 .. 5,
                      i > control.at \/ (i = control.at /\ control.step = 1)
               PROVE  Down(StartOrder[i])
    BY DEF RestBeforeStart
  <2>1. control.at \in 1 .. 5
    BY <1>1, TypeParts DEF IInv, ControlType
  <2>2. Before(i)
    BY <2>1 DEF Before
  <2>3. i = 1 \/ i = 2 \/ i = 3 \/ i = 4 \/ i = 5
    OBVIOUS
  <2> QED
    BY <1>1, <2>2, <2>3, Orders DEF IInv, DownInv
<1> QED
  BY <1>1, InductiveInvariant, PTL

(* The attemper's thread runs only while timer, data base and asynchronism *)
(* engine are in service.                                                  *)
THEOREM AttemperAlwaysHasItsEngines == Spec => []AttemperHasItsEngines
<1>1. IInv => AttemperHasItsEngines
  BY DEF IInv
<1> QED
  BY <1>1, InductiveInvariant, PTL

(* A queue's thread calls only a sink that is started. *)
THEOREM SinkCallsAlwaysInScope == Spec => []SinkCallsInScope
<1>1. IInv => SinkCallsInScope
  BY DEF IInv, QueueInv, SinkCallsInScope
<1> QED
  BY <1>1, InductiveInvariant, PTL

(* What the attemper is given of an earlier service, its closed queue took.*)
THEOREM StaleEventsNeverAnnounced == Spec => []StaleEventsUnannounced
<1>1. IInv => StaleEventsUnannounced
  BY DEF IInv, EventsInv, StaleEventsUnannounced
<1> QED
  BY <1>1, InductiveInvariant, PTL

(* The data base engine handles only requests of the service it is in, and *)
(* while it is in service or being stopped.                                *)
THEOREM RequestsAlwaysStayInService == Spec => []RequestsStayInService
<1>1. ASSUME IInv PROVE RequestsStayInService
  <2>1. ASSUME queue["database"].current # << >>, "database" \notin flags
        PROVE  control.op = "stop"
    <3>1. queue["database"].thread
      BY <1>1, <2>1, TwoQueues DEF IInv, QueueInv
    <3>2. Starting("database", 3) \/ Stopping("database", 2)
      BY <1>1, <2>1, <3>1, TwoQueues DEF IInv, QueueInv
    <3>3. ASSUME Starting("database", 3) PROVE FALSE
      <4>1. Before(4)
        <5>1. control.at \in 1 .. 5
          BY <1>1, TypeParts DEF IInv, ControlType
        <5> QED
          BY <3>3, <5>1, Orders DEF Starting, Before
      <4> QED
        BY <1>1, <2>1, <4>1 DEF IInv, RequestsInv, NoRequests
    <3> QED
      BY <3>2, <3>3 DEF Stopping
  <2> QED
    BY <1>1, <2>1 DEF IInv, RequestsInv, RequestsStayInService
<1> QED
  BY <1>1, InductiveInvariant, PTL

(* While timers are set the countdown runs, over all stops and starts. *)
THEOREM CountdownAlwaysRuns == Spec => []CountdownRuns
<1>1. IInv => CountdownRuns
  BY DEF IInv, TimersInv
<1> QED
  BY <1>1, InductiveInvariant, PTL
=============================================================================
