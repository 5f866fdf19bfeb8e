---------------------------- MODULE ServiceEngine ----------------------------
(***************************************************************************)
(* CServiceEngine (ServiceEngine.cpp) with the five engines it starts and  *)
(* stops, the queues of the attemper and of the data base engine, and the  *)
(* threads that work through them and add to them.  Any step of a start    *)
(* may fail; what was started until then is left as it is, and a caller    *)
(* may start again or stop.                                                *)
(*                                                                         *)
(* The inside of the engines is in modules of their own; here an engine is *)
(* its m_bService, its threads, and what it adds to which queue, and       *)
(* AddToQueue is one step.                                                 *)
(*                                                                         *)
(* Sinks are code outside of the kernel.  The attemper's sink sets and     *)
(* kills timers and makes data base requests whenever it is called, the    *)
(* data base sink answers requests to the attemper's queue.  One thread    *)
(* calls StartService and StopService, others ControlService.              *)
(***************************************************************************)
EXTENDS Naturals, Sequences, FiniteSets

CONSTANTS
  Timers,      (* timers                                          *)
  Controllers, (* threads that call ControlService                *)
  Worker,      (* a thread of the socket engine that posts events *)
  MaxServices, (* bound: calls of StartService                    *)
  MaxAdded     (* bound: entries added to the two queues          *)

ASSUME ServiceAssumption ==
  /\ Worker \notin Controllers
  /\ MaxServices \in Nat
  /\ MaxAdded \in Nat

VARIABLES
  bService, (* m_bService of the service engine                             *)
  control,  (* where StartService or StopService is: engine and step        *)
  flags,    (* the engines whose m_bService is true                         *)
  live,     (* timer, asynchronism and socket engine: threads run           *)
  sinkUp,   (* the engines whose sink was started and not yet stopped       *)
  queue,    (* m_RequestQueueService of attemper and data base engine       *)
  timers,   (* m_TimerItemActive                                            *)
  counting, (* m_dwTimeLeave of the timer engine is not NO_TIME_LEFT        *)
  checked,  (* threads that found a service flag true and have yet to post  *)
  service,  (* the number of calls of StartService so far                   *)
  added     (* the number of entries added so far                           *)

vars == <<bService, control, flags, live, sinkUp, queue, timers, counting, checked,
          service, added>>

Engines == {"timer", "database", "asynchronism", "attemper", "socket"}
Queues == {"attemper", "database"}

(* Faults: orders in which the engines could be started and stopped. *)
AttemperFirst == <<"timer", "attemper", "database", "asynchronism", "socket">>
DataBaseFirst == <<"database", "attemper", "timer", "socket", "asynchronism">>

StartOrder == <<"timer", "database", "asynchronism", "attemper", "socket">>
StopOrder == <<"attemper", "database", "timer", "socket", "asynchronism">>

Idle == [op |-> "idle", at |-> 1, step |-> 1]

(* An entry remembers the service it was added in, and whether its queue   *)
(* had a port to post its completion to.                                   *)
Entry == [service : Nat, announced : BOOLEAN]

ClosedQueue == [port |-> FALSE, thread |-> FALSE, quit |-> FALSE, data |-> 0,
                store |-> << >>, current |-> << >>]

TypeOK ==
  /\ bService \in BOOLEAN
  /\ control \in [op : {"idle", "start", "stop"}, at : 1 .. 5, step : 1 .. 3]
  /\ flags \subseteq Engines
  /\ live \subseteq Engines \ Queues
  /\ sinkUp \subseteq Queues
  /\ queue \in [Queues -> [port : BOOLEAN, thread : BOOLEAN, quit : BOOLEAN, data : Nat,
                           store : Seq(Entry), current : Seq(Entry)]]
  /\ timers \subseteq Timers
  /\ counting \in BOOLEAN
  /\ checked \subseteq Controllers \cup {Worker}
  /\ service \in Nat
  /\ added \in Nat

Init ==
  /\ bService = FALSE
  /\ control = Idle
  /\ flags = {}
  /\ live = {}
  /\ sinkUp = {}
  /\ queue = [q \in Queues |-> ClosedQueue]
  /\ timers = {}
  /\ counting = FALSE
  /\ checked = {}
  /\ service = 0
  /\ added = 0

-----------------------------------------------------------------------------
(* What threads and sinks call. *)

(* The bound leaves room for the events of threads that are about to post. *)
Room == added + Cardinality(checked) < MaxAdded

(* The queue with one more entry; without a port no completion tells of it,*)
(* and one behind the quit completion is never taken.                      *)
WithEntry(q) ==
  [queue EXCEPT
    ![q].store = Append(@, [service |-> service, announced |-> queue[q].port]),
    ![q].data = IF queue[q].port /\ ~queue[q].quit THEN @ + 1 ELSE @]

SetTimer(t) == timers' = timers \cup {t} /\ counting' = TRUE

KillTimer(t) ==
  /\ t \in timers
  /\ timers' = timers \ {t}
  /\ counting' = (counting /\ timers # {t})

(* A call of the attemper's sink: requests go to the data base queue. *)
SinkCalls(after) ==
  \/ queue' = after /\ UNCHANGED <<timers, counting, added>>
  \/ /\ \E t \in Timers : SetTimer(t) \/ KillTimer(t)
     /\ queue' = after
     /\ UNCHANGED added
  \/ /\ Room
     /\ added' = added + 1
     /\ queue' = [after EXCEPT !["database"] = WithEntry("database")["database"]]
     /\ UNCHANGED <<timers, counting>>

-----------------------------------------------------------------------------
(* StartService.  It returns false when it finds the timer or the socket   *)
(* engine in service, as it does after a start that failed further on.     *)

Starting(e, step) ==
  control.op = "start" /\ StartOrder[control.at] = e /\ control.step = step

NextStep == control' = [control EXCEPT !.step = @ + 1]

(* The engine's own StartService returned true. *)
NextEngine ==
  IF control.at = 5
  THEN control' = Idle /\ bService' = TRUE
  ELSE control' = [control EXCEPT !.at = @ + 1, !.step = 1] /\ UNCHANGED bService

(* Fault: no engine is asked whether it is in service. *)
StartServiceUnchecked ==
  /\ control = Idle
  /\ ~bService
  /\ service < MaxServices
  /\ service' = service + 1
  /\ control' = [Idle EXCEPT !.op = "start"]
  /\ UNCHANGED <<bService, flags, live, sinkUp, queue, timers, counting, checked, added>>

StartService ==
  /\ control = Idle
  /\ ~bService
  /\ {"timer", "socket"} \cap flags = {}
  /\ service < MaxServices
  /\ service' = service + 1
  /\ control' = [Idle EXCEPT !.op = "start"]
  /\ UNCHANGED <<bService, flags, live, sinkUp, queue, timers, counting, checked, added>>

(* The timer list is not cleared. *)
StartTimer ==
  /\ Starting("timer", 1)
  /\ counting' = FALSE
  /\ \/ live' = live \cup {"timer"} /\ flags' = flags \cup {"timer"} /\ NextEngine
     \/ control' = Idle /\ UNCHANGED <<bService, live, flags>>
  /\ UNCHANGED <<sinkUp, queue, timers, checked, service, added>>

StartAsynchronism ==
  /\ Starting("asynchronism", 1)
  /\ \/ /\ live' = live \cup {"asynchronism"}
        /\ flags' = flags \cup {"asynchronism"}
        /\ NextEngine
     \/ control' = Idle /\ UNCHANGED <<bService, live, flags>>
  /\ UNCHANGED <<sinkUp, queue, timers, counting, checked, service, added>>

(* The attemper and the data base engine start their sink, then their      *)
(* queue, whose failure is an exception nobody catches, then set the flag. *)
StartSink(q) ==
  /\ Starting(q, 1)
  /\ \/ sinkUp' = sinkUp \cup {q} /\ NextStep
     \/ control' = Idle /\ UNCHANGED sinkUp
  /\ IF q = "attemper" THEN SinkCalls(queue)
     ELSE UNCHANGED <<queue, timers, counting, added>>
  /\ UNCHANGED <<bService, flags, live, checked, service>>

StartQueue(q) ==
  /\ Starting(q, 2)
  /\ \/ queue' = [queue EXCEPT ![q].port = TRUE, ![q].thread = TRUE] /\ NextStep
     \/ \E made \in BOOLEAN :
          queue' = [queue EXCEPT ![q].port = made] /\ control' = Idle
  /\ UNCHANGED <<bService, flags, live, sinkUp, timers, counting, checked, service, added>>

StartedQueue(q) ==
  /\ Starting(q, 3)
  /\ flags' = flags \cup {q}
  /\ NextEngine
  /\ UNCHANGED <<live, sinkUp, queue, timers, counting, checked, service, added>>

(* The socket engine sets its flag when its threads run; a start that      *)
(* fails leaves those that do.                                             *)
StartSocket ==
  /\ \/ /\ Starting("socket", 1)
        /\ live' \in {live, live \cup {"socket"}}
        /\ IF live' = live THEN control' = Idle ELSE NextStep
        /\ UNCHANGED <<bService, flags>>
     \/ /\ Starting("socket", 2)
        /\ \/ flags' = flags \cup {"socket"} /\ NextEngine
           \/ control' = Idle /\ UNCHANGED <<bService, flags>>
        /\ UNCHANGED live
  /\ UNCHANGED <<sinkUp, queue, timers, counting, checked, service, added>>

-----------------------------------------------------------------------------
(* StopService, from any state a start has left. *)

Stopping(e, step) ==
  control.op = "stop" /\ StopOrder[control.at] = e /\ control.step = step

EngineStopped ==
  control' = IF control.at = 5 THEN Idle ELSE [control EXCEPT !.at = @ + 1, !.step = 1]

(* With KillAllTimer. *)
StopService ==
  /\ control = Idle
  /\ bService' = FALSE
  /\ timers' = {}
  /\ counting' = FALSE
  /\ control' = [Idle EXCEPT !.op = "stop"]
  /\ UNCHANGED <<flags, live, sinkUp, queue, checked, service, added>>

(* Each engine first clears its flag; a queue is sent the quit completion. *)
StopEngine(e) ==
  /\ Stopping(e, 1)
  /\ flags' = flags \ {e}
  /\ IF e \in Queues THEN queue' = [queue EXCEPT ![e].quit = queue[e].port]
     ELSE UNCHANGED queue
  /\ NextStep
  /\ UNCHANGED <<bService, live, sinkUp, timers, counting, checked, service, added>>

(* Faults: the port is closed under the thread; the entries left are kept. *)
StopQueueUnjoined(q) ==
  /\ Stopping(q, 2)
  /\ queue' = [queue EXCEPT ![q].port = FALSE, ![q].store = << >>]
  /\ NextStep
  /\ UNCHANGED <<bService, flags, live, sinkUp, timers, counting, checked, service, added>>

StopQueueKeepsStore(q) ==
  /\ Stopping(q, 2)
  /\ ~queue[q].thread
  /\ queue' = [queue EXCEPT ![q] = [ClosedQueue EXCEPT !.store = queue[q].store]]
  /\ NextStep
  /\ UNCHANGED <<bService, flags, live, sinkUp, timers, counting, checked, service, added>>

(* The thread has ended: the port is closed and RemoveData called. *)
StopQueue(q) ==
  /\ Stopping(q, 2)
  /\ ~queue[q].thread
  /\ queue' = [queue EXCEPT ![q] = ClosedQueue]
  /\ NextStep
  /\ UNCHANGED <<bService, flags, live, sinkUp, timers, counting, checked, service, added>>

(* Called whether or not the sink was started. *)
StopSink(q) ==
  /\ Stopping(q, 3)
  /\ sinkUp' = sinkUp \ {q}
  /\ IF q = "attemper" THEN SinkCalls(queue)
     ELSE UNCHANGED <<queue, timers, counting, added>>
  /\ EngineStopped
  /\ UNCHANGED <<bService, flags, live, checked, service>>

(* Fault: the list is left as it is. *)
StopTimerKeepsList ==
  /\ Stopping("timer", 2)
  /\ live' = live \ {"timer"}
  /\ counting' = FALSE
  /\ EngineStopped
  /\ UNCHANGED <<bService, flags, sinkUp, queue, timers, checked, service, added>>

StopTimer ==
  /\ Stopping("timer", 2)
  /\ live' = live \ {"timer"}
  /\ timers' = {}
  /\ counting' = FALSE
  /\ EngineStopped
  /\ UNCHANGED <<bService, flags, sinkUp, queue, checked, service, added>>

(* Fault: callers of ControlService, which nothing makes go on, are waited *)
(* for too.                                                                *)
StopThreadsAwaitsAll(e) ==
  /\ e \in {"socket", "asynchronism"}
  /\ Stopping(e, 2)
  /\ checked = {}
  /\ live' = live \ {e}
  /\ EngineStopped
  /\ UNCHANGED <<bService, flags, sinkUp, queue, timers, counting, checked, service, added>>

(* The threads have left the functions that post events. *)
StopThreads(e) ==
  /\ e \in {"socket", "asynchronism"}
  /\ Stopping(e, 2)
  /\ e = "socket" => Worker \notin checked
  /\ live' = live \ {e}
  /\ EngineStopped
  /\ UNCHANGED <<bService, flags, sinkUp, queue, timers, counting, checked, service, added>>

(* WM_QUIT is refused by a full message queue, and the thread empties the  *)
(* queue and waits for another message before StopThread clears m_bRun:    *)
(* the join waits for a thread that was told nothing.  A message that      *)
(* still comes, of a caller of InsertRequest who found the flag true, lets *)
(* the thread leave its loop.                                              *)
ConcludeRefused ==
  /\ Stopping("asynchronism", 1)
  /\ "asynchronism" \in live
  /\ flags' = flags \ {"asynchronism"}
  /\ control' = [control EXCEPT !.step = 3]
  /\ UNCHANGED <<bService, live, sinkUp, queue, timers, counting, checked, service, added>>

LateMessage ==
  /\ Stopping("asynchronism", 3)
  /\ control' = [control EXCEPT !.step = 2]
  /\ UNCHANGED <<bService, flags, live, sinkUp, queue, timers, counting, checked, service,
                 added>>

-----------------------------------------------------------------------------
(* The threads. *)

(* A timer is due; it may have been its last time. *)
OnTimerThreadSink ==
  /\ "timer" \in live
  /\ counting
  /\ Room
  /\ added' = added + 1
  /\ queue' = WithEntry("attemper")
  /\ \E t \in timers : timers' \in {timers, timers \ {t}}
  /\ counting' = (timers' # {})
  /\ UNCHANGED <<bService, control, flags, live, sinkUp, checked, service>>

(* ControlService, and the events of the socket engine: the flag is read,  *)
(* then the event is posted.                                               *)
CheckService(c) ==
  /\ c \notin checked
  /\ Room
  /\ IF c = Worker THEN {"socket"} \subseteq live \cap flags ELSE bService
  /\ checked' = checked \cup {c}
  /\ UNCHANGED <<bService, control, flags, live, sinkUp, queue, timers, counting, service,
                 added>>

PostEvent(c) ==
  /\ c \in checked
  /\ added' = added + 1
  /\ queue' = WithEntry("attemper")
  /\ checked' = checked \ {c}
  /\ UNCHANGED <<bService, control, flags, live, sinkUp, timers, counting, service>>

(* A queue's thread takes a completion and the entry at the front. *)
GetData(q) ==
  /\ queue[q].thread
  /\ queue[q].current = << >>
  /\ queue[q].data > 0
  /\ queue' = [queue EXCEPT ![q].data = @ - 1,
                            ![q].current = SubSeq(queue[q].store, 1, 1),
                            ![q].store = SubSeq(@, 2, Len(@))]
  /\ UNCHANGED <<bService, control, flags, live, sinkUp, timers, counting, checked, service,
                 added>>

GetQuit(q) ==
  /\ queue[q].thread
  /\ queue[q].current = << >>
  /\ queue[q].quit
  /\ queue[q].data = 0
  /\ queue' = [queue EXCEPT ![q].thread = FALSE]
  /\ UNCHANGED <<bService, control, flags, live, sinkUp, timers, counting, checked, service,
                 added>>

(* CAttemperEngine::OnQueueServiceSink. *)
AttemperEvent ==
  /\ queue["attemper"].current # << >>
  /\ SinkCalls([queue EXCEPT !["attemper"].current = << >>])
  /\ UNCHANGED <<bService, control, flags, live, sinkUp, checked, service>>

(* CDataBaseEngine::OnQueueServiceSink drops requests while its flag is    *)
(* false.                                                                  *)
DataBaseRequest ==
  /\ queue["database"].current # << >>
  /\ \/ /\ queue' = [queue EXCEPT !["database"].current = << >>]
        /\ UNCHANGED added
     \/ /\ "database" \in flags
        /\ Room
        /\ added' = added + 1
        /\ queue' = [WithEntry("attemper") EXCEPT !["database"].current = << >>]
  /\ UNCHANGED <<bService, control, flags, live, sinkUp, timers, counting, checked, service>>

QueueThread(q) == GetData(q) \/ GetQuit(q)

-----------------------------------------------------------------------------
Control ==
  \/ StartTimer \/ StartAsynchronism \/ StartSocket
  \/ \E q \in Queues :
       \/ StartSink(q) \/ StartQueue(q) \/ StartedQueue(q)
       \/ StopQueue(q) \/ StopSink(q)
  \/ \E e \in Engines : StopEngine(e) \/ StopThreads(e)
  \/ StopTimer \/ ConcludeRefused

Next ==
  \/ StartService \/ StopService \/ Control \/ LateMessage
  \/ OnTimerThreadSink
  \/ \E c \in Controllers \cup {Worker} : CheckService(c) \/ PostEvent(c)
  \/ \E q \in Queues : QueueThread(q)
  \/ AttemperEvent \/ DataBaseRequest

Spec == Init /\ [][Next]_vars

-----------------------------------------------------------------------------
(* Properties. *)

Down(e) ==
  /\ e \notin flags \cup live \cup sinkUp
  /\ e \in Queues => ~queue[e].port /\ ~queue[e].thread

(* StartService never reaches an engine, a sink or a queue that is started *)
(* already, whichever starts failed before: the asserts at the head of     *)
(* CQueueService::StartService hold, and the asynchronism engine, which    *)
(* does not ask, is not started twice.                                     *)
RestBeforeStart ==
  control.op = "start" =>
    \A i \in 1 .. 5 :
      i > control.at \/ (i = control.at /\ control.step = 1) => Down(StartOrder[i])

(* Whenever the attemper's sink can be called by the queue's thread, the   *)
(* engines it uses are in service.                                         *)
AttemperHasItsEngines ==
  queue["attemper"].thread =>
    /\ {"timer", "database", "asynchronism"} \subseteq flags
    /\ queue["database"].thread

(* A queue's thread calls a sink only between the sink's StartService and  *)
(* its StopService.                                                        *)
SinkCallsInScope == \A q \in Queues : queue[q].thread => q \in sinkUp

Entries(q) ==
  {queue[q].store[i] : i \in DOMAIN queue[q].store}
    \cup {queue[q].current[i] : i \in DOMAIN queue[q].current}

(* An event of an earlier service that the attemper is given after a       *)
(* restart was added when the queue was closed, by an engine that stops    *)
(* after the attemper or a late ControlService; nothing the queue had      *)
(* accepted while open is left over.                                       *)
StaleEventsUnannounced ==
  \A e \in Entries("attemper") : e.service = service \/ ~e.announced

(* The data base engine never handles a request of an earlier service, and *)
(* drops requests only while the service is being stopped.                 *)
RequestsStayInService ==
  /\ \A e \in Entries("database") : e.service = service
  /\ queue["database"].current # << >> /\ "database" \notin flags => control.op = "stop"

(* ASSERT(m_TimerItemActive.GetCount()==0) in OnTimerThreadSink, where the *)
(* countdown is off: StartService switches it off without clearing the     *)
(* list.                                                                   *)
CountdownRuns == timers # {} => counting

(* Fairness.  The calls of StartService and StopService go on, threads     *)
(* run, and sinks return.                                                  *)
Fairness ==
  /\ WF_vars(Control)
  /\ WF_vars(PostEvent(Worker))
  /\ \A q \in Queues : WF_vars(QueueThread(q))
  /\ WF_vars(AttemperEvent)
  /\ WF_vars(DataBaseRequest)

FairSpec == Spec /\ Fairness

(* StopService returns, whatever a start has left running and however much *)
(* is left in the queues, unless the asynchronism engine's thread was not  *)
(* told to quit and no message comes (CallsReturn of AsynchronismEngine).  *)
StopServiceReturns ==
  control.op = "stop" ~> control = Idle \/ Stopping("asynchronism", 3)
=============================================================================
