------------------------- MODULE AsynchronismEngine --------------------------
(***************************************************************************)
(* CAsynchronismEngine (AsynchronismEngine.cpp): InsertRequest stores a    *)
(* request in m_DataQueue and posts a window message that names it; the    *)
(* message thread, a CServiceThread with a window, takes a message, then   *)
(* the request at the front of m_DataQueue, and calls the sink.  The two   *)
(* must stay paired over failed posts, stops and starts.                   *)
(*                                                                         *)
(* Callers of InsertRequest are other threads, which nobody joins before   *)
(* this engine stops (GetAsynchronismEngine hands it to anybody), and the  *)
(* message thread itself, from inside the sink.  Requests are numbered as  *)
(* they are added; a message carries its request's number (wRequestID).    *)
(***************************************************************************)
EXTENDS ServiceThread, Integers, Sequences, FiniteSets

CONSTANTS
  Callers,      (* other threads                                         *)
  Self,         (* the message thread as a caller of InsertRequest       *)
  Sinks,        (* objects that can be registered                        *)
  MaxSinks,     (* bound: length of the sink array                       *)
  MaxMessages,  (* the limit of the thread's message queue               *)
  MaxAdded      (* bound: requests added in a behaviour                  *)

Nobody == "nobody"

ASSUME AsynAssumption ==
  /\ Self \notin Callers
  /\ Nobody \notin Callers \cup {Self}
  /\ MaxMessages \in Nat
  /\ MaxAdded \in Nat
  /\ MaxSinks \in Nat

VARIABLES
  control,   (* where the engine's StartService and StopService are        *)
  bService,  (* m_bService                                                 *)
  window,    (* m_ControlWnd.m_hWnd is not NULL                            *)
  messages,  (* posted to the message thread: request numbers, and WM_QUIT *)
  store,     (* m_DataQueue                                                *)
  inside,    (* where each caller is in InsertRequest, and its request     *)
  lock,      (* who holds m_CriticalSection                                *)
  current,   (* the message being dispatched                               *)
  buffer,    (* m_cbBuffer with its DataHead: the request being handled    *)
  sinks,     (* m_AsynchronismEngineSinkArray                              *)
  loop,      (* in the loops over it: the index, plus 1; outside of them 0 *)
  told,      (* history: starts less stops the thread told each sink       *)
  grown,     (* history: sinks registered between the two loops            *)
  removed,   (* history: a sink was unregistered since the thread began    *)
  added,     (* the number of requests added so far                        *)
  handled,   (* history: the number of the last request handled            *)
  lost,      (* history: requests in the store whose message was lost      *)
  stale,     (* history: callers that stored their request before the last *)
             (* RemoveData and had not posted its message                  *)
  refused    (* history: the thread's full queue refused the WM_QUIT       *)

asynVars == <<control, bService, window, messages, store, inside, lock, current,
              buffer, sinks, loop, told, grown, removed, added, handled, lost, stale,
              refused>>

vars == <<threadVars, asynVars>>
notices == <<loop, told, grown, removed>>

AllCallers == Callers \cup {Self}
WM_QUIT == 0

TypeOK ==
  /\ ThreadTypeOK
  /\ control \in {"idle", "starting", "stopping", "quitting", "joining", "joined"}
  /\ bService \in BOOLEAN
  /\ window \in BOOLEAN
  /\ messages \in Seq(Nat)
  /\ store \in Seq(Nat \ {0})
  /\ inside \in [AllCallers -> [at : {"out", "checked", "inserted"}, id : Nat]]
  /\ lock \in AllCallers \cup {Nobody}
  /\ current \in Seq(Nat)
  /\ buffer \in Seq(Nat)
  /\ sinks \in Seq(Sinks)
  /\ loop \in Nat
  /\ told \in [Sinks -> Int]
  /\ grown \in Nat
  /\ removed \in BOOLEAN
  /\ added \in Nat
  /\ handled \in Nat
  /\ lost \in Nat
  /\ stale \in Nat
  /\ refused \in BOOLEAN

Outside == [at |-> "out", id |-> 0]

Init ==
  /\ ThreadInit
  /\ control = "idle"
  /\ bService = FALSE
  /\ window = FALSE
  /\ messages = << >>
  /\ store = << >>
  /\ inside = [c \in AllCallers |-> Outside]
  /\ lock = Nobody
  /\ current = << >>
  /\ buffer = << >>
  /\ sinks = << >>
  /\ loop = 0
  /\ told = [s \in Sinks |-> 0]
  /\ grown = 0
  /\ removed = FALSE
  /\ added = 0
  /\ handled = 0
  /\ lost = 0
  /\ stale = 0
  /\ refused = FALSE

-----------------------------------------------------------------------------
(* InsertRequest.  The flag is read before the lock is taken.              *)

CheckService(c) ==
  /\ inside[c].at = "out"
  /\ c = Self => lock = Self
  /\ bService
  /\ added + Cardinality({d \in AllCallers : inside[d].at = "checked"}) < MaxAdded
  /\ inside' = [inside EXCEPT ![c] = [at |-> "checked", id |-> 0]]
  /\ UNCHANGED <<threadVars, control, bService, window, messages, store, lock,
                 current, buffer, sinks, notices, added, handled, lost, stale, refused>>

(* Fault: the request is stored without the lock. *)
InsertDataUnlocked(c) ==
  /\ inside[c].at = "checked"
  /\ lock' = c
  /\ added' = added + 1
  /\ store' = Append(store, added + 1)
  /\ inside' = [inside EXCEPT ![c] = [at |-> "inserted", id |-> added + 1]]
  /\ UNCHANGED <<threadVars, control, bService, window, messages, current, buffer,
                 sinks, notices, handled, lost, stale, refused>>

(* The lock may be taken again by the thread that holds it. *)
InsertData(c) ==
  /\ inside[c].at = "checked"
  /\ lock \in {Nobody, c}
  /\ lock' = c
  /\ added' = added + 1
  /\ store' = Append(store, added + 1)
  /\ inside' = [inside EXCEPT ![c] = [at |-> "inserted", id |-> added + 1]]
  /\ UNCHANGED <<threadVars, control, bService, window, messages, current, buffer,
                 sinks, notices, handled, lost, stale, refused>>

(* Fault: a message is posted only when none is waiting. *)
PostMessageIfNone(c) ==
  /\ inside[c].at = "inserted"
  /\ inside' = [inside EXCEPT ![c] = Outside]
  /\ lock' = IF c = Self THEN Self ELSE Nobody
  /\ messages' = IF messages = << >> THEN <<inside[c].id>> ELSE messages
  /\ UNCHANGED <<threadVars, control, bService, window, store, current, buffer,
                 sinks, notices, added, handled, lost, stale, refused>>

(* PostMessage fails when there is no window or when the thread's queue is *)
(* full.  Its result is not looked at: the request stays in the store.     *)
PostMessage(c) ==
  /\ inside[c].at = "inserted"
  /\ inside' = [inside EXCEPT ![c] = Outside]
  /\ lock' = IF c = Self THEN Self ELSE Nobody
  /\ IF window /\ Len(messages) < MaxMessages
     THEN /\ messages' = Append(messages, inside[c].id)
          /\ UNCHANGED lost
     ELSE /\ lost' = lost + 1
          /\ UNCHANGED messages
  /\ UNCHANGED <<threadVars, control, bService, window, store, current, buffer,
                 sinks, notices, added, handled, stale, refused>>

InsertRequest(c) == CheckService(c) \/ InsertData(c) \/ PostMessage(c)

-----------------------------------------------------------------------------
(* The sink array.  Sinks come and go at any time, also while the message  *)
(* thread walks the array: nothing is locked, and nobody looks at the      *)
(* service.  The loops that look for a sink read the first element at      *)
(* every index.                                                            *)

(* The start event has returned, and the thread has not ended. *)
Begun == \E t \in Threads : fn[t] \notin {"none", "starting"}

RegisterAsynchronismEngineSink(s) ==
  /\ Len(sinks) < MaxSinks
  /\ sinks # << >> => sinks[1] # s
  /\ sinks' = Append(sinks, s)
  /\ grown' = IF Begun /\ ~removed THEN grown + 1 ELSE grown
  /\ UNCHANGED <<threadVars, control, bService, window, messages, store, inside, lock,
                 current, buffer, loop, told, removed, added, handled, lost, stale,
                 refused>>

UnRegisterAsynchronismEngineSink(s) ==
  /\ sinks # << >> /\ sinks[1] = s
  /\ sinks' = Tail(sinks)
  /\ removed' = TRUE
  /\ told' = [d \in Sinks |-> 0]
  /\ grown' = 0
  /\ UNCHANGED <<threadVars, control, bService, window, messages, store, inside, lock,
                 current, buffer, loop, added, handled, lost, stale, refused>>

(* Whatever the index, the first element is told. *)
Told(n) == IF removed THEN told ELSE [told EXCEPT ![sinks[1]] = @ + n]

-----------------------------------------------------------------------------
(* The message thread. *)

(* The result of Create is not looked at. *)
CreateWindow(t) ==
  /\ fn[t] = "starting" /\ loop = 0
  /\ window' \in BOOLEAN
  /\ loop' = 1
  /\ told' = [s \in Sinks |-> 0]
  /\ grown' = 0
  /\ removed' = FALSE
  /\ UNCHANGED <<threadVars, control, bService, messages, store, inside, lock, current,
                 buffer, sinks, added, handled, lost, stale, refused>>

(* The messages that are left go with the window. *)
DestroyWindow(t) ==
  /\ fn[t] = "stopping" /\ loop = 0
  /\ window' = FALSE
  /\ loop' = 1
  /\ messages' = << >>
  /\ lost' = lost + Cardinality({i \in DOMAIN messages : messages[i] # WM_QUIT})
  /\ UNCHANGED <<threadVars, control, bService, store, inside, lock, current, buffer,
                 sinks, told, grown, removed, added, handled, stale, refused>>

(* Fault: the sinks are not told of a stop that follows a failed start. *)
TellSinkUnlessFailed(t) ==
  /\ fn[t] \in {"starting", "stopping"}
  /\ loop \in 1 .. Len(sinks)
  /\ loop' = loop + 1
  /\ told' = CASE fn[t] = "stopping" /\ param.success -> Told(-1)
               [] fn[t] = "stopping" /\ ~param.success -> told
               [] OTHER -> Told(1)
  /\ UNCHANGED <<threadVars, control, bService, window, messages, store, inside, lock,
                 current, buffer, sinks, grown, removed, added, handled, lost, stale,
                 refused>>

(* An iteration of the loops of both events. *)
TellSink(t) ==
  /\ fn[t] \in {"starting", "stopping"}
  /\ loop \in 1 .. Len(sinks)
  /\ loop' = loop + 1
  /\ told' = IF fn[t] = "starting" THEN Told(1) ELSE Told(-1)
  /\ UNCHANGED <<threadVars, control, bService, window, messages, store, inside, lock,
                 current, buffer, sinks, grown, removed, added, handled, lost, stale,
                 refused>>

(* The sinks' results are looked at. *)
OnMessageThreadStart(t, good) ==
  /\ loop > 0 /\ loop > Len(sinks)
  /\ ThreadStartEvent(t, good)
  /\ loop = 1 => good
  /\ loop' = 0
  /\ UNCHANGED <<control, bService, window, messages, store, inside, lock, current,
                 buffer, sinks, told, grown, removed, added, handled, lost, stale, refused>>

(* The thread's message queue goes with the thread. *)
OnMessageThreadStop(t) ==
  /\ loop > 0 /\ loop > Len(sinks)
  /\ ThreadStopEvent(t)
  /\ loop' = 0
  /\ messages' = << >>
  /\ UNCHANGED <<control, bService, window, store, inside, lock, current, buffer, sinks,
                 told, grown, removed, added, handled, lost, stale, refused>>

ThreadGoesOn(t) ==
  /\ ThreadSetEvent(t) \/ ThreadLoop(t)
  /\ UNCHANGED asynVars

(* GetMessage returns false for WM_QUIT. *)
GetMessage(t) ==
  /\ fn[t] = "running"
  /\ current = << >>
  /\ messages # << >>
  /\ messages' = Tail(messages)
  /\ \/ /\ Head(messages) = WM_QUIT
        /\ ThreadRan(t, FALSE)
        /\ UNCHANGED current
     \/ /\ Head(messages) # WM_QUIT
        /\ current' = <<Head(messages)>>
        /\ UNCHANGED threadVars
  /\ UNCHANGED <<control, bService, window, store, inside, lock, buffer, sinks, notices,
                 added, handled, lost, stale, refused>>

(* Fault: the newest request is taken. *)
DistillDataLast(t) ==
  /\ fn[t] = "running"
  /\ current # << >> /\ buffer = << >>
  /\ lock = Nobody
  /\ lock' = Self
  /\ IF store = << >>
     THEN buffer' = <<0>> /\ UNCHANGED store
     ELSE buffer' = <<store[Len(store)]>> /\ store' = SubSeq(store, 1, Len(store) - 1)
  /\ UNCHANGED <<threadVars, control, bService, window, messages, inside, current,
                 sinks, notices, added, handled, lost, stale, refused>>

(* OnAsynchronismRequest up to the sink's call.  Without a request         *)
(* DistillData would leave the head as it was, which is request 0 here.    *)
DistillData(t) ==
  /\ fn[t] = "running"
  /\ current # << >> /\ buffer = << >>
  /\ lock = Nobody
  /\ lock' = Self
  /\ IF store = << >>
     THEN buffer' = <<0>> /\ UNCHANGED store
     ELSE buffer' = <<Head(store)>> /\ store' = Tail(store)
  /\ UNCHANGED <<threadVars, control, bService, window, messages, inside, current,
                 sinks, notices, added, handled, lost, stale, refused>>

(* The sink returns, having left InsertRequest, and so does RepetitionRun. *)
OnAsynchronismRequest(t) ==
  /\ buffer # << >>
  /\ inside[Self].at = "out"
  /\ ThreadRan(t, TRUE)
  /\ handled' = IF Head(buffer) = 0 THEN handled ELSE Head(buffer)
  /\ buffer' = << >>
  /\ current' = << >>
  /\ lock' = Nobody
  /\ UNCHANGED <<control, bService, window, messages, store, inside, sinks, notices,
                 added, lost, stale, refused>>

MessageThread(t) ==
  \/ CreateWindow(t) \/ DestroyWindow(t) \/ TellSink(t)
  \/ \E good \in BOOLEAN : OnMessageThreadStart(t, good)
  \/ ThreadGoesOn(t)
  \/ GetMessage(t) \/ DistillData(t) \/ OnAsynchronismRequest(t)
  \/ OnMessageThreadStop(t)

-----------------------------------------------------------------------------
(* StartService and StopService, on the owner of the thread. *)

StartService ==
  /\ control = "idle"
  /\ control' = "starting"
  /\ StartThead \/ StartTheadWithoutThread
  /\ UNCHANGED <<bService, window, messages, store, inside, lock, current, buffer,
                 sinks, notices, added, handled, lost, stale, refused>>

StartServiceDone ==
  /\ control = "starting"
  /\ control' = "idle"
  /\ StartTheadReturns
  /\ bService' = TRUE
  /\ UNCHANGED <<window, messages, store, inside, lock, current, buffer, sinks, notices,
                 added, handled, lost, stale, refused>>

StartServiceFails ==
  /\ control = "starting"
  /\ \/ StartTheadUndone /\ UNCHANGED control
     \/ StopThreadReturns /\ control' = "idle"
  /\ UNCHANGED <<bService, window, messages, store, inside, lock, current, buffer,
                 sinks, notices, added, handled, lost, stale, refused>>

(* It does not wait for callers of InsertRequest. *)
StopService ==
  /\ control = "idle"
  /\ control' = "stopping"
  /\ bService' = FALSE
  /\ UNCHANGED <<threadVars, window, messages, store, inside, lock, current, buffer,
                 sinks, notices, added, handled, lost, stale, refused>>

(* Fault: the thread is not woken from GetMessage. *)
ConcludeThreadQuietly ==
  /\ control = "stopping"
  /\ control' = "quitting"
  /\ UNCHANGED <<threadVars, bService, window, messages, store, inside, lock, current,
                 buffer, sinks, notices, added, handled, lost, stale, refused>>

(* PostThreadMessage(WM_QUIT), which fails without a thread and when the   *)
(* queue is full.                                                          *)
ConcludeThread ==
  /\ control = "stopping"
  /\ control' = "quitting"
  /\ messages' = IF IsRuning /\ Len(messages) < MaxMessages
                 THEN Append(messages, WM_QUIT) ELSE messages
  /\ refused' = (IsRuning /\ Len(messages) >= MaxMessages)
  /\ UNCHANGED <<threadVars, bService, window, store, inside, lock, current, buffer,
                 sinks, notices, added, handled, lost, stale>>

JoinThread ==
  /\ \/ control = "quitting" /\ control' = "joining" /\ StopThread
     \/ control = "joining" /\ control' = "joined" /\ StopThreadReturns
  /\ UNCHANGED <<bService, window, messages, store, inside, lock, current, buffer,
                 sinks, notices, added, handled, lost, stale, refused>>

(* RemoveData takes no lock. *)
RemoveData ==
  /\ control = "joined"
  /\ control' = "idle"
  /\ store' = << >>
  /\ lost' = 0
  /\ stale' = Cardinality({c \in AllCallers : inside[c].at = "inserted"})
  /\ UNCHANGED <<threadVars, bService, window, messages, inside, lock, current, buffer,
                 sinks, notices, added, handled, refused>>

-----------------------------------------------------------------------------
Control ==
  \/ StartServiceDone \/ StartServiceFails
  \/ ConcludeThread \/ JoinThread \/ RemoveData

Next ==
  \/ \E c \in AllCallers : InsertRequest(c)
  \/ \E s \in Sinks : RegisterAsynchronismEngineSink(s)
                      \/ UnRegisterAsynchronismEngineSink(s)
  \/ \E t \in Threads : MessageThread(t)
  \/ StartService \/ StopService \/ Control

Spec == Init /\ [][Next]_vars

-----------------------------------------------------------------------------
(* Properties. *)

(* ASSERT(DataHead.wIdentifier==wRequestID): the sink is called with the   *)
(* request its message was posted for, over any stops and starts, as long  *)
(* as no message of a request in the store was lost to a full queue or a   *)
(* missing window, and no caller was between the request and its message   *)
(* when StopService emptied the store.                                     *)
RequestMatchesMessage == lost = 0 /\ stale = 0 /\ buffer # << >> => buffer = current

(* When the thread has ended, after a failed start too, the first sink was *)
(* told as many stops as starts, and one more for each sink registered     *)
(* after the start event; no other sink was told anything.  Nothing of     *)
(* this is said of a thread under which a sink was unregistered, which the *)
(* code allows and nobody does.                                            *)
StartsMatchStops ==
  Alive = {} /\ ~removed =>
    \A s \in Sinks : told[s] = IF sinks # << >> /\ sinks[1] = s THEN -grown ELSE 0

(* Requests are handled in order, none twice, and only by a living thread; *)
(* none is dropped while it lives.  A lost message delays requests, it     *)
(* drops none; a message without a request handles none.                   *)
Channel == INSTANCE EventChannel WITH
  open <- Alive # {},
  pending <- (IF buffer = <<0>> THEN << >> ELSE buffer) \o store

ImplementsChannel == Channel!Spec

(* Fairness.  The message thread runs, and gets the lock while others      *)
(* compete for it; callers leave InsertRequest; the control thread goes on *)
(* with what it began.                                                     *)
Fairness ==
  /\ \A t \in Threads :
       /\ WF_vars(MessageThread(t) /\ ~DistillData(t))
       /\ SF_vars(DistillData(t))
  /\ \A c \in AllCallers : SF_vars(InsertData(c)) /\ WF_vars(PostMessage(c))
  /\ WF_vars(Control)

FairSpec == Spec /\ Fairness

(* A request accepted by the running service is handled, unless the        *)
(* service is stopped or a message is lost.                                *)
RequestsHandled ==
  \A n \in 1 .. MaxAdded :
    bService /\ lost = 0 /\ (\E i \in DOMAIN store : store[i] = n)
      ~> n <= handled \/ ~bService \/ lost > 0

(* StartService and StopService return, but for two calls whose result is  *)
(* not looked at.  When _beginthreadex fails, StartThead waits for an      *)
(* event nobody will set; when the queue was too full for WM_QUIT, the     *)
(* thread may empty it and block before it is told to leave its loop.      *)
CallsReturn ==
  control # "idle" ~> \/ control = "idle"
                      \/ control = "starting" /\ handle = NoThread
                      \/ control = "joining" /\ refused

=============================================================================
