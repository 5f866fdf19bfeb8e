------------------------- MODULE AsynchronismProofs --------------------------
(***************************************************************************)
(* One thread at a time runs for a CServiceThread, and the parameter it is *)
(* given is never read after it is gone.  The asynchronism engine calls    *)
(* its sinks with the requests their messages were posted for, and is a    *)
(* channel, for any number of callers, requests, stops and starts.         *)
(***************************************************************************)
EXTENDS AsynchronismEngine, FiniteSetTheorems, TLAPS

-----------------------------------------------------------------------------
(* CServiceThread. *)

ThreadInv ==
  /\ ThreadTypeOK
  /\ \A t \in Threads : fn[t] # "none" => t = handle
  /\ \A t \in Threads :
       fn[t] \in {"starting", "signalGood", "signalBad"} =>
         owner = "waiting" /\ ~param.finish
  /\ \A t \in Threads :
       /\ fn[t] = "signalGood" => param.success
       /\ fn[t] = "signalBad" => ~param.success
  /\ owner = "waiting" => run

LEMMA ThreadInitInv == ASSUME ThreadInit PROVE ThreadInv
  BY DEF ThreadInit, ThreadInv, ThreadTypeOK

LEMMA OwnerStepInv ==
  ASSUME ThreadInv,
         \/ StartThead \/ StartTheadWithoutThread \/ StartTheadReturns
         \/ StartTheadUndone \/ StopThread \/ StopThreadReturns
  PROVE  ThreadInv'
<1>1. CASE StartThead
  <2>1. PICK t \in Threads \ Alive :
          /\ handle' = t /\ fn' = [fn EXCEPT ![t] = "starting"]
          /\ run' = TRUE /\ owner' = "waiting"
          /\ param' = [success |-> FALSE, finish |-> FALSE]
    BY <1>1 DEF StartThead
  <2>2. \A u \in Threads : fn[u] = "none"
    BY <1>1 DEF StartThead, ThreadInv, Alive, IsRuning
  <2> QED
    BY <2>1, <2>2 DEF ThreadInv, ThreadTypeOK
<1>2. CASE StartTheadWithoutThread
  <2>1. \A u \in Threads : fn[u] = "none"
    BY <1>2 DEF StartTheadWithoutThread, ThreadInv, Alive, IsRuning
  <2> QED
    BY <1>2, <2>1 DEF StartTheadWithoutThread, ThreadInv, ThreadTypeOK
<1>3. CASE StartTheadReturns \/ StartTheadUndone \/ StopThread
  BY <1>3 DEF StartTheadReturns, StartTheadUndone, StopThread, ThreadInv, ThreadTypeOK
<1>4. CASE StopThreadReturns
  <2>1. \A u \in Threads : fn[u] = "none"
    BY <1>4 DEF StopThreadReturns, ThreadInv, Alive, IsRuning
  <2> QED
    BY <1>4, <2>1 DEF StopThreadReturns, ThreadInv, ThreadTypeOK
<1> QED
  BY <1>1, <1>2, <1>3, <1>4

LEMMA FunctionStepInv ==
  ASSUME ThreadInv, NEW t \in Threads,
         \/ \E b \in BOOLEAN : ThreadStartEvent(t, b) \/ ThreadRan(t, b)
         \/ ThreadSetEvent(t) \/ ThreadLoop(t) \/ ThreadStopEvent(t)
  PROVE  ThreadInv'
<1>1. ASSUME NEW b \in BOOLEAN, ThreadStartEvent(t, b) PROVE ThreadInv'
  BY <1>1 DEF ThreadStartEvent, ThreadInv, ThreadTypeOK
<1>2. ASSUME NEW b \in BOOLEAN, ThreadRan(t, b) PROVE ThreadInv'
  BY <1>2 DEF ThreadRan, ThreadInv, ThreadTypeOK
<1>3. CASE ThreadSetEvent(t)
  BY <1>3 DEF ThreadSetEvent, ThreadInv, ThreadTypeOK
<1>4. CASE ThreadLoop(t) \/ ThreadStopEvent(t)
  BY <1>4 DEF ThreadLoop, ThreadStopEvent, ThreadInv, ThreadTypeOK
<1> QED
  BY <1>1, <1>2, <1>3, <1>4

LEMMA ThreadStepInv ==
  ASSUME ThreadInv, [ThreadNext]_threadVars
  PROVE  ThreadInv'
<1>1. CASE UNCHANGED threadVars
  BY <1>1 DEF threadVars, ThreadInv, ThreadTypeOK
<1> QED
  BY <1>1, OwnerStepInv, FunctionStepInv DEF ThreadNext

LEMMA ThreadSafe ==
  ASSUME ThreadInv
  PROVE  SingleThread /\ ParameterInScope
  BY DEF ThreadInv, SingleThread, ParameterInScope, Alive

LEMMA ThreadInvariant == ThreadSpec => []ThreadInv
  BY ThreadInitInv, ThreadStepInv, PTL DEF ThreadSpec

(* Every step of the engine is a step of CServiceThread or leaves it alone.*)
LEMMA StepIsThreadStep ==
  ASSUME [Next]_vars
  PROVE  [ThreadNext]_threadVars
<1>1. ASSUME NEW c \in AllCallers, InsertRequest(c) PROVE UNCHANGED threadVars
  BY <1>1 DEF InsertRequest, CheckService, InsertData, PostMessage
<1>2. ASSUME NEW s \in Sinks,
             RegisterAsynchronismEngineSink(s) \/ UnRegisterAsynchronismEngineSink(s)
      PROVE  UNCHANGED threadVars
  BY <1>2 DEF RegisterAsynchronismEngineSink, UnRegisterAsynchronismEngineSink
<1>3. ASSUME NEW t \in Threads, MessageThread(t)
      PROVE  ThreadNext \/ UNCHANGED threadVars
  BY <1>3 DEF MessageThread, CreateWindow, DestroyWindow, TellSink, OnMessageThreadStart,
              ThreadGoesOn, GetMessage, DistillData, OnAsynchronismRequest, OnMessageThreadStop,
              ThreadNext
<1>4. CASE StartService \/ StopService \/ Control
  BY <1>4 DEF StartService, StopService, Control, StartServiceDone, StartServiceFails,
              ConcludeThread, JoinThread, RemoveData, ThreadNext
<1>5. CASE UNCHANGED vars
  BY <1>5 DEF vars
<1> QED
  BY <1>1, <1>2, <1>3, <1>4, <1>5 DEF Next

(* The engine's message thread is a CServiceThread. *)
THEOREM ImplementsServiceThread == Spec => ThreadSpec
<1>1. Init => ThreadInit
  BY DEF Init
<1>2. [Next]_vars => [ThreadNext]_threadVars
  BY StepIsThreadStep
<1> QED
  BY <1>1, <1>2, PTL DEF Spec, ThreadSpec

(* No two threads run for one object, however often it is started and      *)
(* stopped and whichever starts fail.                                      *)
THEOREM ThreadAlwaysSingle == Spec => []SingleThread
<1>1. ThreadInv => SingleThread
  BY ThreadSafe
<1> QED
  BY <1>1, ImplementsServiceThread, ThreadInvariant, PTL

(* StartThead's parameter outlives its last use by the thread. *)
THEOREM ParameterAlwaysInScope == Spec => []ParameterInScope
<1>1. ThreadInv => ParameterInScope
  BY ThreadSafe
<1> QED
  BY <1>1, ImplementsServiceThread, ThreadInvariant, PTL

-----------------------------------------------------------------------------
(* The engine. *)

(* A message was taken whose request is still in the store. *)
Taken == IF current # << >> /\ buffer = << >> THEN 1 ELSE 0

(* The one caller between InsertData and PostMessage. *)
Gap == IF lock # Nobody /\ inside[lock].at = "inserted" THEN 1 ELSE 0

(* The thread has not yet decided to leave its loop. *)
Serving == \E t \in Threads : fn[t] \notin {"none", "stopping"}

(* No WM_QUIT among the first n messages. *)
NoQuitUpTo(n) == \A j \in 1 .. n : messages[j] # WM_QUIT

(* Which stage of StartService and StopService goes with which state of    *)
(* the thread and its messages.                                            *)
ControlInv ==
  /\ control = "starting" <=> owner \in {"waiting", "undoing"}
  /\ control = "joining" <=> owner = "stopping"
  /\ control = "joined" => Alive = {}
  /\ bService =>
       /\ control = "idle"
       /\ run
       /\ \E t \in Threads : fn[t] \in {"looping", "running"}
  /\ control = "idle" /\ ~bService => Alive = {}
  /\ control \in {"idle", "starting"} => NoQuitUpTo(Len(messages))
  /\ owner = "waiting" /\ param.finish /\ param.success =>
       \E t \in Threads : fn[t] \in {"looping", "running"}

(* The lock: held by a caller between its two statements, and by the       *)
(* message thread while it handles a request.                              *)
LockInv ==
  /\ lock = Self <=> buffer # << >>
  /\ \A c \in AllCallers : inside[c].at = "inserted" => lock = c
  /\ lock \in Callers => inside[lock].at = "inserted"
  /\ inside[Self].at # "out" => lock = Self
  /\ buffer # << >> => current # << >>
  /\ current # << >> => \E t \in Threads : fn[t] = "running"
  /\ current # << >> => current = <<Head(current)>>
  /\ buffer # << >> => buffer = <<Head(buffer)>>

(* The messages in the queue are of this service, and WM_QUIT, if it is    *)
(* among them, has not been taken.                                         *)
Open == Serving \/ control \in {"idle", "starting"}

(* No message was lost, and no request was dropped before its message.     *)
Sound == lost = 0 /\ stale = 0

(* The request of each message up to WM_QUIT is in the store, at the       *)
(* message's own place.                                                    *)
PairInv ==
  /\ \A c \in AllCallers :
       inside[c].at = "inserted" =>
         /\ inside[c].id # WM_QUIT
         /\ stale = 0 => store # << >> /\ inside[c].id = store[Len(store)]
  /\ Open /\ Sound =>
       /\ \A i \in 1 .. Len(messages) :
            NoQuitUpTo(i) => i + Taken <= Len(store) /\ store[i + Taken] = messages[i]
       /\ NoQuitUpTo(Len(messages)) => Taken + Len(messages) + Gap = Len(store)
       /\ Taken = 1 => store # << >> /\ store[1] = Head(current)
  /\ RequestMatchesMessage

(* What the first sink was told and the loop has still to tell it. *)
Due == IF Begun THEN (Len(sinks) - grown) - (IF loop = 0 THEN 0 ELSE loop - 1)
       ELSE IF loop = 0 THEN -grown ELSE loop - 1

NoticeInv ==
  /\ Alive = {} => loop = 0
  /\ ~removed =>
       /\ \A s \in Sinks : told[s] = IF sinks # << >> /\ sinks[1] = s THEN Due ELSE 0
       /\ loop - 1 <= Len(sinks)
       /\ grown <= Len(sinks)
       /\ ~Begun /\ loop > 0 => grown = 0

IInv ==
  /\ ThreadInv
  /\ TypeOK
  /\ ControlInv
  /\ LockInv
  /\ PairInv
  /\ NoticeInv
(* Without the thread there is no window, and no message is kept.  The     *)
(* window goes before the sinks are told of the stop; only WM_QUIT can be  *)
(* posted after it.                                                        *)
Quiet ==
  /\ Alive = {} => ~window /\ messages = << >>
  /\ loop > 0 => \E t \in Threads :
       \/ fn[t] = "starting"
       \/ /\ fn[t] = "stopping" /\ ~window
          /\ \A i \in DOMAIN messages : messages[i] = WM_QUIT

-----------------------------------------------------------------------------
LEMMA InitInv == ASSUME Init PROVE IInv
<1>1. ThreadInv
  BY ThreadInitInv DEF Init
<1>2. TypeOK
  <2>1. ThreadTypeOK /\ Outside \in [at : {"out", "checked", "inserted"}, id : Nat]
    BY <1>1 DEF ThreadInv, Outside
  <2>2. /\ << >> \in Seq(Nat) /\ << >> \in Seq(Sinks) /\ << >> \in Seq(Nat \ {0})
        /\ [s \in Sinks |-> 0] \in [Sinks -> Int]
    OBVIOUS
  <2>3. [c \in AllCallers |-> Outside]
           \in [AllCallers -> [at : {"out", "checked", "inserted"}, id : Nat]]
    BY <2>1
  <2> QED
    BY <2>1, <2>2, <2>3 DEF Init, TypeOK
<1>3. \A t \in Threads : fn[t] = "none"
  BY DEF Init, ThreadInit
<1>4. ControlInv /\ LockInv /\ NoticeInv
  BY <1>3, AsynAssumption
     DEF Init, ThreadInit, ControlInv, LockInv, NoticeInv, Alive, Outside, AllCallers,
         Begun, Due, NoQuitUpTo
<1>5. PairInv
  <2>1. Taken = 0 /\ Gap = 0 /\ Len(messages) = 0 /\ Len(store) = 0
    BY DEF Init, Taken, Gap
  <2> QED
    BY <2>1 DEF Init, PairInv, Outside, RequestMatchesMessage
<1> QED
  BY <1>1, <1>2, <1>4, <1>5 DEF IInv

(* Steps that leave requests and messages alone and open nothing.          *)
LEMMA PairSame ==
  ASSUME PairInv, Open' => Open,
         UNCHANGED <<messages, store, inside, lock, current, buffer, lost, stale>>
  PROVE  PairInv'
  BY DEF PairInv, Sound, Taken, Gap, NoQuitUpTo, RequestMatchesMessage

(* Steps that leave the array, the loops and the start of the thread alone.*)
LEMMA NoticeSame ==
  ASSUME NoticeInv, UNCHANGED <<sinks, loop, told, grown, removed>>, Begun' = Begun,
         Alive' # {} \/ Alive' = Alive
  PROVE  NoticeInv'
  BY DEF NoticeInv, Due

LEMMA CheckServiceInv ==
  ASSUME IInv, NEW c \in AllCallers, CheckService(c)
  PROVE  IInv'
<1>1. ThreadInv'
  BY DEF CheckService, IInv, ThreadInv, ThreadTypeOK, threadVars
<1>2. TypeOK'
  BY DEF CheckService, IInv, TypeOK, ThreadTypeOK, threadVars, notices
<1>3. ControlInv'
  BY AsynAssumption
     DEF CheckService, IInv, TypeOK, ControlInv, threadVars, Alive, NoQuitUpTo
<1>4. LockInv'
  BY AsynAssumption DEF CheckService, IInv, TypeOK, LockInv, threadVars, AllCallers
<1>5. Gap' = Gap
  BY DEF CheckService, IInv, TypeOK, LockInv, Gap
<1>6. PairInv'
  BY <1>5 DEF CheckService, IInv, TypeOK, PairInv, threadVars, Taken, Open, Serving, Sound,
              NoQuitUpTo, RequestMatchesMessage
<1>7. NoticeInv'
  BY NoticeSame DEF CheckService, IInv, notices, threadVars, Begun, Alive
<1> QED
  BY <1>1, <1>2, <1>3, <1>4, <1>6, <1>7 DEF IInv

LEMMA InsertDataInv ==
  ASSUME IInv, NEW c \in AllCallers, InsertData(c)
  PROVE  IInv'
<1> DEFINE n == added + 1
<1>0. /\ inside[c].at = "checked" /\ lock \in {Nobody, c} /\ lock' = c
      /\ store' = Append(store, n) /\ store \in Seq(Nat \ {0}) /\ n \in Nat \ {0}
      /\ inside' = [inside EXCEPT ![c] = [at |-> "inserted", id |-> n]]
      /\ UNCHANGED <<threadVars, control, bService, window, messages, current, buffer,
                     sinks, notices, handled, lost, stale, refused>>
      /\ added' = n
      /\ c # Nobody /\ Len(store) \in Nat /\ messages \in Seq(Nat)
  BY AsynAssumption DEF InsertData, IInv, TypeOK, AllCallers
<1>1. ThreadInv'
  BY <1>0 DEF IInv, ThreadInv, ThreadTypeOK, threadVars
<1>2. TypeOK'
  BY <1>0 DEF IInv, TypeOK, ThreadTypeOK, threadVars, notices
<1>3. ControlInv'
  BY <1>0, AsynAssumption
     DEF IInv, TypeOK, ControlInv, threadVars, Alive, NoQuitUpTo, AllCallers
<1>4. LockInv'
  BY <1>0, AsynAssumption DEF IInv, TypeOK, LockInv, threadVars, AllCallers
<1>5. Gap = 0 /\ Gap' = 1 /\ Taken' = Taken /\ Taken \in {0, 1}
  BY <1>0 DEF IInv, TypeOK, LockInv, Gap, Taken
<1>6. /\ Len(store') = Len(store) + 1 /\ store'[Len(store')] = n /\ store' # << >>
      /\ \A i \in 1 .. Len(store) : store'[i] = store[i]
      /\ Len(messages) \in Nat /\ (store # << >> => Len(store) >= 1)
  BY <1>0
<1>7. PairInv'
  <2>1. \A d \in AllCallers : inside'[d].at = "inserted" =>
          store' # << >> /\ inside'[d].id = store'[Len(store')] /\ inside'[d].id # WM_QUIT
    BY <1>0, <1>6, AsynAssumption DEF IInv, TypeOK, LockInv, AllCallers, WM_QUIT
  <2>2. ASSUME Open, Sound, NEW i \in 1 .. Len(messages), NoQuitUpTo(i)
        PROVE  i + Taken <= Len(store') /\ store'[i + Taken] = messages[i]
    <3>1. i + Taken <= Len(store) /\ store[i + Taken] = messages[i]
      BY <2>2 DEF IInv, PairInv
    <3>2. i + Taken \in 1 .. Len(store)
      BY <1>0, <1>5, <1>6, <3>1
    <3> QED
      BY <1>0, <1>6, <3>1, <3>2
  <2>3. ASSUME Open, Sound, NoQuitUpTo(Len(messages))
        PROVE  Taken + Len(messages) + 1 = Len(store')
    BY <2>3, <1>0, <1>5, <1>6 DEF IInv, PairInv
  <2>4. ASSUME Open, Sound, Taken = 1
        PROVE  store' # << >> /\ store'[1] = Head(current)
    BY <2>4, <1>0, <1>6 DEF IInv, PairInv
  <2>5. /\ Open' = Open /\ Sound' = Sound /\ messages' = messages /\ current' = current
        /\ \A i : NoQuitUpTo(i)' = NoQuitUpTo(i)
        /\ RequestMatchesMessage'
    BY <1>0 DEF IInv, PairInv, RequestMatchesMessage, Open, Serving, Sound, NoQuitUpTo,
                threadVars
  <2> QED
    BY <1>5, <2>1, <2>2, <2>3, <2>4, <2>5 DEF PairInv
<1>8. NoticeInv'
  BY <1>0, NoticeSame DEF IInv, notices, threadVars, Begun, Alive
<1> QED
  BY <1>1, <1>2, <1>3, <1>4, <1>7, <1>8 DEF IInv

LEMMA PostMessageInv ==
  ASSUME IInv, NEW c \in AllCallers, PostMessage(c)
  PROVE  IInv'
<1> DEFINE id == inside[c].id
<1>0. /\ inside[c].at = "inserted" /\ lock = c
      /\ lock' = IF c = Self THEN Self ELSE Nobody
      /\ inside' = [inside EXCEPT ![c] = Outside]
      /\ UNCHANGED <<threadVars, control, bService, window, store, current, buffer,
                     sinks, notices, added, handled, stale, refused>>
      /\ store \in Seq(Nat \ {0}) /\ messages \in Seq(Nat) /\ lost \in Nat
      /\ \/ messages' = Append(messages, id) /\ lost' = lost
         \/ messages' = messages /\ lost' = lost + 1
      /\ stale = 0 => id = store[Len(store)] /\ store # << >>
      /\ id # WM_QUIT /\ id \in Nat
      /\ c # Nobody /\ Outside.at = "out"
      /\ Outside \in [at : {"out", "checked", "inserted"}, id : Nat]
  BY AsynAssumption
     DEF PostMessage, IInv, TypeOK, LockInv, PairInv, AllCallers, Outside
<1>1. ThreadInv'
  BY <1>0 DEF IInv, ThreadInv, ThreadTypeOK, threadVars
<1>2. TypeOK'
  <2>1. messages' \in Seq(Nat)
    <3>1. /\ messages \in Seq(Nat) /\ id \in Nat
          /\ messages' = Append(messages, id) \/ messages' = messages
      BY <1>0
    <3> HIDE DEF id
    <3> QED
      BY <3>1
  <2>a. lost' \in Nat
    <3>1. lost \in Nat /\ (lost' = lost \/ lost' = lost + 1)
      BY <1>0
    <3> QED
      BY <3>1
  <2>b. lock' \in AllCallers \cup {Nobody}
    BY <1>0 DEF AllCallers
  <2> QED
    BY <1>0, <2>1, <2>a, <2>b DEF IInv, TypeOK, ThreadTypeOK, threadVars, notices
<1>a. /\ Len(messages) \in Nat /\ Len(store) \in Nat
      /\ Taken' = Taken /\ Taken \in {0, 1} /\ Gap = 1 /\ Gap' = 0
  <2>1. Len(messages) \in Nat /\ Len(store) \in Nat
    BY <1>0
  <2>2. Taken' = Taken /\ Taken \in {0, 1} /\ Gap = 1
    BY <1>0 DEF Taken, Gap
  <2>3. Gap' = 0
    BY <1>0 DEF Gap, IInv, TypeOK
  <2> QED
    BY <2>1, <2>2, <2>3
<1>b. ASSUME messages' = Append(messages, id), lost' = lost
      PROVE  ControlInv' /\ PairInv'
  <2>1. /\ Len(messages') = Len(messages) + 1 /\ messages'[Len(messages) + 1] = id
        /\ \A i \in 1 .. Len(messages) : messages'[i] = messages[i]
    BY <1>0, <1>b
  <2>2. \A i \in 1 .. Len(messages) : NoQuitUpTo(i)' <=> NoQuitUpTo(i)
    BY <1>a, <2>1 DEF NoQuitUpTo
  <2>3. NoQuitUpTo(Len(messages))' <=> NoQuitUpTo(Len(messages))
    <3>1. \A j \in 1 .. Len(messages') : j \in 1 .. Len(messages) \/ j = Len(messages) + 1
      BY <1>a, <2>1
    <3>2. \A j \in 1 .. Len(messages) : j \in 1 .. Len(messages')
      BY <1>a, <2>1
    <3> QED
      BY <1>0, <2>1, <3>1, <3>2 DEF NoQuitUpTo
  <2>4. ControlInv'
    <3>1. control \in {"idle", "starting"} => NoQuitUpTo(Len(messages))'
      BY <2>3 DEF IInv, ControlInv
    <3> QED
      BY <1>0, <3>1 DEF IInv, TypeOK, ControlInv, threadVars, Alive
  <2>5. PairInv'
    <3>1. ASSUME Open, Sound, NEW i \in 1 .. Len(messages'), NoQuitUpTo(i)'
          PROVE  i + Taken <= Len(store) /\ store[i + Taken] = messages'[i]
      <4>1. CASE i \in 1 .. Len(messages)
        BY <1>a, <2>1, <2>2, <3>1, <4>1 DEF IInv, PairInv
      <4>2. CASE i = Len(messages')
        <5>1. NoQuitUpTo(Len(messages))
          BY <2>3, <3>1, <4>2
        <5>2. Taken + Len(messages) + 1 = Len(store)
          BY <1>a, <3>1, <5>1 DEF IInv, PairInv
        <5> QED
          BY <1>0, <1>a, <2>1, <3>1, <4>2, <5>2 DEF Sound
      <4> QED
        BY <1>a, <2>1, <4>1, <4>2
    <3>2. ASSUME Open, Sound, NoQuitUpTo(Len(messages))'
          PROVE  Taken + Len(messages') + 0 = Len(store)
      BY <1>a, <2>1, <2>3, <3>2 DEF IInv, PairInv
    <3>3. \A d \in AllCallers : inside'[d].at # "inserted"
      BY <1>0 DEF IInv, TypeOK, LockInv
    <3>4. /\ Open' = Open /\ Sound' = Sound /\ store' = store /\ current' = current
          /\ RequestMatchesMessage'
      BY <1>0, <1>b DEF IInv, PairInv, RequestMatchesMessage, Open, Serving, Sound,
                        threadVars
    <3>5. Open /\ Sound => (Taken = 1 => store # << >> /\ store[1] = Head(current))
      BY DEF IInv, PairInv
    <3> QED
      BY <1>a, <1>b, <3>1, <3>2, <3>3, <3>4, <3>5 DEF PairInv
  <2> QED
    BY <2>4, <2>5
<1>c. ASSUME messages' = messages, lost' = lost + 1
      PROVE  ControlInv' /\ PairInv'
  <2>1. ControlInv'
    BY <1>0, <1>c DEF IInv, TypeOK, ControlInv, threadVars, Alive, NoQuitUpTo
  <2>2. lost' # 0 /\ ~Sound'
    BY <1>0, <1>c DEF Sound
  <2>3. \A d \in AllCallers : inside'[d].at # "inserted"
    BY <1>0 DEF IInv, TypeOK, LockInv
  <2>4. PairInv'
    BY <2>2, <2>3 DEF PairInv, RequestMatchesMessage
  <2> QED
    BY <2>1, <2>4
<1>4. LockInv'
  BY <1>0, AsynAssumption DEF IInv, TypeOK, LockInv, threadVars, AllCallers
<1>5. NoticeInv'
  BY <1>0, NoticeSame DEF IInv, notices, threadVars, Begun, Alive
<1> QED
  BY <1>0, <1>1, <1>2, <1>b, <1>c, <1>4, <1>5 DEF IInv

(* Registration changes nothing but the array and what is owed to a sink.  *)
LEMMA RegisterInv ==
  ASSUME IInv, NEW s \in Sinks,
         RegisterAsynchronismEngineSink(s) \/ UnRegisterAsynchronismEngineSink(s)
  PROVE  IInv'
<1>0. /\ UNCHANGED <<threadVars, control, bService, window, messages, store, inside, lock,
                     current, buffer, loop, added, handled, lost, stale, refused>>
      /\ sinks' \in Seq(Sinks) /\ told' \in [Sinks -> Int] /\ grown' \in Nat
      /\ removed' \in BOOLEAN
  <2>1. CASE RegisterAsynchronismEngineSink(s)
    BY <2>1 DEF RegisterAsynchronismEngineSink, IInv, TypeOK
  <2>2. CASE UnRegisterAsynchronismEngineSink(s)
    BY <2>2 DEF UnRegisterAsynchronismEngineSink, IInv, TypeOK
  <2> QED
    BY <2>1, <2>2
<1>1. ThreadInv' /\ TypeOK'
  BY <1>0 DEF IInv, ThreadInv, TypeOK, ThreadTypeOK, threadVars
<1>2. ControlInv' /\ LockInv'
  BY <1>0 DEF IInv, ControlInv, LockInv, threadVars, Alive, NoQuitUpTo
<1>3. PairInv'
  BY <1>0, PairSame DEF IInv, threadVars, Open, Serving
<1>4. Begun' = Begun /\ Alive' = Alive
  BY <1>0 DEF Begun, Alive, threadVars
<1>5. NoticeInv'
  <2>1. CASE UnRegisterAsynchronismEngineSink(s)
    BY <1>0, <1>4, <2>1 DEF UnRegisterAsynchronismEngineSink, IInv, NoticeInv
  <2>2. CASE RegisterAsynchronismEngineSink(s) /\ removed
    BY <1>0, <1>4, <2>2 DEF RegisterAsynchronismEngineSink, IInv, NoticeInv
  <2>3. CASE RegisterAsynchronismEngineSink(s) /\ ~removed
    <3>1. /\ sinks \in Seq(Sinks) /\ sinks' = Append(sinks, s) /\ told' = told
          /\ grown' = (IF Begun THEN grown + 1 ELSE grown) /\ removed' = removed
      BY <2>3 DEF RegisterAsynchronismEngineSink, IInv, TypeOK
    <3>2. /\ Len(sinks) \in Nat /\ Len(sinks') = Len(sinks) + 1 /\ sinks' # << >>
          /\ sinks # << >> => sinks'[1] = sinks[1]
          /\ sinks = << >> => Len(sinks) = 0
      BY <3>1
    <3>3. /\ loop \in Nat /\ grown \in Nat /\ loop - 1 <= Len(sinks) /\ grown <= Len(sinks)
          /\ ~Begun /\ loop > 0 => grown = 0
          /\ \A d \in Sinks : told[d] = IF sinks # << >> /\ sinks[1] = d THEN Due ELSE 0
      BY <2>3 DEF IInv, TypeOK, NoticeInv
    <3>4. Due' = Due
      BY <1>0, <1>4, <3>1, <3>2, <3>3 DEF Due
    <3>5. Len(sinks) = 0 => Due = 0
      BY <3>2, <3>3 DEF Due
    <3>6. \A d \in Sinks : told'[d] = IF sinks' # << >> /\ sinks'[1] = d THEN Due' ELSE 0
      BY <3>1, <3>2, <3>3, <3>4, <3>5
    <3>7. /\ loop' - 1 <= Len(sinks') /\ grown' <= Len(sinks')
          /\ ~Begun' /\ loop' > 0 => grown' = 0
      BY <1>0, <1>4, <3>1, <3>2, <3>3
    <3>8. Alive' = {} => loop' = 0
      BY <1>0, <1>4 DEF IInv, NoticeInv
    <3> QED
      BY <3>6, <3>7, <3>8 DEF NoticeInv
  <2> QED
    BY <2>1, <2>2, <2>3
<1> QED
  BY <1>1, <1>2, <1>3, <1>5 DEF IInv
-----------------------------------------------------------------------------
(* The message thread. *)

LEMMA CreateWindowInv ==
  ASSUME IInv, NEW t \in Threads, CreateWindow(t)
  PROVE  IInv'
<1>0. /\ fn[t] = "starting" /\ loop' = 1 /\ window' \in BOOLEAN
      /\ told' = [s \in Sinks |-> 0] /\ grown' = 0 /\ removed' = FALSE
      /\ UNCHANGED <<threadVars, control, bService, messages, store, inside, lock, current,
                     buffer, sinks, added, handled, lost, stale, refused>>
      /\ \A u \in Threads : fn[u] # "none" => u = t
      /\ Len(sinks) \in Nat
  BY DEF CreateWindow, IInv, TypeOK, ThreadInv
<1>1. ThreadInv' /\ TypeOK'
  <2>1. ThreadInv' /\ told' \in [Sinks -> Int]
    BY <1>0 DEF IInv, ThreadInv, ThreadTypeOK, threadVars
  <2>2. loop' \in Nat /\ grown' \in Nat /\ removed' \in BOOLEAN
    BY <1>0
  <2> QED
    BY <1>0, <2>1, <2>2 DEF IInv, TypeOK, ThreadTypeOK, threadVars
<1>2. ControlInv' /\ LockInv' /\ PairInv'
  BY <1>0, PairSame DEF IInv, ControlInv, LockInv, threadVars, Alive, Open, Serving,
                        NoQuitUpTo
<1>3. ~Begun' /\ Alive' # {}
  BY <1>0 DEF Begun, Alive, threadVars
<1>4. NoticeInv'
  <2>1. Due' = 0 /\ loop' - 1 <= Len(sinks') /\ grown' <= Len(sinks')
    BY <1>0, <1>3 DEF Due
  <2> QED
    BY <1>0, <1>3, <2>1 DEF NoticeInv
<1> QED
  BY <1>1, <1>2, <1>4 DEF IInv

LEMMA TellSinkInv ==
  ASSUME IInv, NEW t \in Threads, TellSink(t)
  PROVE  IInv'
<1> DEFINE n == IF fn[t] = "starting" THEN 1 ELSE -1
<1>0. /\ fn[t] \in {"starting", "stopping"} /\ loop \in 1 .. Len(sinks) /\ loop' = loop + 1
      /\ told' = Told(n) /\ told \in [Sinks -> Int] /\ sinks \in Seq(Sinks)
      /\ UNCHANGED <<threadVars, control, bService, window, messages, store, inside, lock,
                     current, buffer, sinks, grown, removed, added, handled, lost, stale,
                     refused>>
      /\ \A u \in Threads : fn[u] # "none" => u = t
  BY DEF TellSink, IInv, TypeOK, ThreadInv
<1>1. sinks # << >> /\ sinks[1] \in Sinks /\ Len(sinks) \in Nat /\ loop \in Nat
  BY <1>0
<1>2. n \in Int /\ (n = 1 <=> fn[t] = "starting") /\ (n = -1 <=> fn[t] # "starting")
  OBVIOUS
<1> HIDE DEF n
<1>3. told' \in [Sinks -> Int]
  BY <1>0, <1>1, <1>2 DEF Told
<1>4. ThreadInv' /\ TypeOK'
  BY <1>0, <1>1, <1>3 DEF IInv, ThreadInv, TypeOK, ThreadTypeOK, threadVars
<1>5. ControlInv' /\ LockInv' /\ PairInv'
  BY <1>0, PairSame DEF IInv, ControlInv, LockInv, threadVars, Alive, Open, Serving,
                        NoQuitUpTo
<1>6. Begun' = Begun /\ Alive' # {} /\ (Begun <=> fn[t] # "starting")
  BY <1>0 DEF Begun, Alive, threadVars
<1>7. NoticeInv'
  <2>1. CASE removed
    BY <1>0, <1>6, <2>1 DEF NoticeInv
  <2>2. CASE ~removed
    <3>1. /\ grown \in Nat /\ grown <= Len(sinks) /\ (~Begun /\ loop > 0 => grown = 0)
          /\ \A d \in Sinks : told[d] = IF sinks[1] = d THEN Due ELSE 0
      BY <1>0, <1>1, <2>2 DEF IInv, TypeOK, NoticeInv
    <3>2. Due' = Due + n
      <4>1. loop # 0 /\ loop' # 0 /\ loop' - 1 = (loop - 1) + 1
        BY <1>0, <1>1
      <4>2. CASE fn[t] = "starting"
        <5>1. n = 1 /\ Due = loop - 1 /\ Due' = loop' - 1
          BY <1>2, <1>6, <4>1, <4>2 DEF Due
        <5> QED
          BY <1>1, <4>1, <5>1
      <4>3. CASE fn[t] # "starting"
        <5>1. /\ n = -1 /\ Due = (Len(sinks) - grown) - (loop - 1)
              /\ Due' = (Len(sinks) - grown) - (loop' - 1)
          BY <1>0, <1>2, <1>6, <4>1, <4>3 DEF Due
        <5> QED
          BY <1>1, <3>1, <4>1, <5>1
      <4> QED
        BY <4>2, <4>3
    <3>3. told' = [told EXCEPT ![sinks[1]] = @ + n]
      BY <1>0, <2>2 DEF Told
    <3>4. \A d \in Sinks : told'[d] = IF sinks[1] = d THEN Due' ELSE 0
      BY <1>0, <1>1, <3>1, <3>2, <3>3
    <3>5. loop' - 1 <= Len(sinks) /\ grown' <= Len(sinks)
          /\ (~Begun' /\ loop' > 0 => grown' = 0)
      BY <1>0, <1>1, <1>6, <3>1
    <3> QED
      BY <1>0, <1>1, <1>6, <3>4, <3>5 DEF NoticeInv
  <2> QED
    BY <2>1, <2>2
<1> QED
  BY <1>4, <1>5, <1>7 DEF IInv

LEMMA ThreadStartInv ==
  ASSUME IInv, NEW t \in Threads, NEW good \in BOOLEAN, OnMessageThreadStart(t, good)
  PROVE  IInv'
<1>0. /\ fn[t] = "starting" /\ owner = "waiting" /\ ~param.finish
      /\ fn' = [fn EXCEPT ![t] = IF good THEN "signalGood" ELSE "signalBad"]
      /\ param' = [param EXCEPT !.success = good]
      /\ loop > 0 /\ loop > Len(sinks) /\ loop' = 0
      /\ UNCHANGED <<owner, handle, run, control, bService, window, messages, store, inside,
                     lock, current, buffer, sinks, told, grown, removed, added, handled,
                     lost, stale, refused>>
      /\ \A u \in Threads : fn[u] # "none" => u = t
      /\ ThreadTypeOK
  BY DEF OnMessageThreadStart, ThreadStartEvent, IInv, ThreadInv, ThreadTypeOK
<1>1. ThreadInv'
  BY FunctionStepInv DEF OnMessageThreadStart, IInv
<1>2. ~Begun /\ Begun' /\ Alive' # {}
  BY <1>0 DEF Begun, Alive, ThreadTypeOK
<1>3. TypeOK'
  BY <1>0, <1>1 DEF IInv, TypeOK, ThreadInv
<1>4. NoticeInv'
  <2>1. loop \in Nat /\ Len(sinks) \in Nat
    BY DEF IInv, TypeOK
  <2>2. ~removed => /\ loop - 1 = Len(sinks) /\ grown = 0
                    /\ Due = loop - 1 /\ Due' = Len(sinks)
    BY <1>0, <1>2, <2>1 DEF IInv, NoticeInv, Due
  <2> QED
    BY <1>0, <1>2, <2>1, <2>2 DEF IInv, NoticeInv
<1>a. control = "starting" /\ ~bService
  BY <1>0 DEF IInv, ControlInv
<1>b. current = << >>
  BY <1>0 DEF IInv, LockInv
<1>5. ControlInv' /\ LockInv'
  BY <1>0, <1>a, <1>b DEF IInv, ControlInv, LockInv, Alive, NoQuitUpTo
<1>6. PairInv'
  BY <1>0, <1>a, PairSame DEF IInv, Open
<1> QED
  BY <1>1, <1>3, <1>4, <1>5, <1>6 DEF IInv

LEMMA ThreadGoesOnInv ==
  ASSUME IInv, NEW t \in Threads, ThreadGoesOn(t)
  PROVE  IInv'
<1>0. /\ UNCHANGED asynVars
      /\ fn[t] \in {"signalGood", "signalBad", "looping"}
      /\ fn' \in {[fn EXCEPT ![t] = "looping"], [fn EXCEPT ![t] = "running"],
                  [fn EXCEPT ![t] = "stopping"]}
      /\ fn[t] = "looping" /\ run => fn' = [fn EXCEPT ![t] = "running"]
      /\ fn[t] = "looping" => param' = param
      /\ fn[t] = "signalGood" => fn' = [fn EXCEPT ![t] = "looping"]
      /\ fn[t] = "signalBad" => fn' = [fn EXCEPT ![t] = "stopping"]
      /\ param'.success = param.success
      /\ UNCHANGED <<owner, handle, run>>
      /\ \A u \in Threads : fn[u] # "none" => u = t
      /\ ThreadTypeOK
  BY DEF ThreadGoesOn, ThreadSetEvent, ThreadLoop, IInv, ThreadInv, ThreadTypeOK
<1>1. ThreadInv'
  BY FunctionStepInv DEF ThreadGoesOn, IInv
<1>2. TypeOK'
  BY <1>0, <1>1 DEF asynVars, IInv, TypeOK, ThreadInv
<1>3. Begun' /\ Begun /\ Serving
  BY <1>0 DEF Begun, Serving, ThreadTypeOK
<1>4. NoticeInv'
  <2>1. Alive' # {}
    BY <1>0 DEF Alive, ThreadTypeOK
  <2> QED
    BY <1>0, <1>3, <2>1, NoticeSame DEF asynVars, IInv
<1>5. ControlInv'
  <2>1. Alive' = Alive
    BY <1>0 DEF Alive, ThreadTypeOK
  <2>2. fn[t] # "looping" => owner = "waiting" /\ control = "starting" /\ ~bService
    BY <1>0 DEF IInv, ThreadInv, ControlInv
  <2>3. fn[t] = "signalGood" <=> fn[t] # "looping" /\ param.success
    BY <1>0, <2>2 DEF IInv, ThreadInv
  <2>4. owner = "waiting" => run
    BY DEF IInv, ThreadInv
  <2>5. bService' => \E u \in Threads : fn'[u] \in {"looping", "running"}
    BY <1>0, <2>2 DEF asynVars, IInv, ControlInv, ThreadTypeOK
  <2>6. owner' = "waiting" /\ param'.finish /\ param'.success =>
          \E u \in Threads : fn'[u] \in {"looping", "running"}
    BY <1>0, <2>3, <2>4 DEF ThreadTypeOK
  <2> QED
    BY <1>0, <2>1, <2>5, <2>6 DEF asynVars, IInv, ControlInv, NoQuitUpTo
<1>6. current = << >> /\ LockInv'
  BY <1>0 DEF asynVars, IInv, LockInv, ThreadTypeOK
<1>7. PairInv'
  BY <1>0, <1>3, PairSame DEF asynVars, IInv, Open
<1> QED
  BY <1>1, <1>2, <1>4, <1>5, <1>6, <1>7 DEF IInv

LEMMA GetMessageInv ==
  ASSUME IInv, NEW t \in Threads, GetMessage(t)
  PROVE  IInv'
<1>0. /\ fn[t] = "running" /\ current = << >> /\ buffer = << >>
      /\ messages \in Seq(Nat) /\ messages # << >> /\ messages' = Tail(messages)
      /\ Head(messages) = messages[1] /\ Head(messages) \in Nat
      /\ messages' \in Seq(Nat) /\ Len(messages') = Len(messages) - 1
      /\ Len(messages) \in Nat /\ Len(messages) >= 1
      /\ \A i \in 1 .. Len(messages') : messages'[i] = messages[i + 1]
      /\ UNCHANGED <<control, bService, window, store, inside, lock, buffer, sinks, notices,
                     added, handled, lost, stale, refused>>
      /\ UNCHANGED <<owner, handle, run, param>>
      /\ \A u \in Threads : fn[u] # "none" => u = t
      /\ ThreadTypeOK
  BY DEF GetMessage, ThreadRan, threadVars, IInv, TypeOK, LockInv, ThreadInv
<1>1. ThreadInv'
  BY ThreadStepInv, StepIsThreadStep DEF IInv, Next, MessageThread
<1>2. Begun' /\ Begun /\ Serving
  BY <1>0 DEF GetMessage, ThreadRan, threadVars, Begun, Serving, ThreadTypeOK
<1>3. NoticeInv'
  <2>1. fn'[t] # "none" /\ Alive' # {}
    BY <1>0 DEF GetMessage, ThreadRan, threadVars, Alive, ThreadTypeOK
  <2> QED
    BY <1>0, <1>2, <2>1, NoticeSame DEF IInv, notices
<1>4. CASE Head(messages) = WM_QUIT /\ ThreadRan(t, FALSE) /\ current' = current
  <2>1. fn' = [fn EXCEPT ![t] = "stopping"]
    BY <1>4 DEF ThreadRan
  <2>2. ~bService /\ (control \in {"idle", "starting"} => FALSE)
    BY <1>0, <1>4 DEF IInv, ControlInv, NoQuitUpTo
  <2>3. TypeOK' /\ LockInv'
    BY <1>0, <1>1, <1>4, <2>1 DEF IInv, TypeOK, LockInv, ThreadInv, notices
  <2>4. ControlInv'
    BY <1>0, <2>1, <2>2 DEF IInv, ControlInv, Alive, ThreadTypeOK
  <2>5. ~Serving' /\ ~Open'
    BY <1>0, <2>1, <2>2 DEF Open, Serving, ThreadTypeOK
  <2>6. PairInv'
    BY <1>0, <2>5 DEF IInv, PairInv, RequestMatchesMessage
  <2> QED
    BY <1>1, <1>3, <2>3, <2>4, <2>6 DEF IInv
<1>5. CASE Head(messages) # WM_QUIT /\ current' = <<Head(messages)>> /\ UNCHANGED threadVars
  <2>0. UNCHANGED threadVars /\ fn' = fn
    BY <1>5 DEF threadVars
  <2>1. TypeOK' /\ LockInv'
    BY <1>0, <1>5, <2>0 DEF IInv, TypeOK, LockInv, ThreadTypeOK, notices
  <2>2. ASSUME NEW i \in 0 .. Len(messages'), NoQuitUpTo(i)'
        PROVE  NoQuitUpTo(i + 1)
    <3> SUFFICES ASSUME NEW j \in 1 .. i + 1 PROVE messages[j] # WM_QUIT
      BY DEF NoQuitUpTo
    <3>1. CASE j = 1
      BY <1>0, <1>5, <3>1
    <3>2. CASE j # 1
      <4>1. j - 1 \in 1 .. i /\ j - 1 \in 1 .. Len(messages') /\ (j - 1) + 1 = j
        BY <1>0, <3>2
      <4>2. messages'[j - 1] = messages[j]
        BY <1>0, <4>1
      <4> QED
        BY <2>2, <4>1, <4>2 DEF NoQuitUpTo
    <3> QED
      BY <3>1, <3>2
  <2>3. NoQuitUpTo(Len(messages)) => NoQuitUpTo(Len(messages))'
    <3> SUFFICES ASSUME NoQuitUpTo(Len(messages)), NEW j \in 1 .. Len(messages')
                 PROVE  messages'[j] # WM_QUIT
      BY DEF NoQuitUpTo
    <3>1. j + 1 \in 1 .. Len(messages) /\ messages'[j] = messages[j + 1]
      BY <1>0
    <3> QED
      BY <3>1 DEF NoQuitUpTo
  <2>4. ControlInv'
    BY <1>0, <2>0, <2>3 DEF IInv, ControlInv, Alive, threadVars
  <2>5. Taken = 0 /\ Taken' = 1 /\ Gap' = Gap /\ Gap \in {0, 1}
    BY <1>0, <1>5 DEF Taken, Gap
  <2>a. Open /\ Open' /\ Sound' = Sound
    BY <1>0, <1>2, <2>0 DEF Open, Serving, Sound
  <2>6. Sound => 1 <= Len(store) /\ store[1] = messages[1]
    <3>1. NoQuitUpTo(1)
      BY <1>0, <1>5 DEF NoQuitUpTo
    <3>2. 1 \in 1 .. Len(messages) /\ 1 + 0 = 1
      BY <1>0
    <3> QED
      BY <2>5, <2>a, <3>1, <3>2 DEF IInv, PairInv
  <2>7. ASSUME Sound, NEW i \in 1 .. Len(messages'), NoQuitUpTo(i)'
        PROVE  i + 1 <= Len(store) /\ store[i + 1] = messages'[i]
    <3>1. NoQuitUpTo(i + 1) /\ i + 1 \in 1 .. Len(messages) /\ (i + 1) + 0 = i + 1
      BY <1>0, <2>2, <2>7
    <3> QED
      BY <1>0, <2>5, <2>7, <2>a, <3>1 DEF IInv, PairInv
  <2>8. ASSUME Sound, NoQuitUpTo(Len(messages))'
        PROVE  1 + Len(messages') + Gap = Len(store)
    <3>1. NoQuitUpTo(Len(messages))
      <4>1. Len(messages') \in 0 .. Len(messages') /\ Len(messages') + 1 = Len(messages)
        BY <1>0
      <4> QED
        BY <2>2, <2>8, <4>1
    <3> QED
      BY <1>0, <2>5, <2>8, <2>a, <3>1 DEF IInv, PairInv
  <2>9. PairInv'
    <3>1. Head(current') = messages[1] /\ (1 <= Len(store) => store # << >>)
      BY <1>0, <1>5
    <3>2. Sound => store # << >> /\ store[1] = Head(current')
      BY <2>6, <3>1
    <3>3. /\ UNCHANGED <<store, inside, lost, stale, buffer>> /\ RequestMatchesMessage'
      BY <1>0 DEF RequestMatchesMessage
    <3> QED
      BY <2>5, <2>7, <2>8, <2>a, <3>2, <3>3 DEF IInv, PairInv
  <2> QED
    BY <1>1, <1>3, <2>1, <2>4, <2>9 DEF IInv
<1> QED
  BY <1>4, <1>5 DEF GetMessage

(* The message taken is of the request at the front of the store.          *)
LEMMA TakenHasRequest ==
  ASSUME IInv, NEW t \in Threads, DistillData(t)
  PROVE  /\ Sound => store # << >> /\ Head(store) = Head(current)
         /\ Taken = 1 /\ Serving
<1>1. Taken = 1 /\ Serving
  BY DEF DistillData, Taken, Serving
<1> QED
  BY <1>1 DEF IInv, TypeOK, PairInv, Open

LEMMA DistillDataInv ==
  ASSUME IInv, NEW t \in Threads, DistillData(t)
  PROVE  IInv'
<1>0. /\ fn[t] = "running" /\ current # << >> /\ current = <<Head(current)>>
      /\ buffer = << >> /\ lock = Nobody /\ lock' = Self
      /\ store \in Seq(Nat \ {0})
      /\ \/ store = << >> /\ store' = store /\ buffer' = <<0>>
         \/ store # << >> /\ store' = Tail(store) /\ buffer' = <<Head(store)>>
      /\ Sound => store # << >> /\ Head(store) = Head(current)
      /\ UNCHANGED <<threadVars, control, bService, window, messages, inside, current,
                     sinks, notices, added, handled, lost, stale, refused>>
      /\ Taken = 1 /\ Serving
      /\ Len(messages) \in Nat
  BY TakenHasRequest DEF DistillData, IInv, TypeOK, LockInv
<1>1. /\ store' \in Seq(Nat \ {0})
      /\ buffer' \in Seq(Nat) /\ buffer' # << >> /\ buffer' = <<Head(buffer')>>
  <2>0. \A n \in Nat : <<n>> \in Seq(Nat) /\ <<n>> # << >> /\ Head(<<n>>) = n
    OBVIOUS
  <2>1. CASE store = << >>
    BY <1>0, <2>0, <2>1
  <2>2. CASE store # << >>
    <3>1. Head(store) \in Nat /\ Tail(store) \in Seq(Nat \ {0})
      BY <1>0, <2>2
    <3>2. store' = Tail(store) /\ buffer' = <<Head(store)>>
      BY <1>0, <2>2
    <3> QED
      BY <2>0, <3>1, <3>2
  <2> QED
    BY <2>1, <2>2
<1>2. ThreadInv' /\ TypeOK'
  BY <1>0, <1>1
     DEF IInv, ThreadInv, TypeOK, ThreadTypeOK, threadVars, notices, AllCallers
<1>3. \A c \in AllCallers : inside[c].at # "inserted"
  BY <1>0, AsynAssumption DEF IInv, LockInv, AllCallers
<1>4. ControlInv'
  BY <1>0 DEF IInv, ControlInv, Alive, NoQuitUpTo, threadVars
<1>5. LockInv'
  BY <1>0, <1>1, <1>3, AsynAssumption DEF IInv, LockInv, threadVars, AllCallers
<1>6. Gap = 0 /\ Gap' = 0 /\ Taken' = 0
  BY <1>0, <1>1, <1>3 DEF Gap, Taken, AllCallers
<1>7. PairInv'
  <2>0. Open /\ Open' /\ Sound' = Sound
    BY <1>0 DEF Open, Serving, Sound, threadVars
  <2>a. Sound => /\ Len(store) \in Nat /\ Len(store') = Len(store) - 1
                 /\ \A i \in 1 .. Len(store) - 1 : store'[i] = store[i + 1]
    <3>1. ASSUME NEW q \in Seq(Nat \ {0}), q # << >>
          PROVE  /\ Len(q) \in Nat /\ Len(Tail(q)) = Len(q) - 1
                 /\ \A i \in 1 .. Len(q) - 1 : Tail(q)[i] = q[i + 1]
      BY <3>1
    <3>2. Sound => store # << >> /\ store' = Tail(store)
      BY <1>0
    <3> QED
      BY <1>0, <3>1, <3>2
  <2>1. ASSUME Sound, NEW i \in 1 .. Len(messages), NoQuitUpTo(i)
        PROVE  i + 0 <= Len(store') /\ store'[i + 0] = messages[i]
    <3>1. i + 1 <= Len(store) /\ store[i + 1] = messages[i]
      BY <1>0, <2>0, <2>1 DEF IInv, PairInv
    <3>2. i \in 1 .. Len(store) - 1 /\ i + 0 = i
      BY <1>0, <2>1, <2>a, <3>1
    <3> QED
      BY <2>1, <2>a, <3>1, <3>2
  <2>2. ASSUME Sound, NoQuitUpTo(Len(messages))
        PROVE  0 + Len(messages) + 0 = Len(store')
    <3>1. 1 + Len(messages) + 0 = Len(store)
      BY <1>0, <1>6, <2>0, <2>2 DEF IInv, PairInv
    <3> QED
      BY <1>0, <2>2, <2>a, <3>1
  <2>3. RequestMatchesMessage'
    BY <1>0 DEF RequestMatchesMessage, Sound
  <2>4. /\ \A i : NoQuitUpTo(i)' = NoQuitUpTo(i)
        /\ messages' = messages /\ inside' = inside
    BY <1>0 DEF NoQuitUpTo
  <2> QED
    BY <1>3, <1>6, <2>0, <2>1, <2>2, <2>3, <2>4 DEF PairInv
<1>8. NoticeInv'
  BY <1>0, NoticeSame DEF IInv, notices, threadVars, Begun, Alive
<1> QED
  BY <1>2, <1>4, <1>5, <1>7, <1>8 DEF IInv

LEMMA RequestHandledInv ==
  ASSUME IInv, NEW t \in Threads, OnAsynchronismRequest(t)
  PROVE  IInv'
<1>0. /\ fn[t] = "running" /\ fn' = [fn EXCEPT ![t] = "looping"]
      /\ buffer # << >> /\ buffer' = << >> /\ current' = << >>
      /\ lock = Self /\ lock' = Nobody /\ inside[Self].at = "out"
      /\ handled' \in Nat
      /\ UNCHANGED <<control, bService, window, messages, store, inside, sinks, notices,
                     added, lost, stale, refused>>
      /\ UNCHANGED <<owner, handle, run, param>>
      /\ \A u \in Threads : fn[u] # "none" => u = t
      /\ ThreadTypeOK
  BY DEF OnAsynchronismRequest, ThreadRan, IInv, TypeOK, LockInv, ThreadInv
<1>1. ThreadInv'
  BY ThreadStepInv, StepIsThreadStep DEF IInv, Next, MessageThread
<1>2. TypeOK'
  BY <1>0, <1>1 DEF IInv, TypeOK, ThreadInv, notices
<1>3. Serving /\ Serving' /\ Begun /\ Begun' /\ Alive' = Alive
  BY <1>0 DEF Serving, Begun, Alive, ThreadTypeOK
<1>4. \A c \in AllCallers : inside[c].at # "inserted"
  BY <1>0 DEF IInv, LockInv
<1>5. Gap = 0 /\ Gap' = 0 /\ Taken = 0 /\ Taken' = 0
  BY <1>0 DEF Gap, Taken
<1>6. ControlInv'
  BY <1>0, <1>3 DEF IInv, ControlInv, NoQuitUpTo, ThreadTypeOK
<1>7. LockInv'
  BY <1>0, <1>4, AsynAssumption DEF IInv, LockInv, AllCallers
<1>8. PairInv'
  BY <1>0, <1>3, <1>4, <1>5
     DEF IInv, PairInv, Open, Sound, NoQuitUpTo, RequestMatchesMessage
<1>9. NoticeInv'
  BY <1>0, <1>3, NoticeSame DEF IInv, notices
<1> QED
  BY <1>1, <1>2, <1>6, <1>7, <1>8, <1>9 DEF IInv

LEMMA LostTyped ==
  ASSUME NEW s \in Seq(Nat), NEW n \in Nat
  PROVE  /\ n + Cardinality({i \in DOMAIN s : s[i] # WM_QUIT}) \in Nat
         /\ n + Cardinality({i \in DOMAIN s : s[i] # WM_QUIT}) = 0 =>
              n = 0 /\ \A i \in DOMAIN s : s[i] = WM_QUIT
<1> DEFINE R == {i \in DOMAIN s : s[i] # WM_QUIT}
<1>1. IsFiniteSet(1 .. Len(s)) /\ R \subseteq 1 .. Len(s)
  BY FS_Interval
<1>2. IsFiniteSet(R) /\ Cardinality(R) \in Nat
  BY <1>1, FS_Subset, FS_CardinalityType
<1>3. Cardinality(R) = 0 => R = {}
  BY <1>2, FS_EmptySet
<1>4. R = {} => \A i \in DOMAIN s : s[i] = WM_QUIT
  OBVIOUS
<1> HIDE DEF R
<1>5. /\ n + Cardinality(R) \in Nat
      /\ n + Cardinality(R) = 0 => n = 0 /\ Cardinality(R) = 0
  BY <1>2
<1> QED
  BY <1>3, <1>4, <1>5 DEF R

(* Messages none of which is WM_QUIT, and all of which are.                *)
LEMMA NoMessages ==
  ASSUME messages \in Seq(Nat), NoQuitUpTo(Len(messages)),
         \A i \in DOMAIN messages : messages[i] = WM_QUIT
  PROVE  messages = << >>
  BY DEF NoQuitUpTo

LEMMA DestroyWindowInv ==
  ASSUME IInv, NEW t \in Threads, DestroyWindow(t)
  PROVE  IInv'
<1>0. /\ fn[t] = "stopping" /\ loop = 0 /\ loop' = 1
      /\ window' = FALSE /\ messages' = << >>
      /\ lost' = lost + Cardinality({i \in DOMAIN messages : messages[i] # WM_QUIT})
      /\ UNCHANGED <<threadVars, control, bService, store, inside, lock, current, buffer,
                     sinks, told, grown, removed, added, handled, stale, refused>>
      /\ \A u \in Threads : fn[u] # "none" => u = t
      /\ Len(sinks) \in Nat
  BY DEF DestroyWindow, IInv, TypeOK, ThreadInv
<1>1. /\ lost' \in Nat
      /\ lost' = 0 => lost = 0 /\ \A i \in DOMAIN messages : messages[i] = WM_QUIT
  BY <1>0, LostTyped DEF IInv, TypeOK
<1>2. ThreadInv'
  BY <1>0 DEF IInv, ThreadInv, ThreadTypeOK, threadVars
<1>3. TypeOK'
  <2>1. << >> \in Seq(Nat)
    OBVIOUS
  <2> QED
    <3>1. loop' \in Nat /\ window' \in BOOLEAN /\ messages' \in Seq(Nat)
      BY <1>0, <2>1
    <3> QED
      BY <1>0, <1>1, <3>1 DEF IInv, TypeOK, ThreadTypeOK, threadVars
<1>4. /\ \A u \in Threads : fn[u] \notin {"looping", "running"}
      /\ ~Serving' /\ Begun /\ Begun' /\ Alive' = Alive /\ Alive # {}
  BY <1>0 DEF threadVars, Serving, Begun, Alive
<1>5. NoticeInv'
  <2>1. grown \in Nat /\ Due' = Due
    BY <1>0, <1>4 DEF IInv, TypeOK, Due
  <2> QED
    BY <1>0, <1>4, <2>1 DEF IInv, NoticeInv
<1>6. current = << >> /\ buffer = << >> /\ LockInv'
  BY <1>0, <1>4 DEF IInv, LockInv, threadVars
<1>7. ControlInv'
  <2>1. Len(messages') = 0
    BY <1>0
  <2> QED
    BY <1>0, <1>4, <2>1 DEF IInv, ControlInv, threadVars, NoQuitUpTo
<1>8. PairInv'
  <2>1. CASE Open' /\ Sound'
    <3>1. /\ NoQuitUpTo(Len(messages)) /\ lost' = lost /\ stale' = stale
          /\ \A i \in DOMAIN messages : messages[i] = WM_QUIT
      BY <1>0, <1>1, <1>4, <2>1 DEF IInv, ControlInv, Open, Sound
    <3>2. messages' = messages
      BY <1>0, <3>1, NoMessages DEF IInv, TypeOK
    <3> QED
      BY <1>0, <3>1, <3>2, PairSame DEF IInv, Open, Serving, threadVars
  <2>2. CASE ~(Open' /\ Sound')
    BY <1>0, <1>6, <2>2 DEF IInv, PairInv, RequestMatchesMessage
  <2> QED
    BY <2>1, <2>2
<1> QED
  BY <1>2, <1>3, <1>5, <1>6, <1>7, <1>8 DEF IInv

LEMMA ThreadStopInv ==
  ASSUME IInv, Quiet, NEW t \in Threads, OnMessageThreadStop(t)
  PROVE  IInv'
<1>0. /\ fn[t] = "stopping" /\ fn' = [fn EXCEPT ![t] = "none"]
      /\ loop > 0 /\ loop > Len(sinks) /\ loop' = 0 /\ messages' = << >>
      /\ UNCHANGED <<control, bService, window, store, inside, lock, current, buffer, sinks,
                     told, grown, removed, added, handled, lost, stale, refused>>
      /\ UNCHANGED <<owner, handle, run, param>>
      /\ \A u \in Threads : fn[u] # "none" => u = t
      /\ ThreadTypeOK
  BY DEF OnMessageThreadStop, ThreadStopEvent, IInv, ThreadInv
<1>1. ThreadInv'
  BY FunctionStepInv DEF OnMessageThreadStop, IInv
<1>2. TypeOK'
  <2>1. << >> \in Seq(Nat)
    OBVIOUS
  <2> QED
    BY <1>0, <1>1, <2>1 DEF IInv, TypeOK, ThreadInv
<1>3. /\ \A u \in Threads : fn'[u] = "none"
      /\ Alive' = {} /\ ~Begun' /\ ~Serving' /\ Begun
      /\ \A u \in Threads : fn[u] \notin {"looping", "running"}
  BY <1>0 DEF ThreadTypeOK, Alive, Begun, Serving
<1>4. NoticeInv'
  <2>1. loop \in Nat /\ Len(sinks) \in Nat /\ grown \in Nat
    BY DEF IInv, TypeOK
  <2>2. ~removed => /\ loop - 1 = Len(sinks)
                    /\ Due = -grown /\ Due' = -grown
    BY <1>0, <1>3, <2>1 DEF IInv, NoticeInv, Due
  <2> QED
    BY <1>0, <1>3, <2>1, <2>2 DEF IInv, NoticeInv
<1>6. current = << >> /\ buffer = << >> /\ LockInv'
  BY <1>0, <1>3 DEF IInv, LockInv
<1>7. ControlInv'
  <2>1. Len(messages') = 0
    BY <1>0
  <2> QED
    BY <1>0, <1>3, <2>1 DEF IInv, ControlInv, NoQuitUpTo
<1>8. PairInv'
  <2>1. CASE Open'
    <3>1. NoQuitUpTo(Len(messages)) /\ Open
      BY <1>0, <1>3, <2>1 DEF IInv, ControlInv, Open
    <3>2. \A i \in DOMAIN messages : messages[i] = WM_QUIT
      BY <1>0 DEF Quiet
    <3>3. messages' = messages
      BY <1>0, <3>1, <3>2, NoMessages DEF IInv, TypeOK
    <3> QED
      BY <1>0, <3>1, <3>3, PairSame DEF IInv
  <2>2. CASE ~Open'
    BY <1>0, <1>6, <2>2 DEF IInv, PairInv, RequestMatchesMessage
  <2> QED
    BY <2>1, <2>2
<1> QED
  BY <1>1, <1>2, <1>4, <1>6, <1>7, <1>8 DEF IInv
-----------------------------------------------------------------------------
(* StartService and StopService. *)

LEMMA StartServiceInv ==
  ASSUME IInv, StartService
  PROVE  IInv'
<1>0. /\ control = "idle" /\ control' = "starting" /\ owner = "idle" /\ owner' = "waiting"
      /\ run' = TRUE /\ param'.finish = FALSE /\ ~IsRuning
      /\ UNCHANGED <<bService, window, messages, store, inside, lock, current, buffer,
                     sinks, notices, added, handled, lost, stale, refused>>
  BY DEF StartService, StartThead, StartTheadWithoutThread
<1>1. ThreadInv'
  BY OwnerStepInv DEF StartService, IInv
<1>2. \A u \in Threads : fn[u] = "none"
  BY <1>0 DEF IInv, ThreadInv, IsRuning, Alive
<1>3. \A u \in Threads : fn'[u] \in {"none", "starting"}
  BY <1>2 DEF StartService, StartThead, StartTheadWithoutThread, IInv, ThreadInv,
              ThreadTypeOK
<1>4. ~bService
  BY <1>2 DEF IInv, ControlInv
<1>5. TypeOK'
  BY <1>0, <1>1 DEF IInv, TypeOK, ThreadInv, notices
<1>6. ControlInv'
  BY <1>0, <1>4 DEF IInv, ControlInv, NoQuitUpTo
<1>7. current = << >> /\ LockInv'
  BY <1>0, <1>2 DEF IInv, LockInv
<1>8. PairInv'
  BY <1>0, PairSame DEF IInv, Open
<1>9. NoticeInv'
  <2>1. Alive = {} /\ ~Begun /\ ~Begun'
    BY <1>2, <1>3 DEF Alive, Begun
  <2> QED
    BY <1>0, <2>1 DEF IInv, NoticeInv, Due, notices
<1> QED
  BY <1>1, <1>5, <1>6, <1>7, <1>8, <1>9 DEF IInv

(* Steps of the owner that leave the thread and the requests alone.        *)
LEMMA OwnerOnlyInv ==
  ASSUME IInv, ThreadInv', TypeOK', ControlInv',
         control' \in {"idle", "starting"} => control \in {"idle", "starting"},
         UNCHANGED <<fn, messages, store, inside, lock, current, buffer, sinks, notices,
                     lost, stale>>
  PROVE  IInv'
<1>1. LockInv' /\ NoticeInv'
  BY NoticeSame DEF IInv, LockInv, notices, Begun, Alive
<1>2. PairInv'
  BY PairSame DEF IInv, Open, Serving
<1> QED
  BY <1>1, <1>2 DEF IInv

LEMMA StartServiceEndsInv ==
  ASSUME IInv, StartServiceDone \/ StartServiceFails
  PROVE  IInv'
<1>0. /\ UNCHANGED <<fn, messages, store, inside, lock, current, buffer, sinks, notices,
                     lost, stale>>
      /\ control = "starting"
  BY DEF StartServiceDone, StartServiceFails, StartTheadReturns, StartTheadUndone,
         StopThreadReturns
<1>1. ThreadInv'
  BY OwnerStepInv DEF StartServiceDone, StartServiceFails, IInv
<1>2. TypeOK'
  BY <1>1 DEF StartServiceDone, StartServiceFails, IInv, TypeOK, ThreadInv, notices
<1>3. ControlInv'
  <2>1. CASE StartServiceDone
    <3>1. \E t \in Threads : fn[t] \in {"looping", "running"}
      BY <2>1 DEF StartServiceDone, StartTheadReturns, IInv, ControlInv
    <3>2. run /\ ~bService /\ NoQuitUpTo(Len(messages))
      BY <2>1 DEF StartServiceDone, StartTheadReturns, IInv, ThreadInv, ControlInv
    <3> QED
      BY <2>1, <3>1, <3>2
         DEF StartServiceDone, StartTheadReturns, IInv, ControlInv, NoQuitUpTo
  <2>2. CASE StartServiceFails
    <3>1. ~bService
      BY <2>2 DEF StartServiceFails, IInv, ControlInv
    <3>2. CASE StartTheadUndone /\ UNCHANGED control
      BY <2>2, <3>1, <3>2
         DEF StartServiceFails, StartTheadUndone, IInv, ControlInv, NoQuitUpTo
    <3>3. CASE StopThreadReturns /\ control' = "idle"
      <4>1. Alive = {} /\ Alive' = {}
        BY <3>3 DEF StopThreadReturns, IInv, ThreadInv, Alive, IsRuning
      <4> QED
        BY <2>2, <3>1, <3>3, <4>1
           DEF StartServiceFails, StopThreadReturns, IInv, ControlInv, NoQuitUpTo
    <3> QED
      BY <2>2, <3>2, <3>3 DEF StartServiceFails
  <2> QED
    BY <2>1, <2>2
<1> QED
  BY <1>0, <1>1, <1>2, <1>3, OwnerOnlyInv

LEMMA StopServiceInv ==
  ASSUME IInv, StopService \/ JoinThread
  PROVE  IInv'
<1>0. /\ UNCHANGED <<fn, messages, store, inside, lock, current, buffer, sinks, notices,
                     lost, stale>>
      /\ control' \notin {"idle", "starting"}
  BY DEF StopService, JoinThread, StopThread, StopThreadReturns, threadVars
<1>1. ThreadInv'
  BY ThreadStepInv, StepIsThreadStep DEF IInv, Next, Control
<1>2. TypeOK'
  BY <1>1 DEF StopService, JoinThread, IInv, TypeOK, ThreadInv, notices
<1>3. ControlInv'
  <2>1. CASE StopService
    BY <2>1 DEF StopService, IInv, ControlInv, threadVars, Alive
  <2>2. CASE control = "quitting" /\ control' = "joining" /\ StopThread /\ JoinThread
    BY <2>2 DEF JoinThread, StopThread, IInv, ControlInv, Alive
  <2>3. CASE control = "joining" /\ control' = "joined" /\ StopThreadReturns /\ JoinThread
    <3>1. Alive = {} /\ Alive' = {}
      BY <2>3 DEF StopThreadReturns, IInv, ThreadInv, Alive, IsRuning
    <3> QED
      BY <2>3, <3>1 DEF JoinThread, StopThreadReturns, IInv, ControlInv
  <2> QED
    BY <2>1, <2>2, <2>3 DEF JoinThread
<1> QED
  BY <1>0, <1>1, <1>2, <1>3, OwnerOnlyInv

LEMMA ConcludeThreadInv ==
  ASSUME IInv, ConcludeThread
  PROVE  IInv'
<1>0. /\ control = "stopping" /\ control' = "quitting" /\ messages \in Seq(Nat)
      /\ messages' = messages \/ messages' = Append(messages, WM_QUIT)
      /\ refused' \in BOOLEAN
      /\ UNCHANGED <<threadVars, bService, window, store, inside, lock, current, buffer,
                     sinks, notices, added, handled, lost, stale>>
  BY DEF ConcludeThread, IInv, TypeOK
<1>1. ThreadInv'
  BY <1>0 DEF IInv, ThreadInv, ThreadTypeOK, threadVars
<1>2. messages' \in Seq(Nat)
  BY <1>0 DEF WM_QUIT
<1>3. TypeOK'
  BY <1>0, <1>2 DEF IInv, TypeOK, ThreadTypeOK, threadVars, notices
<1>4. ControlInv' /\ LockInv' /\ NoticeInv'
  BY <1>0, NoticeSame
     DEF IInv, ControlInv, LockInv, threadVars, Alive, Begun, notices
<1>5. PairInv'
  <2>1. CASE messages' = messages
    BY <1>0, <2>1, PairSame DEF IInv, Open, Serving, threadVars
  <2>2. CASE messages' = Append(messages, WM_QUIT)
    <3>1. /\ Len(messages') = Len(messages) + 1 /\ Len(messages) \in Nat
          /\ messages'[Len(messages) + 1] = WM_QUIT
          /\ \A i \in 1 .. Len(messages) : messages'[i] = messages[i]
      BY <1>0, <2>2 DEF WM_QUIT
    <3>2. ASSUME NEW i \in 1 .. Len(messages'), NoQuitUpTo(i)'
          PROVE  i \in 1 .. Len(messages) /\ NoQuitUpTo(i) /\ messages'[i] = messages[i]
      <4>1. i # Len(messages) + 1
        BY <3>1, <3>2 DEF NoQuitUpTo
      <4>2. i \in 1 .. Len(messages)
        BY <3>1, <4>1
      <4> QED
        BY <3>1, <3>2, <4>2 DEF NoQuitUpTo
    <3>3. ~NoQuitUpTo(Len(messages))'
      <4>1. Len(messages') \in 1 .. Len(messages')
        BY <3>1
      <4> QED
        BY <3>1, <4>1 DEF NoQuitUpTo
    <3>4. /\ (Open' => Open) /\ Sound' = Sound /\ Taken' = Taken
          /\ RequestMatchesMessage'
      BY <1>0 DEF IInv, PairInv, Open, Serving, Sound, Taken, threadVars,
                  RequestMatchesMessage
    <3> QED
      BY <1>0, <3>2, <3>3, <3>4 DEF IInv, PairInv
  <2> QED
    BY <1>0, <2>1, <2>2
<1> QED
  BY <1>1, <1>3, <1>4, <1>5 DEF IInv

LEMMA QuietSame ==
  ASSUME Quiet, UNCHANGED <<fn, window, loop>>,
         messages' = messages \/ window
  PROVE  Quiet'
  BY DEF Quiet, Alive

LEMMA QuietStep ==
  ASSUME IInv, Quiet, [Next]_vars
  PROVE  Quiet'
<1>0. ThreadInv /\ messages \in Seq(Nat)
  BY DEF IInv, TypeOK
<1>1. ASSUME NEW c \in AllCallers, InsertRequest(c) PROVE Quiet'
  BY <1>1, QuietSame DEF InsertRequest, CheckService, InsertData, PostMessage,
                         threadVars, notices
<1>2. ASSUME NEW s \in Sinks,
             RegisterAsynchronismEngineSink(s) \/ UnRegisterAsynchronismEngineSink(s)
      PROVE  Quiet'
  BY <1>2, QuietSame
     DEF RegisterAsynchronismEngineSink, UnRegisterAsynchronismEngineSink, threadVars
<1>3. ASSUME NEW t \in Threads, MessageThread(t) PROVE Quiet'
  <2>0. /\ \A u \in Threads : fn[u] # "none" => u = t
        /\ ThreadTypeOK
    <3>1. fn[t] # "none"
      BY <1>3 DEF MessageThread, CreateWindow, DestroyWindow, TellSink,
                  OnMessageThreadStart, ThreadStartEvent, ThreadGoesOn, ThreadSetEvent,
                  ThreadLoop, GetMessage, DistillData, OnAsynchronismRequest, ThreadRan,
                  OnMessageThreadStop, ThreadStopEvent
    <3> QED
      BY <1>0, <3>1 DEF ThreadInv
  <2>1. CASE CreateWindow(t)
    <3>1. fn' = fn /\ fn[t] = "starting" /\ Alive' # {}
      BY <2>1 DEF CreateWindow, threadVars, Alive
    <3> QED
      BY <2>0, <3>1 DEF Quiet
  <2>2. CASE DestroyWindow(t)
    <3>1. /\ fn' = fn /\ fn[t] = "stopping" /\ Alive' # {} /\ window' = FALSE
          /\ messages' = << >>
      BY <2>2 DEF DestroyWindow, threadVars, Alive
    <3> QED
      BY <3>1 DEF Quiet
  <2>3. CASE TellSink(t)
    <3>1. UNCHANGED <<fn, window, messages>> /\ fn[t] # "none" /\ loop > 0
      BY <2>3 DEF TellSink, threadVars
    <3> QED
      BY <3>1 DEF Quiet, Alive
  <2>4. CASE \E good \in BOOLEAN : OnMessageThreadStart(t, good)
    <3>1. fn'[t] # "none" /\ loop' = 0
      BY <2>0, <2>4 DEF OnMessageThreadStart, ThreadStartEvent, ThreadTypeOK
    <3> QED
      BY <3>1 DEF Quiet, Alive
  <2>5. CASE ThreadGoesOn(t) \/ GetMessage(t) \/ DistillData(t) \/ OnAsynchronismRequest(t)
    <3>1. fn'[t] # "none" /\ loop' = loop /\ fn[t] \notin {"none", "starting", "stopping"}
      BY <2>0, <2>5 DEF ThreadGoesOn, ThreadSetEvent, ThreadLoop, GetMessage, DistillData,
                        OnAsynchronismRequest, ThreadRan, threadVars, asynVars, notices,
                        ThreadTypeOK
    <3>2. ~(loop > 0) /\ ~(loop' > 0)
      BY <2>0, <3>1 DEF Quiet
    <3> QED
      BY <3>1, <3>2 DEF Quiet, Alive
  <2>6. CASE OnMessageThreadStop(t)
    <3>1. /\ fn[t] = "stopping" /\ loop > 0 /\ loop' = 0
          /\ messages' = << >> /\ window' = window
      BY <2>6 DEF OnMessageThreadStop, ThreadStopEvent
    <3>2. ~window
      BY <2>0, <3>1 DEF Quiet
    <3> QED
      BY <3>1, <3>2 DEF Quiet
  <2> QED
    BY <1>3, <2>1, <2>2, <2>3, <2>4, <2>5, <2>6 DEF MessageThread
<1>4. CASE StartService
  <2>1. Quiet /\ Alive = {}
    BY <1>0, <1>4 DEF StartService, StartThead, StartTheadWithoutThread, IsRuning, Alive,
                      ThreadInv
  <2>2. UNCHANGED <<window, messages, loop>>
    BY <1>4 DEF StartService, notices
  <2>3. ~(loop > 0)
    BY <2>1 DEF Quiet, Alive
  <2> QED
    BY <2>1, <2>2, <2>3 DEF Quiet
<1>5. CASE StopService \/ StartServiceDone \/ StartServiceFails \/ JoinThread \/ RemoveData
  <2>1. UNCHANGED <<fn, window, messages, loop>>
    BY <1>5 DEF StopService, StartServiceDone, StartServiceFails, JoinThread, RemoveData,
                StartTheadReturns, StartTheadUndone, StopThread, StopThreadReturns,
                threadVars, notices
  <2> QED
    BY <2>1, QuietSame
<1>6. CASE ConcludeThread
  <2>1. /\ UNCHANGED <<fn, window, loop>> /\ (Alive = {} => messages' = messages)
        /\ messages' = messages \/ messages' = Append(messages, WM_QUIT)
    BY <1>6 DEF ConcludeThread, IsRuning, threadVars, notices
  <2>2. (\A i \in DOMAIN messages : messages[i] = WM_QUIT)
          => \A i \in DOMAIN messages' : messages'[i] = WM_QUIT
    BY <1>0, <2>1 DEF WM_QUIT
  <2> QED
    BY <2>1, <2>2 DEF Quiet, Alive
<1>7. CASE UNCHANGED vars
  BY <1>7, QuietSame DEF vars, threadVars, asynVars
<1> QED
  BY <1>1, <1>2, <1>3, <1>4, <1>5, <1>6, <1>7 DEF Next, Control

(* At most the lock's holder is between its two statements.                *)
LEMMA HeldCount ==
  ASSUME IInv, Cardinality({c \in AllCallers : inside[c].at = "inserted"}) = 0
  PROVE  \A c \in AllCallers : inside[c].at # "inserted"
<1> DEFINE H == {c \in AllCallers : inside[c].at = "inserted"}
<1>1. H \subseteq {lock}
  BY DEF IInv, LockInv
<1>2. IsFiniteSet(H)
  BY <1>1, FS_Singleton, FS_Subset
<1>3. H = {}
  BY <1>2, FS_EmptySet
<1> QED
  BY <1>3

LEMMA HeldTyped ==
  ASSUME IInv
  PROVE  Cardinality({c \in AllCallers : inside[c].at = "inserted"}) \in Nat
<1> DEFINE H == {c \in AllCallers : inside[c].at = "inserted"}
<1>1. H \subseteq {lock}
  BY DEF IInv, LockInv
<1> QED
  BY <1>1, FS_Singleton, FS_Subset, FS_CardinalityType

LEMMA RemoveDataInv ==
  ASSUME IInv, Quiet, RemoveData
  PROVE  IInv' /\ Alive = {} /\ Alive' = {} /\ buffer = << >>
<1>0. /\ control = "joined" /\ control' = "idle" /\ store' = << >> /\ lost' = 0
      /\ UNCHANGED <<threadVars, bService, window, messages, inside, lock, current, buffer,
                     sinks, notices, added, handled, refused>>
      /\ ~bService /\ Alive = {} /\ Alive' = {}
      /\ \A u \in Threads : fn[u] = "none"
  BY DEF RemoveData, IInv, ControlInv, Alive, threadVars
<1>a. stale' \in Nat /\ (stale' = 0 => \A c \in AllCallers : inside[c].at # "inserted")
  BY HeldCount, HeldTyped DEF RemoveData
<1>1. ThreadInv'
  BY <1>0 DEF IInv, ThreadInv, ThreadTypeOK, threadVars
<1>2. TypeOK'
  <2>1. << >> \in Seq(Nat \ {0})
    OBVIOUS
  <2> QED
    BY <1>0, <1>a, <2>1 DEF IInv, TypeOK, ThreadTypeOK, threadVars, notices
<1>3. current = << >> /\ buffer = << >> /\ lock # Self
  BY <1>0 DEF IInv, LockInv
<1>5. messages = << >> /\ Len(messages) = 0
  BY <1>0 DEF Quiet
<1>6. ControlInv'
  BY <1>0, <1>3, <1>5 DEF IInv, ControlInv, threadVars, NoQuitUpTo
<1>7. LockInv' /\ NoticeInv'
  BY <1>0, NoticeSame DEF IInv, LockInv, threadVars, Begun, Alive, notices
<1>8. PairInv'
  <2>1. \A c \in AllCallers : inside'[c].at = "inserted" =>
          inside'[c].id # WM_QUIT /\ stale' # 0
    BY <1>0, <1>a DEF IInv, PairInv
  <2>2. Sound' => Gap' = 0
    BY <1>0, <1>a DEF Sound, Gap, IInv, TypeOK
  <2>3. Taken' = 0 /\ Len(store') = 0 /\ Len(messages') = 0
    BY <1>0, <1>3, <1>5 DEF Taken
  <2>4. RequestMatchesMessage'
    BY <1>0, <1>3 DEF RequestMatchesMessage
  <2> QED
    BY <2>1, <2>2, <2>3, <2>4 DEF PairInv
<1> QED
  BY <1>0, <1>1, <1>2, <1>3, <1>6, <1>7, <1>8 DEF IInv

(* That a message finds its own request needs all of this: who holds the   *)
(* lock, which stage of start and stop the thread is in, and that nothing  *)
(* behind WM_QUIT is ever taken.                                           *)
THEOREM InductiveInvariant == Spec => [](IInv /\ Quiet)
<1>1. Init => IInv /\ Quiet
  <2>1. Init => Quiet
    BY DEF Init, Quiet
  <2> QED
    BY <2>1, InitInv
<1>2. IInv /\ Quiet /\ [Next]_vars => IInv'
  <2> SUFFICES ASSUME IInv, Quiet, [Next]_vars PROVE IInv'
    OBVIOUS
  <2>1. ASSUME NEW c \in AllCallers, InsertRequest(c) PROVE IInv'
    BY <2>1, CheckServiceInv, InsertDataInv, PostMessageInv DEF InsertRequest
  <2>2. ASSUME NEW s \in Sinks,
               RegisterAsynchronismEngineSink(s) \/ UnRegisterAsynchronismEngineSink(s)
        PROVE  IInv'
    BY <2>2, RegisterInv
  <2>3. ASSUME NEW t \in Threads, MessageThread(t) PROVE IInv'
    BY <2>3, CreateWindowInv, DestroyWindowInv, TellSinkInv, ThreadStartInv,
       ThreadGoesOnInv, GetMessageInv, DistillDataInv, RequestHandledInv, ThreadStopInv
       DEF MessageThread
  <2>4. CASE StartService \/ StopService \/ Control
    BY <2>4, StartServiceInv, StartServiceEndsInv, StopServiceInv, ConcludeThreadInv,
       RemoveDataInv DEF Control
  <2>5. CASE UNCHANGED vars
    <3>1. ThreadInv' /\ TypeOK' /\ ControlInv'
      BY <2>5 DEF vars, threadVars, asynVars, IInv, ThreadInv, ThreadTypeOK, TypeOK,
                  ControlInv, Alive, NoQuitUpTo
    <3> QED
      BY <2>5, <3>1, OwnerOnlyInv DEF vars, threadVars, asynVars, notices
  <2> QED
    BY <2>1, <2>2, <2>3, <2>4, <2>5 DEF Next
<1>3. IInv /\ Quiet /\ [Next]_vars => Quiet'
  BY QuietStep
<1> QED
  BY <1>1, <1>2, <1>3, PTL DEF Spec

(* Every variable keeps its type. *)
THEOREM TypeCorrect == Spec => []TypeOK
<1>1. IInv => TypeOK
  BY DEF IInv
<1> QED
  BY <1>1, InductiveInvariant, PTL

(* The sink is called with the request its message was posted for, over    *)
(* any stops and starts, unless a message was lost or StopService dropped  *)
(* a request whose caller was about to post its message.                   *)
THEOREM RequestAlwaysMatches == Spec => []RequestMatchesMessage
<1>1. IInv => RequestMatchesMessage
  BY DEF IInv, PairInv
<1> QED
  BY <1>1, InductiveInvariant, PTL

(* When a thread has ended, whether its start failed or not, the first     *)
(* sink was told one stop for each start, and one more for each sink that  *)
(* came between the loops; the others were told nothing.                   *)
THEOREM StartsAlwaysMatchStops == Spec => []StartsMatchStops
<1>1. IInv => StartsMatchStops
  BY DEF IInv, NoticeInv, Due, StartsMatchStops, Begun, Alive
<1> QED
  BY <1>1, InductiveInvariant, PTL
-----------------------------------------------------------------------------
(* The engine is a channel: its pending requests are the one being handled *)
(* and the store.                                                          *)

LEMMA SeqOfNat ==
  ASSUME NEW s \in Seq(Nat \ {0})
  PROVE  s \in Seq(Nat)
  OBVIOUS

LEMMA EmptyConcat ==
  ASSUME NEW s \in Seq(Nat)
  PROVE  << >> \o s = s
  OBVIOUS

LEMMA ConcatAppend ==
  ASSUME NEW b \in Seq(Nat), NEW s \in Seq(Nat), NEW n \in Nat
  PROVE  b \o Append(s, n) = Append(b \o s, n)
  OBVIOUS

LEMMA ConcatFront ==
  ASSUME NEW s \in Seq(Nat), NEW n \in Nat
  PROVE  /\ <<n>> \o s # << >>
         /\ Head(<<n>> \o s) = n
         /\ Tail(<<n>> \o s) = s
  OBVIOUS

LEMMA ConcatSplit ==
  ASSUME NEW s \in Seq(Nat), s # << >>
  PROVE  <<Head(s)>> \o Tail(s) = s
  OBVIOUS

LEMMA AliveFollows ==
  ASSUME IInv, NEW t \in Threads
  PROVE  /\ fn[t] = "stopping" /\ fn' = [fn EXCEPT ![t] = "none"]
              => Alive # {} /\ Alive' = {}
         /\ fn[t] # "none" /\ (\E w : w # "none" /\ fn' = [fn EXCEPT ![t] = w])
              => Alive # {} /\ Alive' # {}
  BY DEF IInv, ThreadInv, ThreadTypeOK, Alive

LEMMA StepRefines ==
  ASSUME IInv, Quiet, IInv', [Next]_vars
  PROVE  [Channel!Next]_(Channel!vars)
<1> DEFINE open    == Alive # {}
           front   == IF buffer = <<0>> THEN << >> ELSE buffer
           pending == front \o store
<1>1. /\ front \in Seq(Nat) /\ store \in Seq(Nat) /\ added \in Nat
      /\ buffer \in Seq(Nat)
  BY SeqOfNat DEF IInv, TypeOK
<1>2. ASSUME NEW c \in AllCallers, InsertRequest(c)
      PROVE  Channel!Add \/ UNCHANGED Channel!vars
  <2>1. CASE CheckService(c) \/ PostMessage(c)
    BY <2>1 DEF CheckService, PostMessage, threadVars, Alive, Channel!vars
  <2>2. CASE InsertData(c)
    <3>1. /\ added' = added + 1 /\ buffer' = buffer /\ store' = Append(store, added + 1)
          /\ open' = open /\ handled' = handled
      BY <2>2 DEF InsertData, threadVars, Alive
    <3>a. front' = front
      BY <3>1
    <3>2. pending' = Append(pending, added + 1)
      <4> HIDE DEF front
      <4> QED
        BY <1>1, <3>1, <3>a, ConcatAppend
    <3> QED
      BY <3>1, <3>2 DEF Channel!Add
  <2> QED
    BY <1>2, <2>1, <2>2 DEF InsertRequest
<1>3. ASSUME NEW s \in Sinks,
             RegisterAsynchronismEngineSink(s) \/ UnRegisterAsynchronismEngineSink(s)
      PROVE  UNCHANGED Channel!vars
  BY <1>3 DEF RegisterAsynchronismEngineSink, UnRegisterAsynchronismEngineSink, threadVars,
              Alive, Channel!vars
<1>4. ASSUME NEW t \in Threads, MessageThread(t)
      PROVE  [Channel!Next]_(Channel!vars)
  <2>1. CASE \/ \E good \in BOOLEAN : OnMessageThreadStart(t, good)
             \/ ThreadGoesOn(t) \/ GetMessage(t)
             \/ CreateWindow(t) \/ DestroyWindow(t) \/ TellSink(t)
    <3>1. /\ fn' = fn \/ \E w : w # "none" /\ fn' = [fn EXCEPT ![t] = w]
          /\ fn[t] # "none"
      BY <2>1 DEF OnMessageThreadStart, ThreadGoesOn, GetMessage, ThreadStartEvent,
                  ThreadSetEvent, ThreadLoop, ThreadRan, CreateWindow, DestroyWindow,
                  TellSink, threadVars
    <3>2. open' = open
      BY <3>1, AliveFollows DEF Alive
    <3>3. UNCHANGED <<added, buffer, store, handled>>
      BY <2>1 DEF OnMessageThreadStart, ThreadGoesOn, GetMessage, CreateWindow,
                  DestroyWindow, TellSink, asynVars
    <3> QED
      BY <3>2, <3>3 DEF Channel!vars
  <2>2. CASE DistillData(t)
    <3>1. open' = open /\ added' = added /\ handled' = handled /\ front = << >>
      BY <2>2 DEF DistillData, threadVars, Alive
    <3>2. pending = store
      BY <1>1, <3>1, EmptyConcat
    <3>3. CASE store = << >>
      <4>1. front' = << >> /\ store' = << >>
        BY <2>2, <3>3 DEF DistillData
      <4> QED
        BY <3>1, <3>2, <3>3, <4>1 DEF Channel!vars
    <3>4. CASE store # << >>
      <4>1. buffer' = <<Head(store)>> /\ store' = Tail(store) /\ Head(store) # 0
        BY <2>2, <3>4 DEF DistillData, IInv, TypeOK
      <4>2. front' = <<Head(store)>>
        BY <4>1
      <4>3. pending' = store
        BY <1>1, <3>4, <4>1, <4>2, ConcatSplit
      <4> QED
        BY <3>1, <3>2, <4>3 DEF Channel!vars
    <3> QED
      BY <3>3, <3>4
  <2>3. CASE OnAsynchronismRequest(t)
    <3>1. /\ buffer = <<Head(buffer)>> /\ buffer # << >> /\ Head(buffer) \in Nat
          /\ fn[t] # "none" /\ fn' = [fn EXCEPT ![t] = "looping"]
      BY <1>1, <2>3 DEF OnAsynchronismRequest, ThreadRan, IInv, LockInv
    <3>2. /\ handled' = (IF Head(buffer) = 0 THEN handled ELSE Head(buffer))
          /\ buffer' = << >> /\ front' = << >> /\ store' = store /\ added' = added
      BY <2>3 DEF OnAsynchronismRequest
    <3>3. open /\ open'
      BY <3>1, AliveFollows
    <3>4. pending' = store
      BY <1>1, <3>2, EmptyConcat
    <3>5. CASE Head(buffer) = 0
      <4>1. front = << >> /\ handled' = handled
        BY <3>1, <3>2, <3>5
      <4>2. pending = store
        BY <1>1, <4>1, EmptyConcat
      <4> QED
        BY <3>2, <3>3, <3>4, <4>1, <4>2 DEF Channel!vars
    <3>6. CASE Head(buffer) # 0
      <4>1. front = <<Head(buffer)>> /\ handled' = Head(buffer)
        BY <3>1, <3>2, <3>6
      <4>2. pending # << >> /\ Head(pending) = Head(buffer) /\ Tail(pending) = store
        BY <1>1, <3>1, <4>1, ConcatFront
      <4> QED
        BY <3>2, <3>3, <3>4, <4>1, <4>2 DEF Channel!Handle, Channel!Next
    <3> QED
      BY <3>5, <3>6
  <2>4. CASE OnMessageThreadStop(t)
    <3>1. open /\ ~open' /\ UNCHANGED <<added, buffer, store, handled>>
      BY <2>4, AliveFollows DEF OnMessageThreadStop, ThreadStopEvent
    <3> QED
      BY <3>1 DEF Channel!Switch, Channel!Next
  <2> QED
    BY <1>4, <2>1, <2>2, <2>3, <2>4 DEF MessageThread
<1>5. CASE StartService
  <2>1. Alive = {}
    BY <1>5 DEF StartService, StartThead, StartTheadWithoutThread, IsRuning, Alive,
                IInv, ThreadInv
  <2>2. UNCHANGED <<added, buffer, store, handled>>
    BY <1>5 DEF StartService
  <2> QED
    BY <2>1, <2>2 DEF Channel!Switch, Channel!Next, Channel!vars
<1>6. CASE \/ StopService \/ StartServiceDone \/ StartServiceFails
           \/ ConcludeThread \/ JoinThread
  <2>1. fn' = fn /\ UNCHANGED <<added, buffer, store, handled>>
    BY <1>6 DEF StopService, StartServiceDone, StartServiceFails, ConcludeThread,
                JoinThread, StartTheadReturns, StartTheadUndone, StopThread,
                StopThreadReturns, threadVars
  <2> QED
    BY <2>1 DEF Alive, Channel!vars
<1>7. CASE RemoveData
  <2>1. ~open /\ ~open' /\ buffer = << >> /\ buffer' = << >> /\ store' = << >>
        /\ UNCHANGED <<added, handled>>
    BY <1>7, RemoveDataInv DEF RemoveData
  <2>2. pending' = << >>
    BY <2>1
  <2> QED
    BY <2>1, <2>2 DEF Channel!DropAll, Channel!Next
<1>8. CASE UNCHANGED vars
  BY <1>8 DEF vars, threadVars, asynVars, Alive, Channel!vars
<1> QED
  BY <1>2, <1>3, <1>4, <1>5, <1>6, <1>7, <1>8 DEF Next, Control, Channel!Next

(* Requests are handled in order, once, by a living thread; none is        *)
(* dropped before the thread has ended.                                    *)
THEOREM EngineImplementsChannel == Spec => ImplementsChannel
<1>1. Init => Channel!Init
  BY DEF Init, ThreadInit, Alive, Channel!Init
<1>2. IInv /\ Quiet /\ IInv' /\ [Next]_vars => [Channel!Next]_(Channel!vars)
  BY StepRefines
<1> QED
  BY <1>1, <1>2, InductiveInvariant, PTL DEF Spec, ImplementsChannel, Channel!Spec
=============================================================================
