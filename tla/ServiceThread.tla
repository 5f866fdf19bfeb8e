---------------------------- MODULE ServiceThread ----------------------------
(***************************************************************************)
(* CServiceThread (poj/HttpSession/.../ServiceThread.cpp, the repository's *)
(* copy of the class every engine's thread derives from): StartThead makes *)
(* a thread and waits until its start event has returned, StopThread asks  *)
(* it to leave its loop and joins it.  Start, stop and the loop body are   *)
(* virtual: the modules that extend this one say what they do, by joining  *)
(* their own conjuncts to these actions.                                   *)
(*                                                                         *)
(* One thread, the owner, calls StartThead and StopThread, one at a time.  *)
(* Every caller in the repository waits without a limit (INFINITE), and    *)
(* nobody calls TerminateThread: timed-out stops are left out.             *)
(***************************************************************************)
EXTENDS Naturals

CONSTANTS
  Threads,  (* threads of the operating system                *)
  NoThread  (* NULL as a handle                               *)

ASSUME ThreadsAssumption == NoThread \notin Threads

VARIABLES
  owner,   (* the owner's place inside StartThead and StopThread            *)
  handle,  (* m_hThreadHandle                                               *)
  run,     (* m_bRun                                                        *)
  param,   (* tagThreadParameter on StartThead's stack: bSuccess, and the   *)
           (* state of hEventFinish                                         *)
  fn       (* where each thread is in ThreadFunction; "signal" carries the  *)
           (* local bSuccess                                                *)

threadVars == <<owner, handle, run, param, fn>>

Alive == {t \in Threads : fn[t] # "none"}

(* IsRuning: the handle is not signalled. *)
IsRuning == handle \in Alive

ThreadTypeOK ==
  /\ owner \in {"idle", "waiting", "undoing", "stopping"}
  /\ handle \in Threads \cup {NoThread}
  /\ run \in BOOLEAN
  /\ param \in [success : BOOLEAN, finish : BOOLEAN]
  /\ fn \in [Threads -> {"none", "starting", "signalGood", "signalBad",
                         "looping", "running", "stopping"}]

ThreadInit ==
  /\ owner = "idle"
  /\ handle = NoThread
  /\ run = FALSE
  /\ param = [success |-> FALSE, finish |-> FALSE]
  /\ fn = [t \in Threads |-> "none"]

-----------------------------------------------------------------------------
(* The owner.  A StartThead that finds the thread running changes nothing. *)

(* StartThead, to the end of _beginthreadex. *)
StartThead ==
  /\ owner = "idle"
  /\ ~IsRuning
  /\ \E t \in Threads \ Alive :
       /\ handle' = t
       /\ fn' = [fn EXCEPT ![t] = "starting"]
  /\ run' = TRUE
  /\ param' = [success |-> FALSE, finish |-> FALSE]
  /\ owner' = "waiting"

(* _beginthreadex fails, which StartThead does not look at. *)
StartTheadWithoutThread ==
  /\ owner = "idle"
  /\ ~IsRuning
  /\ handle' = NoThread
  /\ run' = TRUE
  /\ param' = [success |-> FALSE, finish |-> FALSE]
  /\ owner' = "waiting"
  /\ UNCHANGED fn

StartTheadReturns ==
  /\ owner = "waiting"
  /\ param.finish
  /\ param.success
  /\ owner' = "idle"
  /\ UNCHANGED <<handle, run, param, fn>>

(* The start event failed: StartThead calls StopThread. *)
StartTheadUndone ==
  /\ owner = "waiting"
  /\ param.finish
  /\ ~param.success
  /\ owner' = "undoing"
  /\ run' = IF IsRuning THEN FALSE ELSE run
  /\ UNCHANGED <<handle, param, fn>>

StopThread ==
  /\ owner = "idle"
  /\ owner' = "stopping"
  /\ run' = IF IsRuning THEN FALSE ELSE run
  /\ UNCHANGED <<handle, param, fn>>

(* Fault: StopThread does not wait for the thread to end. *)
StopThreadReturnsEarly ==
  /\ owner \in {"undoing", "stopping"}
  /\ owner' = "idle"
  /\ handle' = NoThread
  /\ UNCHANGED <<run, param, fn>>

(* The thread has ended, or there was none. *)
StopThreadReturns ==
  /\ owner \in {"undoing", "stopping"}
  /\ ~IsRuning
  /\ owner' = "idle"
  /\ handle' = NoThread
  /\ UNCHANGED <<run, param, fn>>

-----------------------------------------------------------------------------
(* ThreadFunction, on thread t. *)

(* Fault: the event is set before bSuccess is copied: StartThead may have  *)
(* returned, and the parameter be gone, when the thread reads it.          *)
StartEventSignalsFirst(t, good) ==
  /\ fn[t] = "starting"
  /\ param' = [success |-> good, finish |-> TRUE]
  /\ fn' = [fn EXCEPT ![t] = IF good THEN "signalGood" ELSE "signalBad"]
  /\ UNCHANGED <<owner, handle, run>>

(* OnThreadStratEvent returns good, or throws. *)
ThreadStartEvent(t, good) ==
  /\ fn[t] = "starting"
  /\ param' = [param EXCEPT !.success = good]
  /\ fn' = [fn EXCEPT ![t] = IF good THEN "signalGood" ELSE "signalBad"]
  /\ UNCHANGED <<owner, handle, run>>

ThreadSetEvent(t) ==
  /\ fn[t] \in {"signalGood", "signalBad"}
  /\ param' = [param EXCEPT !.finish = TRUE]
  /\ fn' = [fn EXCEPT ![t] = IF fn[t] = "signalGood" THEN "looping" ELSE "stopping"]
  /\ UNCHANGED <<owner, handle, run>>

(* while (m_bRun) *)
ThreadLoop(t) ==
  /\ fn[t] = "looping"
  /\ fn' = [fn EXCEPT ![t] = IF run THEN "running" ELSE "stopping"]
  /\ UNCHANGED <<owner, handle, run, param>>

(* RepetitionRun returns more, or throws (which counts as true). *)
ThreadRan(t, more) ==
  /\ fn[t] = "running"
  /\ fn' = [fn EXCEPT ![t] = IF more THEN "looping" ELSE "stopping"]
  /\ UNCHANGED <<owner, handle, run, param>>

(* OnThreadStopEvent, after a failed start event too, and _endthreadex. *)
ThreadStopEvent(t) ==
  /\ fn[t] = "stopping"
  /\ fn' = [fn EXCEPT ![t] = "none"]
  /\ UNCHANGED <<owner, handle, run, param>>

-----------------------------------------------------------------------------
ThreadNext ==
  \/ StartThead \/ StartTheadWithoutThread \/ StartTheadReturns \/ StartTheadUndone
  \/ StopThread \/ StopThreadReturns
  \/ \E t \in Threads :
       \/ \E b \in BOOLEAN : ThreadStartEvent(t, b) \/ ThreadRan(t, b)
       \/ ThreadSetEvent(t) \/ ThreadLoop(t) \/ ThreadStopEvent(t)

ThreadSpec == ThreadInit /\ [][ThreadNext]_threadVars

-----------------------------------------------------------------------------
(* Properties. *)

(* No two threads run ThreadFunction of one object: they would share m_bRun*)
(* and whatever the derived class keeps.                                   *)
SingleThread == \A t, u \in Alive : t = u

(* The parameter lives on StartThead's stack: a thread that still reads or *)
(* writes it (up to SetEvent) is the one StartThead is waiting for, and    *)
(* StartThead goes on only after SetEvent.                                 *)
ParameterInScope ==
  \A t \in Threads :
    fn[t] \in {"starting", "signalGood", "signalBad"} =>
      owner = "waiting" /\ handle = t /\ ~param.finish
=============================================================================
