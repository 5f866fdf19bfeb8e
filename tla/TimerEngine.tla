---------------------------- MODULE TimerEngine -----------------------------
(***************************************************************************)
(* CTimerEngine (TimerEngine.cpp).  Instead of counting every timer down   *)
(* in every tick, the engine keeps one countdown to the next timer that    *)
(* may be due, m_dwTimeLeave, and the time since it last went over its     *)
(* list, m_dwTimePass; only when the countdown reaches zero does it take   *)
(* the elapsed time off all timers.  A new timer is charged with the time  *)
(* already counted.  Each function runs under the engine's lock, so it is  *)
(* one step here, except StopService, which waits for the timer thread     *)
(* between its assignments.                                                *)
(*                                                                         *)
(* The active list is the set of its timer numbers (SetTimer looks for the *)
(* number before it adds an item); wBindParam is left out.                 *)
(***************************************************************************)
EXTENDS TimerItems

VARIABLES
  service,    (* where StartService and StopService are      *)
  timePass,   (* m_dwTimePass                                *)
  timeLeave,  (* m_dwTimeLeave                               *)
  active,     (* m_TimerItemActive                           *)
  item,       (* the fields of the timer items               *)
  fired       (* the timers whose event the last step posted *)

vars == <<service, timePass, timeLeave, active, item, fired>>

TypeOK ==
  /\ service \in {"stopped", "running", "stopping", "joined"}
  /\ timePass \in Dword
  /\ timeLeave \in Dword
  /\ active \subseteq Ids
  /\ \A id \in active : item[id] \in Item
  /\ item \in [Ids -> Item \cup {NoItem}]
  /\ fired \subseteq Ids

Init ==
  /\ service = "stopped"
  /\ timePass = 0
  /\ timeLeave = NO_TIME_LEFT
  /\ active = {}
  /\ item = [id \in Ids |-> NoItem]
  /\ fired = {}

-----------------------------------------------------------------------------
(* Timers are set and killed by the attemper's sink, which ServiceEngine   *)
(* starts after the timer engine and stops before it, and by ServiceEngine *)
(* itself; the functions do not look at m_bService.                        *)
MayCall == service = "running"

SetTimer(id, dwElapse, dwRepeat) ==
  LET elapse == Rounded(dwElapse)
  IN /\ MayCall
     /\ dwRepeat > 0
     /\ item' = [item EXCEPT ![id] = [elapse |-> elapse, left |-> Plus(elapse, timePass),
                                      repeat |-> dwRepeat]]
     /\ timeLeave' = IF elapse < timeLeave THEN elapse ELSE timeLeave
     /\ active' = active \cup {id}
     /\ fired' = {}
     /\ UNCHANGED <<service, timePass>>

KillTimer(id) ==
  /\ MayCall
  /\ id \in active
  /\ active' = active \ {id}
  /\ item' = [item EXCEPT ![id] = NoItem]
  /\ IF active = {id} THEN timePass' = 0 /\ timeLeave' = NO_TIME_LEFT
                      ELSE UNCHANGED <<timePass, timeLeave>>
  /\ fired' = {}
  /\ UNCHANGED service

ClearTimers ==
  /\ active' = {}
  /\ item' = [id \in Ids |-> NoItem]
  /\ timePass' = 0
  /\ timeLeave' = NO_TIME_LEFT
  /\ fired' = {}

KillAllTimer ==
  /\ MayCall
  /\ ClearTimers
  /\ UNCHANGED service

-----------------------------------------------------------------------------
(* OnTimerThreadSink, every TIMER_SPACE milliseconds, until StopService    *)
(* has seen the thread end.                                                *)
ThreadRuns == service \in {"running", "stopping"}

Due(pass) == {id \in active : Minus(item[id].left, pass) = 0}

(* The items that go back to the free list. *)
Exhausted(pass) == {id \in Due(pass) : item[id].repeat = 1}

(* An item after the loop over the list. *)
Scanned(id, pass) ==
  IF id \notin active THEN item[id]
  ELSE IF id \in Exhausted(pass) THEN NoItem
  ELSE IF id \in Due(pass)
       THEN [elapse |-> item[id].elapse, left |-> item[id].elapse,
             repeat |-> IF item[id].repeat = TIMER_REPEAT_TIMER THEN item[id].repeat
                                                              ELSE Minus(item[id].repeat, 1)]
       ELSE [item[id] EXCEPT !.left = Minus(@, pass)]

(* The countdown was not started, or it has not reached zero. *)
TickIdle ==
  /\ timeLeave = NO_TIME_LEFT
  /\ fired' = {}
  /\ UNCHANGED <<timePass, timeLeave, active, item>>

TickCounts ==
  /\ timeLeave # NO_TIME_LEFT
  /\ Minus(timeLeave, TIMER_SPACE) # 0
  /\ timeLeave' = Minus(timeLeave, TIMER_SPACE)
  /\ timePass' = Plus(timePass, TIMER_SPACE)
  /\ fired' = {}
  /\ UNCHANGED <<active, item>>

(* It has: post the events of the due timers, and find the next countdown. *)
TickScans ==
  LET pass == Plus(timePass, TIMER_SPACE)
      next == {NO_TIME_LEFT} \cup {item'[id].left : id \in active'}
  IN /\ timeLeave # NO_TIME_LEFT
     /\ Minus(timeLeave, TIMER_SPACE) = 0
     /\ fired' = Due(pass)
     /\ active' = active \ Exhausted(pass)
     /\ item' = [id \in Ids |-> Scanned(id, pass)]
     /\ timePass' = 0
     /\ timeLeave' \in next
     /\ \A time \in next : timeLeave' <= time

OnTimerThreadSink ==
  /\ ThreadRuns
  /\ TickIdle \/ TickCounts \/ TickScans
  /\ UNCHANGED service

-----------------------------------------------------------------------------
(* StartService clears the countdown but not the list. *)
StartService ==
  /\ service = "stopped"
  /\ service' = "running"
  /\ timePass' = 0
  /\ timeLeave' = NO_TIME_LEFT
  /\ fired' = {}
  /\ UNCHANGED <<active, item>>

(* StopService lowers the flag, waits for the thread, clears everything.   *)
StopService ==
  /\ service = "running"
  /\ service' = "stopping"
  /\ fired' = {}
  /\ UNCHANGED <<timePass, timeLeave, active, item>>

ThreadConcluded ==
  /\ service = "stopping"
  /\ service' = "joined"
  /\ fired' = {}
  /\ UNCHANGED <<timePass, timeLeave, active, item>>

StopServiceDone ==
  /\ service = "joined"
  /\ service' = "stopped"
  /\ ClearTimers

-----------------------------------------------------------------------------
AnySetTimer(id) ==
  \E dwElapse \in Elapses, dwRepeat \in Repeats : SetTimer(id, dwElapse, dwRepeat)

Next ==
  \/ \E id \in Ids : AnySetTimer(id) \/ KillTimer(id)
  \/ KillAllTimer
  \/ OnTimerThreadSink
  \/ StartService \/ StopService \/ ThreadConcluded \/ StopServiceDone

Spec == Init /\ [][Next]_vars

(* The timer thread keeps running: RepetitionRun only sleeps. *)
FairSpec == Spec /\ WF_vars(OnTimerThreadSink)

-----------------------------------------------------------------------------
(* Properties. *)

(* The countdown is never later than a timer: it is off exactly when there *)
(* are no timers, and otherwise a positive number of whole ticks that no   *)
(* active timer, less the time counted so far, falls short of.  The four   *)
(* asserts of OnTimerThreadSink rest on it.                                *)
CountdownIsEarliest ==
  /\ timeLeave = NO_TIME_LEFT <=> active = {}
  /\ timeLeave # NO_TIME_LEFT => timeLeave >= TIMER_SPACE /\ timeLeave % TIMER_SPACE = 0
  /\ \A id \in active : item[id].left >= timePass + timeLeave

(* The assert ASSERT(m_dwTimeLeave>=m_dwTimerSpace) of OnTimerThreadSink,  *)
(* while the timer thread runs.                                            *)
CountdownAtLeastOneSpace ==
  service = "running" => timeLeave >= TIMER_SPACE

(* Every timer is notified in the tick in which its own time is up, and in *)
(* no other: the engine implements independent countdowns, a timer's being *)
(* the item's time less the time counted since the last scan.              *)
TimeToGo ==
  [id \in Ids |-> IF id \in active
                 THEN [item[id] EXCEPT !.left = item[id].left - timePass]
                 ELSE NoItem]

Countdowns == INSTANCE Timers WITH
  Forever <- TIMER_REPEAT_TIMER, ticking <- ThreadRuns, timer <- TimeToGo

CountsEachTimer == Countdowns!Spec

(* A timer that stays set while the engine runs is notified again and      *)
(* again; only setting it anew can put it off.                             *)
TimersKeepFiring ==
  \A id \in Ids :
    \/ []<>(id \notin active \/ service # "running")
    \/ []<><<AnySetTimer(id)>>_vars
    \/ []<>(id \in fired)
=============================================================================
