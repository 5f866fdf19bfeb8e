----------------------------- MODULE TimerList ------------------------------
(***************************************************************************)
(* CTimerEngine with its array: m_TimerItemActive holds the items in the   *)
(* order in which they were added, SetTimer and KillTimer search it, and   *)
(* the loop of OnTimerThreadSink walks it by index while it removes items  *)
(* from it.  One iteration of the loop is one step here; the engine's lock *)
(* keeps the other functions out, but not StopService lowering its flag.   *)
(* TimerEngine, where the list is a set and the loop one formula, is what  *)
(* this module is shown to implement.                                      *)
(***************************************************************************)
EXTENDS TimerItems, SequencesExt

VARIABLES
  service,    (* where StartService and StopService are                 *)
  timePass,   (* m_dwTimePass                                           *)
  timeLeave,  (* m_dwTimeLeave                                          *)
  list,       (* m_TimerItemActive: items with their wTimerID           *)
  index,      (* i + 1 of the loop, 0 outside of it                     *)
  least,      (* dwTimeLeave, the loop's local                          *)
  posted,     (* the timers notified by the last step or the loop       *)
  before      (* history: what TimerEngine's variables were at the loop *)

vars == <<service, timePass, timeLeave, list, index, least, posted, before>>

Entry == [id : Ids, elapse : Dword, left : Dword, repeat : Dword \ {0}]

NoLoop == [timePass |-> 0, timeLeave |-> NO_TIME_LEFT, list |-> << >>, fired |-> {}]

NoneTwice(items) == \A m, n \in DOMAIN items : items[m].id = items[n].id => m = n

(* No timer is in the array twice, and the loop notifies none twice. *)
TypeOK ==
  /\ service \in {"stopped", "running", "stopping", "joined"}
  /\ timePass \in Dword /\ timeLeave \in Dword /\ least \in Dword
  /\ list \in Seq(Entry)
  /\ NoneTwice(list)
  /\ index \in 0 .. Len(list) + 1
  /\ posted \in Seq(Ids) /\ IsInjective(posted)
  /\ before \in [timePass : Dword, timeLeave : Dword, list : Seq(Entry), fired : SUBSET Ids]

Init ==
  /\ service = "stopped"
  /\ timePass = 0
  /\ timeLeave = NO_TIME_LEFT
  /\ list = << >>
  /\ index = 0
  /\ least = NO_TIME_LEFT
  /\ posted = << >>
  /\ before = NoLoop

loopVars == <<index, least, before>>

(* The engine's lock is free: the timer thread is not in its loop.         *)
LockFree == index = 0

-----------------------------------------------------------------------------
MayCall == service = "running" /\ LockFree

(* The search of SetTimer and KillTimer. *)
FoundAt(id, n) == list[n].id = id /\ \A m \in 1 .. n - 1 : list[m].id # id

(* Fault: the array is not searched. *)
PutUnsearched(entry) == list' = Append(list, entry)

(* The entry takes the place of the item with its number, or comes last.   *)
Put(entry) ==
  \/ /\ \A n \in DOMAIN list : list[n].id # entry.id
     /\ list' = Append(list, entry)
  \/ \E n \in DOMAIN list :
       FoundAt(entry.id, n) /\ list' = [list EXCEPT ![n] = entry]

(* Fault: the time already counted is not charged. *)
ChargedNothing(elapse) == elapse

Charged(elapse) == Plus(elapse, timePass)

(* Fault: the countdown is set to the new timer's time. *)
Overtaken(elapse) == elapse

Earlier(elapse) == IF elapse < timeLeave THEN elapse ELSE timeLeave

SetTimer(id, dwElapse, dwRepeat) ==
  LET elapse == Rounded(dwElapse)
  IN /\ MayCall
     /\ dwRepeat > 0
     /\ Put([id |-> id, elapse |-> elapse, left |-> Charged(elapse), repeat |-> dwRepeat])
     /\ timeLeave' = Earlier(elapse)
     /\ posted' = << >>
     /\ UNCHANGED <<service, timePass, loopVars>>

KillTimer(id) ==
  /\ MayCall
  /\ \E n \in DOMAIN list : FoundAt(id, n) /\ list' = RemoveAt(list, n)
  /\ IF list' = << >> THEN timePass' = 0 /\ timeLeave' = NO_TIME_LEFT
                      ELSE UNCHANGED <<timePass, timeLeave>>
  /\ posted' = << >>
  /\ UNCHANGED <<service, loopVars>>

ClearTimers ==
  /\ list' = << >>
  /\ timePass' = 0
  /\ timeLeave' = NO_TIME_LEFT
  /\ posted' = << >>
  /\ UNCHANGED loopVars

KillAllTimer == MayCall /\ ClearTimers /\ UNCHANGED service

-----------------------------------------------------------------------------
(* OnTimerThreadSink. *)
ThreadRuns == service \in {"running", "stopping"}

TickIdle ==
  /\ LockFree
  /\ timeLeave = NO_TIME_LEFT
  /\ posted' = << >>
  /\ UNCHANGED <<timePass, timeLeave, list, loopVars>>

TickCounts ==
  /\ LockFree
  /\ timeLeave # NO_TIME_LEFT
  /\ Minus(timeLeave, TIMER_SPACE) # 0
  /\ timeLeave' = Minus(timeLeave, TIMER_SPACE)
  /\ timePass' = Plus(timePass, TIMER_SPACE)
  /\ posted' = << >>
  /\ UNCHANGED <<list, loopVars>>

LoopStarts ==
  /\ LockFree
  /\ timeLeave # NO_TIME_LEFT
  /\ Minus(timeLeave, TIMER_SPACE) = 0
  /\ timeLeave' = 0
  /\ timePass' = Plus(timePass, TIMER_SPACE)
  /\ posted' = << >>
  /\ index' = 1
  /\ before' = [timePass |-> timePass, timeLeave |-> timeLeave, list |-> list,
                fired |-> ToSet(posted)]
  /\ UNCHANGED <<list, least>>

(* Fault: the loop's minimum forgets the items that start again.           *)
KeepForgets(entry) ==
  /\ list' = [list EXCEPT ![index] = entry]
  /\ least' = IF entry.left < least /\ entry.left # entry.elapse THEN entry.left ELSE least
  /\ index' = index + 1

(* An item stays in the array, perhaps changed, and the loop goes on.      *)
Keep(entry) ==
  /\ list' = [list EXCEPT ![index] = entry]
  /\ least' = IF entry.left < least THEN entry.left ELSE least
  /\ index' = index + 1

(* The item after it was notified and starts again. *)
Restarted(entry) ==
  [entry EXCEPT !.left = entry.elapse,
                !.repeat = IF @ = TIMER_REPEAT_TIMER THEN @ ELSE Minus(@, 1)]

NotDue ==
  LET left == Minus(list[index].left, timePass)
  IN /\ left # 0
     /\ Keep([list[index] EXCEPT !.left = left])
     /\ UNCHANGED posted

Notify ==
  /\ Minus(list[index].left, timePass) = 0
  /\ posted' = Append(posted, list[index].id)

Restart ==
  /\ Notify
  /\ list[index].repeat # 1
  /\ Keep(Restarted(list[index]))

(* Fault: the index is increased after a removal, too. *)
ExhaustSkips ==
  /\ Notify
  /\ list[index].repeat = 1
  /\ list' = RemoveAt(list, index)
  /\ index' = index + 1
  /\ UNCHANGED least

Exhaust ==
  /\ Notify
  /\ list[index].repeat = 1
  /\ list' = RemoveAt(list, index)
  /\ UNCHANGED <<index, least>>

LoopItem ==
  /\ index \in DOMAIN list
  /\ NotDue \/ Restart \/ Exhaust
  /\ UNCHANGED <<timePass, timeLeave, before>>

LoopEnds ==
  /\ index > Len(list)
  /\ timePass' = 0
  /\ timeLeave' = least
  /\ index' = 0
  /\ least' = NO_TIME_LEFT
  /\ before' = NoLoop
  /\ UNCHANGED <<list, posted>>

OnTimerThreadSink ==
  /\ ThreadRuns
  /\ TickIdle \/ TickCounts \/ LoopStarts \/ LoopItem \/ LoopEnds
  /\ UNCHANGED service

-----------------------------------------------------------------------------
StartService ==
  /\ service = "stopped"
  /\ service' = "running"
  /\ timePass' = 0
  /\ timeLeave' = NO_TIME_LEFT
  /\ posted' = << >>
  /\ UNCHANGED <<list, loopVars>>

(* The flag is lowered without the lock. *)
StopService ==
  /\ service = "running"
  /\ service' = "stopping"
  /\ IF LockFree THEN posted' = << >> /\ UNCHANGED before
                 ELSE before' = [before EXCEPT !.fired = {}] /\ UNCHANGED posted
  /\ UNCHANGED <<timePass, timeLeave, list, index, least>>

(* The thread ends between two calls of OnTimerThreadSink. *)
ThreadConcluded ==
  /\ service = "stopping" /\ LockFree
  /\ service' = "joined"
  /\ posted' = << >>
  /\ UNCHANGED <<timePass, timeLeave, list, loopVars>>

StopServiceDone ==
  /\ service = "joined"
  /\ service' = "stopped"
  /\ ClearTimers

-----------------------------------------------------------------------------
AnySetTimer(id) ==
  \E dwElapse \in Elapses, dwRepeat \in Repeats : SetTimer(id, dwElapse, dwRepeat)

Next ==
  \/ \E id \in Ids : AnySetTimer(id) \/ KillTimer(id)
  \/ KillAllTimer
  \/ OnTimerThreadSink
  \/ StartService \/ StopService \/ ThreadConcluded \/ StopServiceDone

Spec == Init /\ [][Next]_vars

(* The timer thread keeps running: RepetitionRun only sleeps. *)
FairSpec == Spec /\ WF_vars(OnTimerThreadSink)

-----------------------------------------------------------------------------
(* The mapping to TimerEngine: the loop takes effect when it ends.         *)
Numbers(items) == {items[n].id : n \in DOMAIN items}

Fields(entry) == [elapse |-> entry.elapse, left |-> entry.left, repeat |-> entry.repeat]

ItemsOf(items) ==
  [id \in Ids |-> IF id \in Numbers(items)
                 THEN Fields(items[CHOOSE n \in DOMAIN items : items[n].id = id])
                 ELSE NoItem]

Settled ==
  IF LockFree THEN [timePass |-> timePass, timeLeave |-> timeLeave, list |-> list,
                    fired |-> ToSet(posted)]
              ELSE before

Engine == INSTANCE TimerEngine WITH
  timePass <- Settled.timePass, timeLeave <- Settled.timeLeave,
  active <- Numbers(Settled.list), item <- ItemsOf(Settled.list), fired <- Settled.fired

(* The search, the array and the loop over it do what TimerEngine says in  *)
(* one step: whatever the order of the items and however many of them the  *)
(* loop removes, it visits each exactly once, notifies the due ones and    *)
(* finds the earliest next time.                                           *)
ImplementsEngine == Engine!Spec

(* Every timer is notified in the tick in which its own time is up, and in *)
(* no other, as if each counted down by itself.                            *)
CountsEachTimer == Engine!CountsEachTimer

(* The asserts of OnTimerThreadSink.  Between ticks the countdown is off   *)
(* exactly when the array is empty, and otherwise at least one tick and    *)
(* never later than a timer; in the loop no item ahead is overdue, and the *)
(* minimum so far is a whole number of ticks, not above any item behind.   *)
CountdownIsEarliest ==
  /\ Engine!CountdownIsEarliest
  /\ ~LockFree =>
       /\ \A n \in index .. Len(list) : list[n].left >= timePass
       /\ \A n \in 1 .. index - 1 : least <= list[n].left
       /\ least # NO_TIME_LEFT => least % TIMER_SPACE = 0

(* A timer that stays set while the engine runs is notified again and      *)
(* again; only setting it anew can put it off.                             *)
TimersKeepFiring ==
  \A id \in Ids :
    \/ []<>(id \notin Numbers(list) \/ service # "running")
    \/ []<><<AnySetTimer(id)>>_vars
    \/ []<>(id \in ToSet(posted))
=============================================================================
