------------------------- MODULE TimerEngineProofs --------------------------
(***************************************************************************)
(* CTimerEngine's single countdown implements independent timers, for any  *)
(* set of timers, any number of repetitions and any size of a DWORD, as    *)
(* long as no timer is asked for zero or for half the range of a DWORD.    *)
(***************************************************************************)
EXTENDS TimerEngine, TLAPS

(* A whole number of ticks. *)
Ticks(time) == time % TIMER_SPACE = 0

(* An active item: its period is modest, it is not due before the engine's *)
(* countdown ends, and it waits at most one period.                        *)
ItemInv(id) ==
  /\ Ticks(item[id].elapse)
  /\ item[id].elapse >= TIMER_SPACE
  /\ 2 * item[id].elapse < NO_TIME_LEFT
  /\ Ticks(item[id].left)
  /\ item[id].left >= timePass + timeLeave
  /\ item[id].left <= item[id].elapse + timePass

ClockInv ==
  /\ active = {} => timeLeave = NO_TIME_LEFT /\ timePass = 0
  /\ active # {} => /\ timeLeave >= TIMER_SPACE
                    /\ 2 * (timePass + timeLeave) < NO_TIME_LEFT
                    /\ Ticks(timeLeave)
                    /\ Ticks(timePass)

IInv ==
  /\ TypeOK
  /\ ClockInv
  /\ \A id \in active : ItemInv(id)
  /\ \A id \in Ids \ active : item[id] = NoItem
  /\ service = "stopped" => active = {}
-----------------------------------------------------------------------------
LEMMA RoundedFacts ==
  ASSUME ModestElapses, NEW time \in Elapses
  PROVE  /\ Rounded(time) \in Dword
         /\ Ticks(Rounded(time))
         /\ Rounded(time) >= TIMER_SPACE
         /\ 2 * Rounded(time) < NO_TIME_LEFT
         /\ Rounded(time) = Countdowns!RoundUp(time)
<1>1. /\ time \in Nat /\ 0 < time /\ 2 * (time + 25) < DwordSize - 1 /\ DwordSize \in Nat
  BY ConstantsAssumption DEF ModestElapses, TIMER_SPACE, NO_TIME_LEFT
<1>2. Plus(time, 24) = time + 24
  BY <1>1 DEF Plus
<1>3. Rounded(time) = ((time + 24) \div 25) * 25
  BY <1>1, <1>2 DEF Rounded, TIMER_SPACE
<1>4. PICK n \in Nat : n = (time + 24) \div 25 /\ time <= n * 25 /\ n * 25 <= time + 24
  BY <1>1
<1>5. Countdowns!RoundUp(time) = ((time + 24) \div 25) * 25
  BY <1>1 DEF Countdowns!RoundUp, Countdowns!Space
<1>6. Rounded(time) = n * 25 /\ (n * 25) % 25 = 0 /\ n >= 1
  BY <1>1, <1>3, <1>4
<1> QED
  BY <1>1, <1>3, <1>4, <1>5, <1>6 DEF Ticks, TIMER_SPACE, NO_TIME_LEFT, Dword

LEMMA DoubledBelow ==
  ASSUME NEW a \in Nat, NEW b \in Nat, NEW c \in Nat, NEW d \in Nat,
         a <= b, b <= c, 2 * c < d
  PROVE  2 * a < d
  OBVIOUS

LEMMA InitInv == ASSUME Init PROVE IInv
  BY ConstantsAssumption DEF Init, IInv, TypeOK, ClockInv, Dword, NO_TIME_LEFT

(* No DWORD of the countdown or of an active item comes near its limit.    *)
LEMMA Ranges ==
  ASSUME IInv
  PROVE  /\ DwordSize \in Nat /\ DwordSize > 50
         /\ timePass \in Nat /\ timeLeave \in Nat
         /\ \A id \in active :
              /\ id \in Ids /\ item[id] \in Item
              /\ item[id].elapse \in Nat /\ item[id].left \in Nat
              /\ item[id].left < NO_TIME_LEFT
              /\ item[id].repeat \in Nat \ {0} /\ item[id].repeat < DwordSize
<1>1. DwordSize \in Nat /\ DwordSize > 50
  BY ConstantsAssumption
<1>2. timePass \in Nat /\ timeLeave \in Nat
  BY <1>1 DEF IInv, TypeOK, Dword
<1>3. ASSUME NEW id \in active
      PROVE  /\ id \in Ids /\ item[id] \in Item
             /\ item[id].elapse \in Nat /\ item[id].left \in Nat
             /\ item[id].repeat \in Nat \ {0} /\ item[id].repeat < DwordSize
  BY <1>1 DEF IInv, TypeOK, Item, Dword
<1>4. ASSUME NEW id \in active PROVE item[id].left < NO_TIME_LEFT
  BY <1>1, <1>2, <1>3 DEF IInv, ItemInv, ClockInv, NO_TIME_LEFT, TIMER_SPACE
<1> QED
  BY <1>1, <1>2, <1>3, <1>4

LEMMA SetTimerInv ==
  ASSUME ModestElapses, IInv, NEW id \in Ids, NEW time \in Elapses, NEW repeat \in Repeats,
         SetTimer(id, time, repeat)
  PROVE  IInv'
<1> DEFINE e == Rounded(time)
           new == [elapse |-> e, left |-> Plus(e, timePass), repeat |-> repeat]
<1>1. e \in Dword /\ Ticks(e) /\ e >= 25 /\ 2 * e < NO_TIME_LEFT
  BY RoundedFacts DEF TIMER_SPACE
<1> HIDE DEF e
<1>2. /\ item' = [item EXCEPT ![id] = new] /\ active' = active \cup {id}
      /\ timeLeave' = IF e < timeLeave THEN e ELSE timeLeave
      /\ timePass' = timePass /\ fired' = {} /\ service' = service /\ service = "running"
      /\ repeat > 0
  BY DEF SetTimer, MayCall, e
<1>3. DwordSize \in Nat /\ timePass \in Nat /\ timeLeave \in Nat /\ e \in Nat
      /\ repeat \in Dword \ {0}
  BY <1>1, <1>2, Ranges, ConstantsAssumption DEF Dword
<1>4. /\ Plus(e, timePass) = e + timePass /\ e + timePass \in Dword
      /\ Ticks(timePass) /\ 2 * timePass < NO_TIME_LEFT
  BY <1>1, <1>3 DEF IInv, ClockInv, Plus, Dword, NO_TIME_LEFT, Ticks, TIMER_SPACE
<1>5. new \in Item
  BY <1>1, <1>3, <1>4 DEF Item
<1>6. item'[id] = new /\ \A other \in Ids \ {id} : item'[other] = item[other]
  BY <1>2 DEF IInv, TypeOK
<1>7. TypeOK'
  BY <1>1, <1>2, <1>3, <1>5, <1>6 DEF IInv, TypeOK
<1>8. ClockInv'
  <2>1. active' # {} /\ timePass' = timePass /\ timeLeave' \in {e, timeLeave}
    BY <1>2
  <2>2. CASE timeLeave' = e
    <3>1. 2 * (timePass + e) < NO_TIME_LEFT
      <4>1. e <= timeLeave
        BY <1>2, <1>3, <2>2
      <4>2. CASE active = {}
        <5>1. timePass = 0
          BY <4>2 DEF IInv, ClockInv
        <5> QED
          BY <1>1, <1>3, <5>1
      <4>3. CASE active # {}
        <5>1. 2 * (timePass + timeLeave) < NO_TIME_LEFT
          BY <4>3 DEF IInv, ClockInv
        <5> QED
          BY <1>3, <4>1, <5>1 DEF NO_TIME_LEFT
      <4> QED
        BY <4>2, <4>3
    <3> QED
      BY <1>1, <1>4, <2>1, <2>2, <3>1 DEF ClockInv, TIMER_SPACE, Ticks
  <2>3. CASE timeLeave' = timeLeave /\ timeLeave # e
    <3>1. timeLeave < NO_TIME_LEFT
      BY <1>1, <1>2, <1>3, <2>3 DEF NO_TIME_LEFT
    <3>2. active # {}
      BY <1>3, <3>1 DEF IInv, ClockInv, NO_TIME_LEFT
    <3> QED
      BY <1>4, <2>1, <2>3, <3>2 DEF IInv, ClockInv
  <2> QED
    BY <2>1, <2>2, <2>3
<1>9. ItemInv(id)'
  <2>1. item'[id].elapse = e /\ item'[id].left = e + timePass
    BY <1>4, <1>6
  <2>2. timeLeave' <= e /\ timeLeave' \in Nat
    BY <1>2, <1>3
  <2>3. Ticks(e + timePass)
    BY <1>1, <1>3, <1>4 DEF Ticks, TIMER_SPACE
  <2>4. /\ e + timePass >= timePass' + timeLeave'
        /\ e + timePass <= e + timePass'
    BY <1>2, <1>3, <2>2
  <2> QED
    BY <1>1, <2>1, <2>3, <2>4 DEF ItemInv, TIMER_SPACE, Ticks
<1>10. ASSUME NEW other \in active, other # id PROVE ItemInv(other)'
  <2>1. item'[other] = item[other] /\ ItemInv(other)
    BY <1>6, <1>10, Ranges DEF IInv
  <2>2. timeLeave' <= timeLeave /\ timeLeave' \in Nat
    BY <1>2, <1>3
  <2> QED
    BY <1>2, <1>3, <1>10, <2>1, <2>2, Ranges DEF ItemInv
<1> QED
  BY <1>2, <1>6, <1>7, <1>8, <1>9, <1>10 DEF IInv

LEMMA ClearedInv ==
  ASSUME IInv, ClearTimers, service' \in {"stopped", "running"}
  PROVE  IInv'
  BY ConstantsAssumption
     DEF ClearTimers, IInv, TypeOK, ClockInv, Dword, NO_TIME_LEFT

LEMMA KillTimerInv ==
  ASSUME IInv, NEW id \in Ids, KillTimer(id)
  PROVE  IInv'
<1>1. /\ service' = service /\ fired' = {} /\ id \in active
      /\ active' = active \ {id} /\ item' = [item EXCEPT ![id] = NoItem]
      /\ service = "running"
  BY DEF KillTimer, MayCall
<1>2. /\ item' \in [Ids -> Item \cup {NoItem}] /\ item'[id] = NoItem
      /\ \A other \in Ids \ {id} : item'[other] = item[other]
  BY <1>1 DEF IInv, TypeOK
<1>3. CASE active = {id}
  <2>1. timePass' = 0 /\ timeLeave' = NO_TIME_LEFT /\ active' = {}
    BY <1>1, <1>3 DEF KillTimer
  <2> QED
    BY <1>1, <1>2, <2>1, ConstantsAssumption
       DEF IInv, TypeOK, ClockInv, Dword, NO_TIME_LEFT
<1>4. CASE active # {id}
  <2>1. timePass' = timePass /\ timeLeave' = timeLeave
    BY <1>4 DEF KillTimer
  <2>2. \A other \in active' : ItemInv(other)'
    BY <1>1, <1>2, <2>1, Ranges DEF IInv, ItemInv
  <2> QED
    BY <1>1, <1>2, <1>4, <2>1, <2>2 DEF IInv, TypeOK, ClockInv
<1> QED
  BY <1>3, <1>4

-----------------------------------------------------------------------------
(* The tick. *)

LEMMA TickCountsInv ==
  ASSUME IInv, TickCounts, UNCHANGED service
  PROVE  IInv' /\ timeLeave >= 50 /\ timePass' = timePass + 25
<1>1. /\ DwordSize \in Nat /\ DwordSize > 50 /\ timePass \in Nat /\ timeLeave \in Nat
  BY Ranges
<1>2. active # {}
  BY DEF TickCounts, IInv, ClockInv
<1>3. /\ timeLeave >= 25 /\ 2 * (timePass + timeLeave) < NO_TIME_LEFT
      /\ timeLeave % 25 = 0 /\ timePass % 25 = 0
  BY <1>2 DEF IInv, ClockInv, Ticks, TIMER_SPACE
<1>4. /\ timeLeave' = timeLeave - 25 /\ timeLeave' # 0
      /\ timePass' = timePass + 25
  BY <1>1, <1>3 DEF TickCounts, Minus, Plus, TIMER_SPACE, NO_TIME_LEFT
<1>5. /\ timeLeave' >= 25 /\ timeLeave' % 25 = 0 /\ timePass' % 25 = 0
      /\ timePass' + timeLeave' = timePass + timeLeave
      /\ timeLeave' \in Dword /\ timePass' \in Dword /\ timeLeave >= 50
  BY <1>1, <1>3, <1>4 DEF Dword, NO_TIME_LEFT
<1>6. \A id \in active : ItemInv(id)'
  BY <1>1, <1>4, <1>5, Ranges DEF IInv, ItemInv, TickCounts
<1> QED
  BY <1>1, <1>2, <1>3, <1>4, <1>5, <1>6
     DEF IInv, TypeOK, ClockInv, TickCounts, Ticks, TIMER_SPACE

(* When the countdown ends, an item is due exactly when its time less the  *)
(* time counted is one tick; none is overdue.                              *)
LEMMA ScanFacts ==
  ASSUME IInv, TickScans
  PROVE  /\ active # {} /\ timeLeave = 25
         /\ Plus(timePass, 25) = timePass + 25
         /\ Ticks(timePass)
         /\ \A id \in active :
              /\ item[id].left >= timePass + 25
              /\ Minus(item[id].left, timePass + 25) = item[id].left - (timePass + 25)
<1>1. DwordSize \in Nat /\ DwordSize > 50 /\ timePass \in Nat /\ timeLeave \in Nat
  BY Ranges
<1>2. active # {}
  BY DEF TickScans, IInv, ClockInv
<1>3. timeLeave >= 25 /\ 2 * (timePass + timeLeave) < NO_TIME_LEFT /\ Ticks(timePass)
  BY <1>2 DEF IInv, ClockInv, TIMER_SPACE
<1>4. timeLeave = 25
  BY <1>1, <1>3 DEF TickScans, Minus, TIMER_SPACE
<1>5. Plus(timePass, 25) = timePass + 25
  BY <1>1, <1>3, <1>4 DEF Plus, NO_TIME_LEFT
<1>6. \A id \in active : item[id].left >= timePass + 25 /\ item[id].left \in Nat
  BY <1>4, Ranges DEF IInv, ItemInv
<1>7. \A id \in active :
        Minus(item[id].left, timePass + 25) = item[id].left - (timePass + 25)
  BY <1>1, <1>6 DEF Minus
<1> QED
  BY <1>2, <1>3, <1>4, <1>5, <1>6, <1>7

LEMMA TickScansInv ==
  ASSUME IInv, TickScans, UNCHANGED service
  PROVE  IInv'
<1> DEFINE pass == timePass + 25
<1>1. /\ DwordSize \in Nat /\ DwordSize > 50 /\ timePass \in Nat /\ pass \in Nat
      /\ active # {} /\ timeLeave = 25 /\ Ticks(timePass)
      /\ \A id \in active : /\ item[id].left >= pass
                           /\ Minus(item[id].left, pass) = item[id].left - pass
  BY ScanFacts, Ranges
<1>2. /\ fired' = Due(pass)
      /\ active' = active \ Exhausted(pass)
      /\ item' = [id \in Ids |-> Scanned(id, pass)]
      /\ timePass' = 0
      /\ timeLeave' \in {NO_TIME_LEFT} \cup {item'[id].left : id \in active'}
      /\ \A id \in active' : timeLeave' <= item'[id].left
  BY ScanFacts DEF TickScans, TIMER_SPACE
<1> HIDE DEF pass
<1>3. ASSUME NEW id \in active'
      PROVE  /\ id \in Ids /\ item'[id] \in Item
             /\ Ticks(item'[id].left) /\ Ticks(item'[id].elapse)
             /\ item'[id].left >= 25 /\ item'[id].left <= item'[id].elapse
             /\ item'[id].elapse >= 25 /\ 2 * item'[id].elapse < NO_TIME_LEFT
  <2>1. /\ id \in active /\ id \in Ids /\ id \notin Exhausted(pass)
        /\ item'[id] = Scanned(id, pass)
    BY <1>2 DEF IInv, TypeOK
  <2>2. /\ ItemInv(id) /\ item[id] \in Item
        /\ item[id].elapse \in Nat /\ item[id].left \in Nat
        /\ item[id].left < NO_TIME_LEFT
        /\ item[id].repeat \in Nat \ {0} /\ item[id].repeat < DwordSize
    BY <2>1, Ranges DEF IInv
  <2>3. CASE id \in Due(pass)
    <3>1. /\ item[id].repeat # 1
          /\ item'[id] = [elapse |-> item[id].elapse, left |-> item[id].elapse,
               repeat |-> IF item[id].repeat = TIMER_REPEAT_TIMER THEN item[id].repeat
                                                   ELSE Minus(item[id].repeat, 1)]
      BY <2>1, <2>2, <2>3 DEF Scanned, Exhausted, Item
    <3>2. Minus(item[id].repeat, 1) \in Dword \ {0}
      BY <1>1, <2>2, <3>1 DEF Minus, Dword
    <3>3. /\ item'[id] \in Item /\ item'[id].left = item[id].elapse
          /\ item'[id].elapse = item[id].elapse
      BY <2>2, <3>1, <3>2 DEF Item
    <3> QED
      BY <2>1, <2>2, <3>3 DEF ItemInv, TIMER_SPACE
  <2>4. CASE id \notin Due(pass)
    <3>1. item'[id] = [item[id] EXCEPT !.left = item[id].left - pass]
      BY <1>1, <2>1, <2>2, <2>4 DEF Scanned, Item
    <3>2. item[id].left - pass # 0 /\ item[id].left >= pass
      BY <1>1, <2>1, <2>4 DEF Due
    <3>3. item[id].left - pass \in Dword /\ (item[id].left - pass) % 25 = 0
      BY <1>1, <2>2, <3>2 DEF Dword, NO_TIME_LEFT, ItemInv, Ticks, TIMER_SPACE, pass
    <3>4. /\ item'[id] \in Item /\ item'[id].left = item[id].left - pass
          /\ item'[id].elapse = item[id].elapse
      BY <2>2, <3>1, <3>3 DEF Item
    <3>5. item[id].left - pass >= 25 /\ item[id].left - pass <= item[id].elapse
      BY <1>1, <2>2, <3>2, <3>3 DEF ItemInv, pass
    <3> QED
      BY <2>1, <2>2, <3>3, <3>4, <3>5 DEF ItemInv, Ticks, TIMER_SPACE
  <2> QED
    BY <2>3, <2>4
<1>4. /\ timeLeave' \in Dword
      /\ active' = {} => timeLeave' = NO_TIME_LEFT
      /\ active' # {} => /\ timeLeave' >= 25 /\ 2 * timeLeave' < NO_TIME_LEFT
                         /\ Ticks(timeLeave')
  <2>0. NO_TIME_LEFT \in Dword
    BY <1>1 DEF NO_TIME_LEFT, Dword
  <2>1. CASE active' = {}
    BY <1>2, <2>0, <2>1
  <2>2. CASE active' # {}
    <3>1. PICK id \in active' : TRUE
      BY <2>2
    <3>2. /\ timeLeave' <= item'[id].left /\ item'[id].left <= item'[id].elapse
          /\ 2 * item'[id].elapse < NO_TIME_LEFT
          /\ item'[id].left \in Dword /\ item'[id].elapse \in Dword
      BY <1>2, <1>3 DEF Item
    <3>3. timeLeave' # NO_TIME_LEFT
      BY <1>1, <3>2 DEF NO_TIME_LEFT, Dword
    <3>4. PICK least \in active' : timeLeave' = item'[least].left
      BY <1>2, <3>3
    <3>5. timeLeave' \in Dword /\ timeLeave' >= 25 /\ Ticks(timeLeave')
      BY <1>3, <3>4 DEF Item
    <3>6. 2 * timeLeave' < NO_TIME_LEFT
      <4>1. /\ timeLeave' \in Nat /\ item'[id].left \in Nat
            /\ item'[id].elapse \in Nat /\ NO_TIME_LEFT \in Nat
        BY <1>1, <3>2, <3>5 DEF Dword, NO_TIME_LEFT
      <4> QED
        BY <3>2, <4>1, DoubledBelow
    <3> QED
      BY <2>2, <3>5, <3>6
  <2> QED
    BY <2>1, <2>2
<1>5. TypeOK'
  <2>1. \A id \in Ids : item'[id] \in Item \cup {NoItem}
    <3>1. TAKE id \in Ids
    <3>2. CASE id \in active'
      BY <1>3, <3>2
    <3>3. CASE id \notin active'
      BY <1>2, <3>3 DEF Scanned, IInv, TypeOK
    <3> QED
      BY <3>2, <3>3
  <2>2. item' \in [Ids -> Item \cup {NoItem}]
    BY <1>2, <2>1
  <2>3. service' \in {"stopped", "running", "stopping", "joined"}
    BY DEF IInv, TypeOK
  <2>4. active' \subseteq Ids /\ fired' \subseteq Ids
    BY <1>2 DEF IInv, TypeOK, Due
  <2>5. timePass' \in Dword
    BY <1>1, <1>2 DEF Dword
  <2> QED
    BY <1>3, <1>4, <2>2, <2>3, <2>4, <2>5 DEF TypeOK
<1>6. ClockInv'
  <2>1. timeLeave' \in Nat /\ 0 % 25 = 0
    BY <1>1, <1>4 DEF Dword
  <2>2. active' # {} => 2 * (0 + timeLeave') < NO_TIME_LEFT
    BY <1>4, <2>1
  <2> QED
    BY <1>2, <1>4, <2>1, <2>2 DEF ClockInv, Ticks, TIMER_SPACE
<1>7. \A id \in active' : ItemInv(id)'
  <2>1. TAKE id \in active'
  <2>2. timeLeave' <= item'[id].left /\ timeLeave' \in Nat
    BY <1>1, <1>2, <1>4 DEF Dword
  <2>3. item'[id].left \in Nat /\ item'[id].elapse \in Nat
    BY <1>1, <1>3 DEF Item, Dword
  <2>4. /\ item'[id].left >= timePass' + timeLeave'
        /\ item'[id].left <= item'[id].elapse + timePass'
    BY <1>2, <1>3, <2>2, <2>3
  <2> QED
    BY <1>3, <2>4 DEF ItemInv, TIMER_SPACE, Ticks
<1>8. \A id \in Ids \ active' : item'[id] = NoItem
  BY <1>2 DEF Scanned, IInv
<1> QED
  BY <1>5, <1>6, <1>7, <1>8 DEF IInv, TickScans

LEMMA TickInv ==
  ASSUME IInv, OnTimerThreadSink
  PROVE  IInv'
<1>1. CASE TickIdle
  BY <1>1 DEF TickIdle, OnTimerThreadSink, IInv, TypeOK, ClockInv, ItemInv
<1>2. CASE TickCounts
  BY <1>2, TickCountsInv DEF OnTimerThreadSink
<1>3. CASE TickScans
  BY <1>3, TickScansInv DEF OnTimerThreadSink
<1> QED
  BY <1>1, <1>2, <1>3 DEF OnTimerThreadSink

-----------------------------------------------------------------------------
(* The theorems. *)

(* The strengthened invariant holds in every reachable state.              *)
THEOREM InductiveInvariant == ASSUME ModestElapses PROVE Spec => []IInv
<1>1. Init => IInv
  BY InitInv
<1>2. IInv /\ [Next]_vars => IInv'
  <2> SUFFICES ASSUME IInv, [Next]_vars PROVE IInv'
    OBVIOUS
  <2>1. CASE \E id \in Ids : AnySetTimer(id) \/ KillTimer(id)
    BY <2>1, SetTimerInv, KillTimerInv DEF AnySetTimer
  <2>2. CASE KillAllTimer
    BY <2>2, ClearedInv DEF KillAllTimer, MayCall
  <2>3. CASE OnTimerThreadSink
    BY <2>3, TickInv
  <2>4. CASE StartService
    BY <2>4, ConstantsAssumption
       DEF StartService, IInv, TypeOK, ClockInv, NO_TIME_LEFT, Dword
  <2>5. CASE StopService \/ ThreadConcluded
    BY <2>5 DEF StopService, ThreadConcluded, IInv, TypeOK, ClockInv, ItemInv
  <2>6. CASE StopServiceDone
    BY <2>6, ClearedInv DEF StopServiceDone
  <2>7. CASE UNCHANGED vars
    BY <2>7 DEF vars, IInv, TypeOK, ClockInv, ItemInv
  <2> QED
    BY <2>1, <2>2, <2>3, <2>4, <2>5, <2>6, <2>7 DEF Next
<1> QED
  BY <1>1, <1>2, PTL DEF Spec

(* Every variable keeps its type; an item left active never runs out of    *)
(* repetitions.                                                            *)
THEOREM TypeCorrect == ASSUME ModestElapses PROVE Spec => []TypeOK
<1>1. IInv => TypeOK
  BY DEF IInv
<1> QED
  BY <1>1, InductiveInvariant, PTL

(* The countdown never ends later than a timer, so that no assert of       *)
(* OnTimerThreadSink fails and no DWORD wraps.                             *)
THEOREM CountdownAlwaysEarliest ==
  ASSUME ModestElapses PROVE Spec => []CountdownIsEarliest
<1>1. IInv => CountdownIsEarliest
  <2> SUFFICES ASSUME IInv PROVE CountdownIsEarliest
    OBVIOUS
  <2>1. timeLeave \in Nat /\ timePass \in Nat /\ DwordSize \in Nat
    BY Ranges
  <2>2. active # {} => timeLeave < NO_TIME_LEFT
    BY <2>1 DEF IInv, ClockInv, NO_TIME_LEFT
  <2> QED
    BY <2>1, <2>2 DEF IInv, ClockInv, ItemInv, CountdownIsEarliest, NO_TIME_LEFT, Ticks
<1> QED
  BY <1>1, InductiveInvariant, PTL

-----------------------------------------------------------------------------
(* The engine implements Timers: each step of it is a step there, or none. *)

(* The time left of an item replaced, once or twice. *)
LEMMA LeftOfRecord ==
  ASSUME NEW elapse, NEW left, NEW repeat, NEW new
  PROVE  [[elapse |-> elapse, left |-> left, repeat |-> repeat] EXCEPT !.left = new]
           = [left |-> new, elapse |-> elapse, repeat |-> repeat]
  OBVIOUS

LEMMA LeftOfItem ==
  ASSUME NEW r \in Item, NEW left, NEW new
  PROVE  /\ [r EXCEPT !.left = left].left = left
         /\ [[r EXCEPT !.left = left] EXCEPT !.left = new] = [r EXCEPT !.left = new]
  BY DEF Item

(* The abstract timers before and after a step. *)
LEMMA TimerOf ==
  ASSUME IInv
  PROVE  /\ TimeToGo = [id \in Ids |-> TimeToGo[id]]
         /\ \A id \in active :
              /\ id \in Ids
              /\ TimeToGo[id] = [item[id] EXCEPT !.left = item[id].left - timePass]
              /\ TimeToGo[id].left = item[id].left - timePass
              /\ TimeToGo[id].elapse = item[id].elapse
              /\ TimeToGo[id].repeat = item[id].repeat
              /\ TimeToGo[id] # NoItem
         /\ \A id \in Ids \ active : TimeToGo[id] = NoItem
<1>1. TimeToGo = [id \in Ids |-> TimeToGo[id]]
  BY DEF TimeToGo
<1>2. ASSUME NEW id \in active
      PROVE  /\ id \in Ids
             /\ TimeToGo[id] = [item[id] EXCEPT !.left = item[id].left - timePass]
             /\ TimeToGo[id].left = item[id].left - timePass
             /\ TimeToGo[id].elapse = item[id].elapse
             /\ TimeToGo[id].repeat = item[id].repeat
             /\ TimeToGo[id] # NoItem
  <2>1. id \in Ids /\ item[id] \in Item /\ item[id].elapse >= 25
    BY Ranges DEF IInv, ItemInv, TIMER_SPACE
  <2>2. TimeToGo[id] = [item[id] EXCEPT !.left = item[id].left - timePass]
    BY <2>1 DEF TimeToGo
  <2>3. /\ TimeToGo[id].left = item[id].left - timePass
        /\ TimeToGo[id].elapse = item[id].elapse
        /\ TimeToGo[id].repeat = item[id].repeat
    BY <2>1, <2>2 DEF Item
  <2>4. TimeToGo[id] # NoItem
    BY <2>1, <2>3 DEF NoItem
  <2> QED
    BY <2>1, <2>2, <2>3, <2>4
<1>3. \A id \in Ids \ active : TimeToGo[id] = NoItem
  BY DEF TimeToGo
<1> QED
  BY <1>1, <1>2, <1>3

LEMMA SetTimerRefines ==
  ASSUME ModestElapses, IInv, NEW id \in Ids, NEW time \in Elapses, NEW repeat \in Repeats,
         SetTimer(id, time, repeat)
  PROVE  Countdowns!Set(id, time, repeat)
<1> DEFINE e == Rounded(time)
           due == [left |-> e, elapse |-> e, repeat |-> repeat]
<1>1. e \in Nat /\ 2 * e < NO_TIME_LEFT /\ e = Countdowns!RoundUp(time)
      /\ DwordSize \in Nat /\ timePass \in Nat /\ timeLeave \in Nat
  BY RoundedFacts, Ranges DEF Dword
<1> HIDE DEF e
<1>2. Plus(e, timePass) = e + timePass
  BY <1>1 DEF IInv, ClockInv, Plus, NO_TIME_LEFT, TIMER_SPACE
<1>3. /\ item' = [item EXCEPT ![id] = [elapse |-> e, left |-> e + timePass,
                                       repeat |-> repeat]]
      /\ active' = active \cup {id} /\ timePass' = timePass /\ fired' = {}
      /\ service' = service
  BY <1>2 DEF SetTimer, e
<1>4. item \in [Ids -> Item \cup {NoItem}]
  BY DEF IInv, TypeOK
<1>5. TimeToGo'[id] = due
  <2>1. item'[id] = [elapse |-> e, left |-> e + timePass, repeat |-> repeat]
    BY <1>3, <1>4
  <2>2. TimeToGo'[id] = [item'[id] EXCEPT !.left = item'[id].left - timePass]
    BY <1>3 DEF TimeToGo
  <2>3. item'[id].left - timePass = e
    BY <1>1, <2>1
  <2> QED
    BY <2>1, <2>2, <2>3, LeftOfRecord
<1>6. ASSUME NEW other \in Ids, other # id PROVE TimeToGo'[other] = TimeToGo[other]
  BY <1>3, <1>4, <1>6 DEF TimeToGo
<1>7. TimeToGo' = [TimeToGo EXCEPT ![id] = due]
  BY <1>5, <1>6 DEF TimeToGo
<1> QED
  BY <1>1, <1>3, <1>7 DEF Countdowns!Set, ThreadRuns

LEMMA KillTimerRefines ==
  ASSUME IInv, IInv', NEW id \in Ids, KillTimer(id)
  PROVE  Countdowns!Kill(id)
<1>1. /\ service' = service /\ fired' = {} /\ id \in active
      /\ active' = active \ {id} /\ item' = [item EXCEPT ![id] = NoItem]
      /\ item \in [Ids -> Item \cup {NoItem}]
      /\ active = {id} \/ timePass' = timePass
  BY DEF KillTimer, IInv, TypeOK
<1>2. TimeToGo'[id] = NoItem
  BY <1>1 DEF TimeToGo
<1>3. ASSUME NEW other \in Ids, other # id PROVE TimeToGo'[other] = TimeToGo[other]
  BY <1>1, <1>3 DEF TimeToGo
<1>4. TimeToGo' = [TimeToGo EXCEPT ![id] = NoItem]
  BY <1>2, <1>3 DEF TimeToGo
<1> QED
  BY <1>1, <1>4 DEF Countdowns!Kill, Countdowns!NoTimer, NoItem, ThreadRuns

LEMMA ClearedRefines ==
  ASSUME ClearTimers, ThreadRuns' = ThreadRuns
  PROVE  Countdowns!KillAll
  BY DEF ClearTimers, TimeToGo, Countdowns!KillAll, Countdowns!NoTimer, NoItem

LEMMA TickRefines ==
  ASSUME IInv, IInv', OnTimerThreadSink
  PROVE  Countdowns!Tick
<1>1. ThreadRuns /\ ThreadRuns' = ThreadRuns
  BY DEF OnTimerThreadSink, ThreadRuns
<1>2. SUFFICES /\ \A id \in Ids : TimeToGo'[id] = Countdowns!Counted(TimeToGo[id])
               /\ fired' = {id \in Ids : TimeToGo[id] # NoItem /\ TimeToGo[id].left = 25}
  BY <1>1 DEF Countdowns!Tick, Countdowns!NoTimer, Countdowns!Space, NoItem, TimeToGo
<1>3. ASSUME NEW id \in Ids, id \notin active, id \notin active'
      PROVE  TimeToGo'[id] = Countdowns!Counted(TimeToGo[id])
  BY <1>3 DEF TimeToGo, Countdowns!Counted, Countdowns!NoTimer, NoItem
<1>4. CASE TickIdle
  <2>1. active = {} /\ active' = {} /\ fired' = {}
    <3>1. DwordSize \in Nat /\ timePass \in Nat /\ timeLeave \in Nat
      BY Ranges
    <3> QED
      BY <1>4, <3>1 DEF TickIdle, IInv, ClockInv, NO_TIME_LEFT
  <2> QED
    BY <1>3, <2>1, TimerOf
<1>5. CASE TickCounts
  <2>1. /\ timeLeave >= 50 /\ timePass' = timePass + 25 /\ fired' = {}
        /\ active' = active /\ item' = item /\ timePass \in Nat /\ timeLeave \in Nat
    BY <1>5, TickCountsInv, Ranges DEF TickCounts, OnTimerThreadSink
  <2>2. ASSUME NEW id \in active
        PROVE  /\ item[id].left \in Nat /\ item[id].left - timePass >= 50
               /\ item[id].left - timePass - 25 = item[id].left - timePass'
    BY <2>1, Ranges DEF IInv, ItemInv
  <2>3. ASSUME NEW id \in active
        PROVE  TimeToGo'[id] = Countdowns!Counted(TimeToGo[id]) /\ TimeToGo[id].left # 25
    <3>1. /\ TimeToGo[id] = [item[id] EXCEPT !.left = item[id].left - timePass]
          /\ TimeToGo[id].left = item[id].left - timePass
          /\ TimeToGo[id] # NoItem /\ id \in Ids /\ item[id] \in Item
      BY TimerOf, Ranges
    <3>2. TimeToGo[id].left # 25
      BY <2>2, <3>1
    <3>3. TimeToGo'[id] = [item[id] EXCEPT !.left = item[id].left - timePass']
      BY <2>1, <3>1 DEF TimeToGo
    <3>4. Countdowns!Counted(TimeToGo[id])
            = [TimeToGo[id] EXCEPT !.left = TimeToGo[id].left - 25]
      BY <3>1, <3>2 DEF Countdowns!Counted, Countdowns!NoTimer, Countdowns!Space, NoItem
    <3> QED
      BY <2>2, <3>1, <3>2, <3>3, <3>4 DEF Item
  <2> QED
    BY <1>3, <2>1, <2>3, TimerOf
<1>6. CASE TickScans
  <2> DEFINE pass == timePass + 25
  <2>1. /\ active # {} /\ timeLeave = 25 /\ timePass \in Nat
        /\ fired' = Due(pass) /\ active' = active \ Exhausted(pass)
        /\ item' = [id \in Ids |-> Scanned(id, pass)] /\ timePass' = 0
        /\ \A id \in active : /\ item[id].left >= pass
                             /\ Minus(item[id].left, pass) = item[id].left - pass
    BY <1>6, ScanFacts, Ranges DEF TickScans, TIMER_SPACE
  <2> HIDE DEF pass
  <2>2. ASSUME NEW id \in active
        PROVE  /\ TimeToGo'[id] = Countdowns!Counted(TimeToGo[id])
               /\ TimeToGo[id].left = 25 <=> id \in Due(pass)
    <3>1. /\ TimeToGo[id] = [item[id] EXCEPT !.left = item[id].left - timePass]
          /\ TimeToGo[id].left = item[id].left - timePass
          /\ TimeToGo[id].elapse = item[id].elapse
          /\ TimeToGo[id].repeat = item[id].repeat
          /\ TimeToGo[id] # NoItem /\ id \in Ids /\ item[id] \in Item
          /\ item[id].left \in Nat /\ item[id].elapse \in Nat
          /\ item[id].repeat \in Nat \ {0}
      BY TimerOf, Ranges
    <3>2. TimeToGo[id].left = 25 <=> id \in Due(pass)
      BY <2>1, <3>1 DEF Due, pass
    <3>3. item'[id] = Scanned(id, pass)
      BY <2>1, <3>1
    <3>4. CASE id \notin Due(pass)
      <4>1. /\ id \in active'
            /\ item'[id] = [item[id] EXCEPT !.left = item[id].left - pass]
        BY <2>1, <3>1, <3>3, <3>4 DEF Exhausted, Scanned, Item
      <4>2. TimeToGo'[id] = [item'[id] EXCEPT !.left = item'[id].left - 0]
        BY <2>1, <3>1, <4>1 DEF TimeToGo
      <4>3. /\ item'[id].left = item[id].left - pass
            /\ item[id].left - pass - 0 = item[id].left - timePass - 25
        BY <2>1, <3>1, <4>1 DEF Item, pass
      <4>4. Countdowns!Counted(TimeToGo[id])
              = [TimeToGo[id] EXCEPT !.left = TimeToGo[id].left - 25]
        BY <3>1, <3>2, <3>4
           DEF Countdowns!Counted, Countdowns!NoTimer, Countdowns!Space, NoItem
      <4> DEFINE rest == item[id].left - timePass - 25
      <4>5. TimeToGo'[id] = [item[id] EXCEPT !.left = rest]
        BY <3>1, <4>1, <4>2, <4>3, LeftOfItem
      <4>6. Countdowns!Counted(TimeToGo[id]) = [item[id] EXCEPT !.left = rest]
        BY <3>1, <4>4, LeftOfItem
      <4> QED
        BY <3>2, <4>5, <4>6
    <3>5. CASE id \in Due(pass) /\ item[id].repeat = 1
      <4>1. id \notin active'
        BY <2>1, <3>5 DEF Exhausted
      <4>2. TimeToGo'[id] = NoItem
        BY <3>1, <4>1 DEF TimeToGo
      <4>3. Countdowns!Counted(TimeToGo[id]) = NoItem
        BY <3>1, <3>2, <3>5
           DEF Countdowns!Counted, Countdowns!NoTimer, Countdowns!Space, NoItem
      <4> QED
        BY <3>2, <4>2, <4>3
    <3>6. CASE id \in Due(pass) /\ item[id].repeat # 1
      <4> DEFINE left == IF item[id].repeat = TIMER_REPEAT_TIMER THEN item[id].repeat
                                                              ELSE item[id].repeat - 1
                 next == [elapse |-> item[id].elapse, left |-> item[id].elapse, repeat |-> left]
      <4>1. Minus(item[id].repeat, 1) = item[id].repeat - 1
        BY <3>1 DEF Minus
      <4>2. id \in active' /\ item'[id] = next
        BY <2>1, <3>1, <3>3, <3>6, <4>1 DEF Exhausted, Scanned, Item
      <4>3. TimeToGo'[id] = [item'[id] EXCEPT !.left = item'[id].left - 0]
        BY <2>1, <3>1, <4>2 DEF TimeToGo
      <4>4. TimeToGo'[id] = next
        <5>1. next.left = item[id].elapse /\ [next EXCEPT !.left = item[id].elapse] = next
          OBVIOUS
        <5>2. item[id].elapse - 0 = item[id].elapse
          BY <3>1
        <5> HIDE DEF next
        <5> QED
          BY <4>2, <4>3, <5>1, <5>2
      <4>5. Countdowns!Counted(TimeToGo[id]) = next
        BY <3>1, <3>2, <3>6
           DEF Countdowns!Counted, Countdowns!NoTimer, Countdowns!Space, NoItem
      <4> QED
        BY <3>2, <4>4, <4>5
    <3> QED
      BY <3>4, <3>5, <3>6
  <2>3. fired' = {id \in Ids : TimeToGo[id] # NoItem /\ TimeToGo[id].left = 25}
    <3>1. Due(pass) \subseteq active
      BY DEF Due
    <3> QED
      BY <2>1, <2>2, <3>1, TimerOf
  <2> QED
    BY <1>3, <2>1, <2>2, <2>3, TimerOf
<1> QED
  BY <1>4, <1>5, <1>6 DEF OnTimerThreadSink

LEMMA InitRefines ==
  ASSUME Init
  PROVE  Countdowns!Init
  BY DEF Init, Countdowns!Init, Countdowns!NoTimer, NoItem, TimeToGo, ThreadRuns

LEMMA StepRefines ==
  ASSUME ModestElapses, IInv, IInv', [Next]_vars
  PROVE  [Countdowns!Next]_(Countdowns!vars)
<1>1. ASSUME NEW id \in Ids, AnySetTimer(id) PROVE Countdowns!Next
  <2>1. PICK time \in Elapses, repeat \in Repeats : SetTimer(id, time, repeat)
    BY <1>1 DEF AnySetTimer
  <2>2. Countdowns!Set(id, time, repeat)
    BY <2>1, SetTimerRefines
  <2> QED
    BY <2>2 DEF Countdowns!Next
<1>2. ASSUME NEW id \in Ids, KillTimer(id) PROVE Countdowns!Next
  BY <1>2, KillTimerRefines DEF Countdowns!Next
<1>3. CASE KillAllTimer \/ StopServiceDone
  <2>1. ClearTimers /\ ThreadRuns' = ThreadRuns
    BY <1>3 DEF KillAllTimer, StopServiceDone, ThreadRuns
  <2> QED
    BY <2>1, ClearedRefines DEF Countdowns!Next
<1>4. CASE OnTimerThreadSink
  BY <1>4, TickRefines DEF Countdowns!Next
<1>5. CASE StartService
  <2>1. active = {} /\ active' = {} /\ item' = item /\ fired' = {}
        /\ ThreadRuns' = ~ThreadRuns
    BY <1>5 DEF StartService, IInv, ThreadRuns
  <2>2. TimeToGo' = TimeToGo
    BY <2>1 DEF TimeToGo
  <2> QED
    BY <2>1, <2>2 DEF Countdowns!Switch, Countdowns!Next
<1>6. CASE StopService
  BY <1>6 DEF StopService, TimeToGo, ThreadRuns, Countdowns!Quiet, Countdowns!Next
<1>7. CASE ThreadConcluded
  BY <1>7 DEF ThreadConcluded, TimeToGo, ThreadRuns, Countdowns!Switch, Countdowns!Next
<1>8. CASE UNCHANGED vars
  BY <1>8 DEF vars, TimeToGo, ThreadRuns, Countdowns!vars
<1> QED
  BY <1>1, <1>2, <1>3, <1>4, <1>5, <1>6, <1>7, <1>8 DEF Next

(* The engine implements independent countdowns: a timer's event is posted *)
(* in the tick in which its own time is up, and in no other, although the  *)
(* engine looks at its list only when its single countdown has ended.      *)
THEOREM ImplementsTimers == ASSUME ModestElapses PROVE Spec => CountsEachTimer
<1>1. Init => Countdowns!Init
  BY InitRefines
<1>2. IInv /\ IInv' /\ [Next]_vars => [Countdowns!Next]_(Countdowns!vars)
  BY StepRefines
<1> QED
  BY <1>1, <1>2, InductiveInvariant, PTL DEF Spec, CountsEachTimer, Countdowns!Spec
=============================================================================
