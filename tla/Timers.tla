------------------------------- MODULE Timers -------------------------------
(***************************************************************************)
(* What CTimerEngine promises: every timer counts down on its own.  A tick *)
(* of 25 milliseconds takes 25 off each timer; the ones that reach zero    *)
(* are notified in that tick and no other, and start again as long as they *)
(* have repetitions left.                                                  *)
(***************************************************************************)
EXTENDS Integers

CONSTANTS
  Ids,      (* timer numbers                                    *)
  Elapses,  (* the times callers ask for, in milliseconds       *)
  Repeats,  (* the numbers of repetitions callers ask for       *)
  Forever   (* the number that stands for "until it is killed"  *)

VARIABLES
  ticking,  (* does the clock run?                              *)
  timer,    (* each timer's time left, period and repetitions   *)
  fired     (* the timers notified by the last step             *)

vars == <<ticking, timer, fired>>

Space == 25

NoTimer == [left |-> 0, elapse |-> 0, repeat |-> 0]

RoundUp(time) == ((time + Space - 1) \div Space) * Space

Init ==
  /\ ticking = FALSE
  /\ timer = [id \in Ids |-> NoTimer]
  /\ fired = {}

Set(id, time, repeat) ==
  /\ timer' = [timer EXCEPT ![id] = [left |-> RoundUp(time), elapse |-> RoundUp(time),
                                     repeat |-> repeat]]
  /\ fired' = {}
  /\ UNCHANGED ticking

Kill(id) ==
  /\ timer' = [timer EXCEPT ![id] = NoTimer]
  /\ fired' = {}
  /\ UNCHANGED ticking

KillAll ==
  /\ timer' = [id \in Ids |-> NoTimer]
  /\ fired' = {}
  /\ UNCHANGED ticking

(* A timer after one tick. *)
Counted(t) ==
  IF t = NoTimer THEN t
  ELSE IF t.left # Space THEN [t EXCEPT !.left = @ - Space]
  ELSE IF t.repeat = 1 THEN NoTimer
  ELSE [left |-> t.elapse, elapse |-> t.elapse,
        repeat |-> IF t.repeat = Forever THEN Forever ELSE t.repeat - 1]

Tick ==
  /\ ticking
  /\ timer' = [id \in Ids |-> Counted(timer[id])]
  /\ fired' = {id \in Ids : timer[id] # NoTimer /\ timer[id].left = Space}
  /\ UNCHANGED ticking

(* The clock starts or stops; timers keep what they have left. *)
Switch ==
  /\ ticking' = ~ticking
  /\ fired' = {}
  /\ UNCHANGED timer

(* A step that is none of the timers' business. *)
Quiet ==
  /\ fired' = {}
  /\ UNCHANGED <<ticking, timer>>

Next ==
  \/ \E id \in Ids, time \in Elapses, repeat \in Repeats : Set(id, time, repeat)
  \/ \E id \in Ids : Kill(id)
  \/ KillAll
  \/ Tick
  \/ Switch
  \/ Quiet

Spec == Init /\ [][Next]_vars
=============================================================================
