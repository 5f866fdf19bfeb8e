----------------------------- MODULE TimerItems -----------------------------
(***************************************************************************)
(* The data of CTimerEngine: the timers callers may ask for, the items the *)
(* engine keeps them in, and the arithmetic of their DWORDs.               *)
(***************************************************************************)
EXTENDS Integers

CONSTANTS
  Ids,       (* timer numbers                                    *)
  Elapses,   (* the values of dwElapse                           *)
  Repeats,   (* the values of dwRepeat                           *)
  DwordSize  (* a DWORD counts modulo this (2^32 in the program) *)

ASSUME ConstantsAssumption ==
  /\ DwordSize \in Nat
  /\ DwordSize > 50
  /\ Elapses \subseteq 0 .. DwordSize - 1
  /\ Repeats \subseteq 0 .. DwordSize - 1

TIMER_SPACE        == 25             (* m_dwTimerSpace *)
NO_TIME_LEFT       == DwordSize - 1
TIMER_REPEAT_TIMER == DwordSize - 1

Dword == 0 .. DwordSize - 1

(* Sums and differences of DWORDs. *)
Plus(a, b)  == IF a + b < DwordSize THEN a + b ELSE a + b - DwordSize
Minus(a, b) == IF a >= b THEN a - b ELSE a - b + DwordSize

(* dwElapse as SetTimer rounds it up. *)
Rounded(elapse) == (Plus(elapse, TIMER_SPACE - 1) \div TIMER_SPACE) * TIMER_SPACE

(* An item of the free list: every field is written before it is read. *)
NoItem == [elapse |-> 0, left |-> 0, repeat |-> 0]

Item == [elapse : Dword, left : Dword, repeat : Dword \ {0}]

(* What callers ask for: never zero, and less than half of what a DWORD    *)
(* can count.                                                              *)
ModestElapses ==
  \A time \in Elapses : 0 < time /\ 2 * (time + TIMER_SPACE) < NO_TIME_LEFT
=============================================================================
