---------------------------- MODULE EventChannel ----------------------------
(***************************************************************************)
(* What CQueueService promises the engines: entries are handled one at a   *)
(* time, in the order in which they were added and each at most once, only *)
(* between the start and the end of the service; none is dropped while it  *)
(* is open.  Entries are numbered as they are added.                       *)
(***************************************************************************)
EXTENDS Naturals, Sequences

VARIABLES
  open,     (* is the service started and not yet stopped? *)
  added,    (* the number of entries added so far          *)
  pending,  (* those still to be handled                   *)
  handled   (* the number of the last one handled          *)

vars == <<open, added, pending, handled>>

Init ==
  /\ open = FALSE
  /\ added = 0
  /\ pending = << >>
  /\ handled = 0

Add ==
  /\ added' = added + 1
  /\ pending' = Append(pending, added + 1)
  /\ UNCHANGED <<open, handled>>

Handle ==
  /\ open
  /\ pending # << >>
  /\ handled' = Head(pending)
  /\ pending' = Tail(pending)
  /\ UNCHANGED <<open, added>>

Switch ==
  /\ open' = ~open
  /\ UNCHANGED <<added, pending, handled>>

DropAll ==
  /\ ~open
  /\ pending' = << >>
  /\ UNCHANGED <<open, added, handled>>

Next == Add \/ Handle \/ Switch \/ DropAll

Spec == Init /\ [][Next]_vars
=============================================================================
