---------------------------- MODULE Connections -----------------------------
(***************************************************************************)
(* What the socket engine promises of its slots.  A slot is taken for one  *)
(* connection, which opens, has at most one receive and one send           *)
(* outstanding, sends only packets addressed to itself and only after it   *)
(* has been heard from, closes, and gives the slot back when its last      *)
(* operation is over; the attemper hears of its start and of its end.      *)
(***************************************************************************)
EXTENDS Naturals, Sequences

CONSTANT Items

VARIABLES
  stage,  (* of the service: starting, serving, ending, over *)
  slot    (* the connection of each slot, or why it has none *)

vars == <<stage, slot>>

Serving == stage = "serving"

Vacant(use, round, heard) ==
  [use |-> use, round |-> round, ready |-> FALSE, ops |-> {}, packets |-> << >>,
   heard |-> heard]

Init ==
  /\ stage = "starting"
  /\ slot = [i \in Items |-> Vacant("unused", 0, "silent")]

Becomes(i, s) == slot' = [slot EXCEPT ![i] = s] /\ UNCHANGED stage

(* A connection ends: in service the slot is free at once and the attemper *)
(* has heard of it; else the slot stays aside until the service is over.   *)
Ended(s) ==
  IF Serving THEN Vacant("free", s.round + 1, "silent")
             ELSE Vacant("aside", s.round + 1, s.heard)

(* No new operation begins; the connection ends with its last one.         *)
Shut(s) ==
  IF s.ops = {} THEN Ended(s) ELSE [s EXCEPT !.use = "closing", !.ready = FALSE]

-----------------------------------------------------------------------------
(* One slot is held at a time, and a new one is made when none is free.    *)
Take(i) ==
  /\ stage # "over"
  /\ \A j \in Items : slot[j].use # "held"
  /\ \/ slot[i].use = "free"
     \/ slot[i].use = "unused" /\ \A j \in Items : slot[j].use # "free"
  /\ Becomes(i, [slot[i] EXCEPT !.use = "held"])

Open(i) ==
  /\ slot[i].use = "held"
  /\ LET s == [slot[i] EXCEPT !.use = "open",
                              !.heard = IF Serving THEN "open" ELSE "unheard"]
     IN Becomes(i, [s EXCEPT !.ops = {"recv"}]) \/ Becomes(i, Shut(s))

Receive(i) ==
  /\ "recv" \in slot[i].ops
  /\ \/ slot[i].use = "open" /\ Becomes(i, [slot[i] EXCEPT !.ready = TRUE])
     \/ Becomes(i, Shut([slot[i] EXCEPT !.ops = @ \ {"recv"}]))

Send(i) ==
  /\ slot[i].use = "open" /\ slot[i].ready
  /\ Becomes(i, [slot[i] EXCEPT !.packets = Append(@, slot[i].round),
                                !.ops = @ \cup {"send"}])

(* The packet at the head was sent. *)
Sent(i) ==
  /\ "send" \in slot[i].ops
  /\ LET rest == Tail(slot[i].packets)
     IN \/ /\ slot[i].use = "open"
           /\ Becomes(i, [slot[i] EXCEPT !.packets = rest,
                            !.ops = IF rest = << >> THEN @ \ {"send"} ELSE @])
        \/ /\ slot[i].use = "closing" \/ rest # << >>
           /\ Becomes(i, Shut([slot[i] EXCEPT !.packets = << >>, !.ops = @ \ {"send"}]))

Close(i) == slot[i].use = "open" /\ Becomes(i, Shut(slot[i]))

(* A slot without a connection may skip a number. *)
Renumber(i) ==
  /\ slot[i].use \notin {"open", "closing"}
  /\ Becomes(i, [slot[i] EXCEPT !.round = @ + 1])

Start == stage = "starting" /\ stage' = "serving" /\ UNCHANGED slot

Stop == stage = "serving" /\ stage' = "ending" /\ UNCHANGED slot

(* All connections end, whatever operations they have. *)
Finish ==
  /\ stage = "ending" /\ stage' = "over"
  /\ \A i \in Items : slot[i].use # "held"
  /\ \E skipped \in [Items -> 1 .. 2] :
       slot' = [i \in Items |->
                  IF slot[i].use \in {"unused", "free"} THEN slot[i]
                  ELSE Vacant("free", slot[i].round + skipped[i], slot[i].heard)]

Next ==
  \/ \E i \in Items : Take(i) \/ Open(i) \/ Receive(i) \/ Send(i) \/ Sent(i)
                        \/ Close(i) \/ Renumber(i)
  \/ Start \/ Stop \/ Finish

Spec == Init /\ [][Next]_vars
=============================================================================
