----------------------------- MODULE PiggyServer -----------------------------
(***************************************************************************)
(* CIOCPModel (IOCPModel.cpp): worker threads that take completions from a *)
(* port, accept clients, receive their data and forward it to one client,  *)
(* the receiver, and Stop.                                                 *)
(*                                                                         *)
(* A message that a worker shows is an item of the main window's list, so  *)
(* the worker waits for the window's thread; that thread waits for the     *)
(* workers in Stop.  Windows is outside of the code: any operation may     *)
(* fail or complete with an error, the port is first in first out, and a   *)
(* critical section may be entered again by the thread that is in it.      *)
(*                                                                         *)
(* One Start, that succeeds, and one Stop.                                 *)
(***************************************************************************)
EXTENDS Naturals, Sequences, FiniteSets

CONSTANTS
  Workers,    (* m_phWorkerThreads                                   *)
  Clients,    (* clients; each connects once at most                 *)
  MaxAccepts, (* MAX_POST_ACCEPT                                     *)
  MaxSends,   (* bound: sends under way                              *)
  None        (* no client, no thread                                *)

ASSUME PiggyAssumption ==
  /\ None \notin Workers \cup Clients
  /\ IsFiniteSet(Workers) /\ IsFiniteSet(Clients)
  /\ MaxAccepts \in Nat
  /\ MaxSends \in Nat

VARIABLES
  pc,        (* where each worker is                                        *)
  item,      (* the completion each worker handles                          *)
  port,      (* m_hIOCompletionPort                                         *)
  accepts,   (* accepts posted and not completed                            *)
  context,   (* the PER_SOCKET_CONTEXT of a client: none, live or freed     *)
  listed,    (* m_arrayClientContext                                        *)
  receiving, (* clients a receive is posted for                             *)
  sends,     (* sends posted and not completed                              *)
  receiver,  (* m_pRecvContext                                              *)
  lock,      (* the thread in m_csLock                                      *)
  stop,      (* Stop: not called, waiting for the workers, returned         *)
  left,      (* _PostSend was left inside m_csLock                          *)
  failed,    (* failures that cost an accept                                *)
  released   (* _DoSendComplete has released the receiver's context         *)

sockets == <<accepts, context, listed, receiving, sends, receiver>>
history == <<left, failed, released>>
vars == <<pc, item, port, sockets, lock, stop, history>>

Completion(op, c) == [op |-> op, client |-> c]
Exit == Completion("exit", None)

Completions == [op : {"accept", "receive", "send", "exit"}, client : Clients \cup {None}]

(* A worker has an accept in hand until it posts it again. *)
AcceptSteps == {"associated", "register", "add", "repost"}

TypeOK ==
  /\ pc \in [Workers -> {"loop", "port", "taken", "enter", "sending", "receive", "ended"}
                          \cup AcceptSteps]
  /\ item \in [Workers -> Completions]
  /\ port \in Seq(Completions)
  /\ accepts \in Nat
  /\ context \in [Clients -> {"none", "live", "freed"}]
  /\ listed \subseteq Clients
  /\ receiving \subseteq Clients
  /\ sends \in 0 .. MaxSends
  /\ receiver \in Clients \cup {None}
  /\ lock \in Workers \cup {None}
  /\ stop \in {"run", "waiting", "returned"}
  /\ left \in BOOLEAN
  /\ failed \in Nat
  /\ released \in BOOLEAN

(* Start has returned. *)
Init ==
  /\ pc = [w \in Workers |-> "loop"]
  /\ item = [w \in Workers |-> Exit]
  /\ port = << >>
  /\ accepts = MaxAccepts
  /\ context = [c \in Clients |-> "none"]
  /\ listed = {}
  /\ receiving = {}
  /\ sends = 0
  /\ receiver = None
  /\ lock = None
  /\ stop = "run"
  /\ left = FALSE
  /\ failed = 0
  /\ released = FALSE

-----------------------------------------------------------------------------
(* Operations complete. *)

Arrived(c) ==
  \/ context[c] # "none"
  \/ Completion("accept", c) \in {port[i] : i \in DOMAIN port}
  \/ \E w \in Workers : pc[w] = "taken" /\ item[w] = Completion("accept", c)

Connect(c) ==
  /\ accepts > 0
  /\ ~Arrived(c)
  /\ accepts' = accepts - 1
  /\ port' = Append(port, Completion("accept", c))
  /\ UNCHANGED <<pc, item, context, listed, receiving, sends, receiver, lock, stop, history>>

ReceiveCompletes(c) ==
  /\ c \in receiving
  /\ receiving' = receiving \ {c}
  /\ port' = Append(port, Completion("receive", c))
  /\ UNCHANGED <<pc, item, accepts, context, listed, sends, receiver, lock, stop, history>>

SendCompletes ==
  /\ sends > 0
  /\ sends' = sends - 1
  /\ port' = Append(port, Completion("send", receiver))
  /\ UNCHANGED <<pc, item, accepts, context, listed, receiving, receiver, lock, stop, history>>

-----------------------------------------------------------------------------
(* The workers. *)

Go(w, step) == pc' = [pc EXCEPT ![w] = step]

(* The window's thread is there to show the message. *)
Shows == stop # "waiting"

(* The head of the loop looks at m_hShutdownEvent; what was handled makes  *)
(* no difference any more.                                                 *)
NextCompletion(w) ==
  /\ pc[w] = "loop"
  /\ Go(w, IF stop = "run" THEN "port" ELSE "ended")
  /\ item' = [item EXCEPT ![w] = Exit]
  /\ UNCHANGED <<port, sockets, lock, stop, history>>

GetCompletion(w) ==
  /\ pc[w] = "port"
  /\ port # << >>
  /\ item' = [item EXCEPT ![w] = Head(port)]
  /\ port' = Tail(port)
  /\ Go(w, IF Head(port) = Exit THEN "ended" ELSE "taken")
  /\ UNCHANGED <<sockets, lock, stop, history>>

Taken(w, op) == pc[w] = "taken" /\ item[w].op = op

(* Fault: the context is released before it is looked for in the list. *)
RemoveContextUnlisted(c) ==
  /\ listed' = listed \ {c}
  /\ context' = [context EXCEPT ![c] = "freed"]

RemoveContext(c) ==
  /\ listed' = listed \ {c}
  /\ context' = IF c \in listed THEN [context EXCEPT ![c] = "freed"] ELSE context

AcceptLost(w) == failed' = IF item[w].op = "accept" THEN failed + 1 ELSE failed

(* The client is gone: its context is removed.  That of an accept or of a  *)
(* send is not in the list.  A time-out while the client is still there    *)
(* removes nothing; nothing is posted again in any case.                   *)
Disconnected(w) ==
  /\ pc[w] = "taken"
  /\ Shows
  /\ \/ item[w].op = "receive" /\ RemoveContext(item[w].client)
     \/ UNCHANGED <<context, listed>>
  /\ AcceptLost(w)
  /\ Go(w, "loop")
  /\ UNCHANGED <<item, port, accepts, receiving, sends, receiver, lock, stop, left, released>>

(* Any other error ends the thread. *)
HandleErrorFails(w) ==
  /\ pc[w] = "taken"
  /\ Shows
  /\ AcceptLost(w)
  /\ Go(w, "ended")
  /\ UNCHANGED <<item, port, sockets, lock, stop, left, released>>

(* _DoAccept: a context for the client, associated with the port.  The     *)
(* client's first data tell whether it is to be the receiver.              *)
DoAccept(w) ==
  /\ Taken(w, "accept")
  /\ Shows
  /\ \/ /\ context' = [context EXCEPT ![item[w].client] = "live"]
        /\ \E step \in {"associated", "register"} : Go(w, step)
        /\ UNCHANGED failed
     \/ /\ context' = [context EXCEPT ![item[w].client] = "freed"]
        /\ Go(w, "loop")
        /\ failed' = failed + 1
  /\ UNCHANGED <<item, port, accepts, listed, receiving, sends, receiver, lock, stop, left,
                 released>>

(* The receive is posted first; when that fails the function is left. *)
PostFirstReceive(w) ==
  /\ pc[w] = "associated"
  /\ \/ /\ receiving' = receiving \cup {item[w].client}
        /\ Go(w, "add")
        /\ UNCHANGED failed
     \/ /\ Shows
        /\ Go(w, "loop")
        /\ failed' = failed + 1
        /\ UNCHANGED receiving
  /\ UNCHANGED <<item, port, accepts, context, listed, sends, receiver, lock, stop, left,
                 released>>

(* The list has its own critical section, which every function leaves. *)
AddToContextList(w) ==
  /\ pc[w] = "add"
  /\ listed' = listed \cup {item[w].client}
  /\ Go(w, "repost")
  /\ UNCHANGED <<item, port, accepts, context, receiving, sends, receiver, lock, stop, history>>

(* The client becomes the receiver, unless there is one.  Fault: when there*)
(* is one the function is left.                                            *)
RegisterReceiverOnce(w) ==
  /\ pc[w] = "register"
  /\ lock \in {None, w}
  /\ receiver' = IF receiver = None THEN item[w].client ELSE receiver
  /\ Go(w, IF receiver = None THEN "repost" ELSE "loop")
  /\ UNCHANGED <<item, port, accepts, context, listed, receiving, sends, lock, stop, history>>

RegisterReceiver(w) ==
  /\ pc[w] = "register"
  /\ lock \in {None, w}
  /\ receiver' = IF receiver = None THEN item[w].client ELSE receiver
  /\ Go(w, "repost")
  /\ UNCHANGED <<item, port, accepts, context, listed, receiving, sends, lock, stop, history>>

PostAccept(w) ==
  /\ pc[w] = "repost"
  /\ \/ accepts' = accepts + 1 /\ UNCHANGED failed
     \/ Shows /\ failed' = failed + 1 /\ UNCHANGED accepts
  /\ Go(w, "loop")
  /\ UNCHANGED <<item, port, context, listed, receiving, sends, receiver, lock, stop, left,
                 released>>

(* _DoRecv shows the data, forwards it with _PostSend and receives again. *)
DoReceive(w) ==
  /\ Taken(w, "receive")
  /\ Shows
  /\ Go(w, "enter")
  /\ UNCHANGED <<item, port, sockets, lock, stop, history>>

EnterSend(w) ==
  /\ pc[w] = "enter"
  /\ lock \in {None, w}
  /\ lock' = w
  /\ Go(w, "sending")
  /\ UNCHANGED <<item, port, sockets, stop, history>>

(* No receiver, or select or WSASend fails: the function is left early. *)
PostSendFails(w) ==
  /\ pc[w] = "sending"
  /\ Shows
  /\ left' = TRUE
  /\ Go(w, "receive")
  /\ UNCHANGED <<item, port, sockets, lock, stop, failed, released>>

(* Fault: the last statement but one is missing. *)
PostSendStays(w) ==
  /\ pc[w] = "sending"
  /\ receiver # None
  /\ sends' \in {sends, sends + 1} \cap (sends .. MaxSends)
  /\ Go(w, "receive")
  /\ UNCHANGED <<item, port, accepts, context, listed, receiving, receiver, lock, stop, history>>

(* A thread that was in the critical section already stays in it; a send   *)
(* beyond the bound is not followed.                                       *)
PostSend(w) ==
  /\ pc[w] = "sending"
  /\ receiver # None
  /\ sends' \in {sends, sends + 1} \cap (sends .. MaxSends)
  /\ lock' = IF left THEN lock ELSE None
  /\ Go(w, "receive")
  /\ UNCHANGED <<item, port, accepts, context, listed, receiving, receiver, stop, history>>

(* That the receive was not posted is not looked at. *)
PostReceive(w) ==
  /\ pc[w] = "receive"
  /\ \/ receiving' = receiving \cup {item[w].client}
     \/ Shows /\ UNCHANGED receiving
  /\ Go(w, "loop")
  /\ UNCHANGED <<item, port, accepts, context, listed, sends, receiver, lock, stop, history>>

(* A select that fails releases the context, and m_pRecvContext remains. *)
DoSendComplete(w) ==
  /\ Taken(w, "send")
  /\ Shows
  /\ \/ UNCHANGED <<context, released>>
     \/ context' = [context EXCEPT ![item[w].client] = "freed"] /\ released' = TRUE
  /\ Go(w, "loop")
  /\ UNCHANGED <<item, port, accepts, listed, receiving, sends, receiver, lock, stop, left,
                 failed>>

-----------------------------------------------------------------------------
(* Stop, in the window's thread. *)

Exits(n) == [i \in 1 .. n |-> Exit]

(* Fault: one completion too few. *)
StopOneShort ==
  /\ stop = "run"
  /\ stop' = "waiting"
  /\ port' = port \o Exits(Cardinality(Workers) - 1)
  /\ UNCHANGED <<pc, item, sockets, lock, history>>

Stop ==
  /\ stop = "run"
  /\ stop' = "waiting"
  /\ port' = port \o Exits(Cardinality(Workers))
  /\ UNCHANGED <<pc, item, sockets, lock, history>>

(* _ClearContextList and _DeInitialize. *)
StopReturns ==
  /\ stop = "waiting"
  /\ \A w \in Workers : pc[w] = "ended"
  /\ stop' = "returned"
  /\ port' = << >>
  /\ accepts' = 0
  /\ context' = [c \in Clients |-> IF c \in listed \cup {receiver} THEN "freed"
                                   ELSE context[c]]
  /\ listed' = {}
  /\ receiving' = {}
  /\ sends' = 0
  /\ receiver' = None
  /\ UNCHANGED <<pc, item, lock, history>>

-----------------------------------------------------------------------------
HandlesError(w) == Disconnected(w) \/ HandleErrorFails(w)

Handles(w) ==
  \/ DoAccept(w) \/ PostFirstReceive(w) \/ AddToContextList(w)
  \/ RegisterReceiver(w) \/ PostAccept(w)
  \/ DoReceive(w) \/ PostSendFails(w) \/ PostSend(w) \/ PostReceive(w)
  \/ DoSendComplete(w)

Worker(w) == NextCompletion(w) \/ GetCompletion(w) \/ Handles(w) \/ EnterSend(w)

Next ==
  \/ \E c \in Clients : Connect(c) \/ ReceiveCompletes(c)
  \/ SendCompletes
  \/ \E w \in Workers : Worker(w) \/ HandlesError(w)
  \/ Stop \/ StopReturns

Spec == Init /\ [][Next]_vars

-----------------------------------------------------------------------------
(* Properties. *)

(* In the middle of a completion. *)
Busy(w) == pc[w] \notin {"loop", "port", "ended"}

(* Where a context is or will be used. *)
Uses(c) ==
  \/ c \in listed \cup receiving
  \/ Completion("receive", c) \in {port[i] : i \in DOMAIN port}
  \/ \E w \in Workers : Busy(w) /\ item[w] = Completion("receive", c)
  \/ \E w \in Workers : pc[w] \in {"associated", "register", "add"} /\ item[w].client = c

(* A client's data can be handled, and its connection ended, by another    *)
(* worker before the one that accepted it has listed its context: still no *)
(* context is used, listed or deleted again after it was deleted.  The     *)
(* receiver's is the exception, once _DoSendComplete has released it.      *)
ContextsInUse ==
  /\ \A c \in Clients : Uses(c) => context[c] = "live"
  /\ receiver # None /\ ~released => context[receiver] = "live"

HasAccept(w) == Taken(w, "accept") \/ pc[w] \in AcceptSteps

(* Clients are accepted as long as fewer than MAX_POST_ACCEPT accepts were *)
(* lost: each failure costs one, a client that is gone before it was       *)
(* accepted costs one, and nothing else does.                              *)
AcceptsKept ==
  stop # "returned" =>
    MaxAccepts =
      accepts + failed + Cardinality({w \in Workers : HasAccept(w)})
        + Cardinality({i \in DOMAIN port : port[i].op = "accept"})

(* Fairness: threads run, select returns, and a critical section that is   *)
(* left over and over again is entered by each thread that waits for it.   *)
Fairness ==
  /\ \A w \in Workers : WF_vars(Worker(w)) /\ SF_vars(EnterSend(w) \/ RegisterReceiver(w))
  /\ WF_vars(StopReturns)

FairSpec == Spec /\ Fairness

(* A worker comes to the end of every completion it takes: to the head of  *)
(* its loop, or, after an error that HandleError does not know, out of the *)
(* loop.  ("The loop handles requests until it is told to shut down", says *)
(* IOCPModel.cpp:67, which does not hold for such an error.)  Only at the  *)
(* entry of m_csLock may it stay, when _PostSend was left inside by another*)
(* thread, or anywhere when the window's thread waits in Stop.             *)
LockedOut(w) == left /\ pc[w] \in {"enter", "register"} /\ lock \notin {None, w}

WorkersReturn ==
  \A w \in Workers :
    Busy(w) ~> pc[w] \in {"loop", "ended"} \/ LockedOut(w) \/ stop # "run"

(* Stop returns when all workers are at the port and it has nothing for    *)
(* them but the exit completions.                                          *)
StopsWhenQuiet ==
  (stop = "waiting" /\ (\A w \in Workers : ~Busy(w))
                    /\ {port[i] : i \in DOMAIN port} \subseteq {Exit})
    ~> stop = "returned"
=============================================================================
