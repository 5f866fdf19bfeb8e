---------------------------- MODULE SocketEngine ----------------------------
(***************************************************************************)
(* CTCPSocketEngine with its CServerSocketItem slots (SocketEngine.cpp):   *)
(* the accept thread, the completion-port worker threads, the thread of    *)
(* the send queue, the detect thread's requests, the calls other engines   *)
(* make, the start and stop sequences, and the part of the Windows kernel  *)
(* the code relies on: overlapped operations and the completion port.      *)
(*                                                                         *)
(* A step is one critical section of a slot's lock (CServerSocketItem::    *)
(* m_CriticalSection).  Sections of the engine's lock are nested in it, or *)
(* stand alone.  What a thread keeps in its locals between two sections is *)
(* a variable here: the slot the accept thread took, the worker's dequeued *)
(* completion, the copied list and the time stamp of the detect pass.      *)
(*                                                                         *)
(* Data left out: addresses, buffers, keys, the overlapped structures of   *)
(* the free list.  m_dwRecvTickCount is kept as "younger than the break    *)
(* limit or not", m_dwRecvPacketCount as "zero or not", m_bCloseIng not at *)
(* all: it is never set, ShutDownSocket returns before the assignment.     *)
(***************************************************************************)
EXTENDS Naturals, Sequences

CONSTANTS
  Items,       (* the slots that m_wMaxSocketItem allows to create          *)
  NWorkers,    (* read/write threads: the number of processors              *)
  OtherErrors, (* may an operation fail with an error that is not           *)
               (* ERROR_NETNAME_DELETED?                                    *)
  MaxRound,    (* bound: no slot is attached beyond this round              *)
  MaxQueue,    (* bound: requests in the send queue                         *)
  MaxSends     (* bound: no request enters while a slot has so many packets *)

ASSUME ConstantsAssumption ==
  /\ NWorkers \in Nat \ {0}
  /\ OtherErrors \in BOOLEAN
  /\ MaxRound \in Nat
  /\ MaxQueue \in Nat
  /\ MaxSends \in Nat

VARIABLES
  phase,       (* progress of StartService and StopService                  *)
  item,        (* the fields of each CServerSocketItem                      *)
  free,        (* m_FreeSocketItem                                          *)
  active,      (* m_ActiveSocketItem; the storage array is both together    *)
  accepting,   (* the slot the accept thread holds before Attach, if any    *)
  idleWorkers, (* worker threads waiting on the completion port             *)
  op,          (* the overlapped operation of each slot and direction       *)
  sendQueue,   (* entries of m_SendQueueService                             *)
  sender,      (* what the send queue's thread is doing                     *)
  temp,        (* m_TempSocketItem, the slots it has not visited yet        *)
  probe,       (* its locals of a detect step: slot and "tick is old"       *)
  told         (* history: what the attemper was told of each slot          *)

vars == <<phase, item, free, active, accepting, idleWorkers, op, sendQueue,
          sender, temp, probe, told>>

pool    == <<free, active>>
threads == <<accepting, idleWorkers>>
queue   == <<sendQueue, sender, temp, probe>>

Kinds  == {"recv", "send"}
Phases == {"starting", "running", "stopAccept", "stopSender", "stopWorkers", "stopped"}

(* One overlapped operation: issued, completed (or failed with an error    *)
(* the workers do not expect), taken by a worker, lost with a worker that  *)
(* left; "clash": the structure was used again before it completed.        *)
OpStates == {"none", "issued", "completed", "failed", "taken", "lost", "clash"}

ToldStates == {"silent", "open", "unheard", "broken"}

ItemState ==
  [hSocket : BOOLEAN, wRountID : Nat, bNotify : BOOLEAN, bRecvIng : BOOLEAN,
   bAllowBatch : BOOLEAN, ready : BOOLEAN, fresh : BOOLEAN, sends : Seq(Nat)]

(* Entries of the send queue; the last kind name no connection. *)
Request == [type : {"send", "safeClose", "allowBatch"}, i : Items, round : Nat]
             \cup [type : {"sendAll", "detect", "quit"}]

TypeOK ==
  /\ phase \in Phases
  /\ item \in [Items -> ItemState]
  /\ free \subseteq Items
  /\ active \subseteq Items
  /\ accepting \subseteq Items
  /\ idleWorkers \in Nat
  /\ op \in [Items \X Kinds -> OpStates]
  /\ sendQueue \in Seq(Request)
  /\ sender \in {"idle", "batch", "detect", "stopped"}
  /\ temp \subseteq Items
  /\ probe \subseteq Items \X BOOLEAN
  /\ told \in [Items -> ToldStates]

bService == phase = "running"

NewItem(round) ==
  [hSocket |-> FALSE, wRountID |-> round, bNotify |-> TRUE, bRecvIng |-> FALSE,
   bAllowBatch |-> FALSE, ready |-> FALSE, fresh |-> FALSE, sends |-> << >>]

(* StartService up to the running threads; the service flag is not set yet. *)
Init ==
  /\ phase = "starting"
  /\ item = [i \in Items |-> NewItem(0)]
  /\ free = {}
  /\ active = {}
  /\ accepting = {}
  /\ idleWorkers = NWorkers
  /\ op = [c \in Items \X Kinds |-> "none"]
  /\ sendQueue = << >>
  /\ sender = "idle"
  /\ temp = {}
  /\ probe = {}
  /\ told = [i \in Items |-> "silent"]

-----------------------------------------------------------------------------
(* What the attemper is told.  The posting functions do nothing while the  *)
(* service flag is down.  A read or a close of a slot whose connection was *)
(* not announced, or a second accept, breaks the protocol; a connection    *)
(* whose accept event was suppressed stays "unheard".                      *)

TellAccept(t) ==
  IF t # "silent" THEN "broken" ELSE IF bService THEN "open" ELSE "unheard"

TellRead(t) == IF bService /\ t = "silent" THEN "broken" ELSE t

TellClose(t) ==
  IF ~bService THEN t ELSE IF t = "silent" THEN "broken" ELSE "silent"

-----------------------------------------------------------------------------
(* The functions of CServerSocketItem.  Each takes the slot i, its state s *)
(* and the told history t as earlier calls of the same section left them.  *)

Issue(o, c) == [o EXCEPT ![c] = IF @ = "none" THEN "issued" ELSE "clash"]

ResetSocketData(s) == NewItem(s.wRountID + 1)

(* Faults a maintainer could introduce, for the checks of the properties:  *)
(* the close event leaves the slot active, or leaves it in both lists.     *)
CloseEventKeepsSlot(i, t) ==
  told' = [told EXCEPT ![i] = TellClose(t)] /\ UNCHANGED pool

CloseEventFreesCopy(i, t) ==
  /\ told' = [told EXCEPT ![i] = TellClose(t)]
  /\ free' = free \cup {i}
  /\ UNCHANGED active

(* OnSocketCloseEvent: post the event and free the slot, while in service. *)
OnSocketCloseEvent(i, t) ==
  /\ told' = [told EXCEPT ![i] = TellClose(t)]
  /\ IF bService /\ i \in active
     THEN /\ active' = active \ {i}
          /\ free' = free \cup {i}
     ELSE UNCHANGED pool

(* Fault: the notify flag is not looked at. *)
CloseCompletedUnflagged(i, s, t) ==
  /\ item' = [item EXCEPT ![i] = ResetSocketData(s)]
  /\ OnSocketCloseEvent(i, t)

OnCloseCompleted(i, s, t) ==
  /\ item' = [item EXCEPT ![i] = ResetSocketData(s)]
  /\ IF s.bNotify
     THEN told' = [told EXCEPT ![i] = t] /\ UNCHANGED pool
     ELSE OnSocketCloseEvent(i, t)

(* Fault: only the receive is waited for. *)
CloseIgnoresSends(i, s, t) ==
  LET closed == [s EXCEPT !.hSocket = FALSE]
  IN IF ~s.bRecvIng THEN OnCloseCompleted(i, closed, t)
     ELSE /\ item' = [item EXCEPT ![i] = closed]
          /\ told' = [told EXCEPT ![i] = t]
          /\ UNCHANGED pool

(* CloseSocket for the round the slot is in. *)
CloseSocket(i, s, t) ==
  LET closed == [s EXCEPT !.hSocket = FALSE]
  IN IF ~s.bRecvIng /\ s.sends = << >>
     THEN OnCloseCompleted(i, closed, t)
     ELSE /\ item' = [item EXCEPT ![i] = closed]
          /\ told' = [told EXCEPT ![i] = t]
          /\ UNCHANGED pool

(* RecvData: post the next WSARecv, or close when that fails. *)
RecvData(i, s, t, o) ==
  \/ /\ item' = [item EXCEPT ![i] = [s EXCEPT !.bRecvIng = TRUE]]
     /\ op' = Issue(o, <<i, "recv">>)
     /\ told' = [told EXCEPT ![i] = t]
     /\ UNCHANGED pool
  \/ /\ op' = o
     /\ CloseSocket(i, [s EXCEPT !.bRecvIng = FALSE], t)

(* Faults: every packet goes to WSASend at once; the round is not compared.*)
SendAllAtOnce(i, round) ==
  IF round = item[i].wRountID /\ item[i].ready /\ item[i].hSocket
  THEN /\ item' = [item EXCEPT ![i].sends = Append(@, round)]
       /\ op' = Issue(op, <<i, "send">>)
  ELSE UNCHANGED <<item, op>>

SendToAnyRound(i, round) ==
  IF item[i].ready /\ item[i].hSocket
  THEN /\ item' = [item EXCEPT ![i].sends = Append(@, round)]
       /\ op' = IF item[i].sends = << >> THEN Issue(op, <<i, "send">>) ELSE op
  ELSE UNCHANGED <<item, op>>

(* SendData: queue the packet; the first one of the list goes to WSASend.  *)
(* When that fails, OnSendCompleted takes it off the list again.           *)
SendData(i, round) ==
  LET s == item[i]
  IN IF round = s.wRountID /\ s.ready /\ s.hSocket
     THEN \/ /\ item' = [item EXCEPT ![i].sends = Append(@, round)]
             /\ op' = IF s.sends = << >> THEN Issue(op, <<i, "send">>) ELSE op
          \/ s.sends = << >> /\ UNCHANGED <<item, op>>
     ELSE UNCHANGED <<item, op>>

(* Fault: a send that completes after the close does not retry the close. *)
SendCompletedStrands(i, o) ==
  LET rest == IF item[i].hSocket THEN Tail(item[i].sends) ELSE << >>
  IN /\ item' = [item EXCEPT ![i].sends = rest]
     /\ op' = IF rest # << >> THEN Issue(o, <<i, "send">>) ELSE o
     /\ UNCHANGED <<pool, told>>

OnSendCompleted(i, o) ==
  LET s    == [item[i] EXCEPT !.sends = Tail(@)]
      none == [s EXCEPT !.sends = << >>]
  IN CASE ~s.hSocket -> op' = o /\ CloseSocket(i, none, told[i])
       [] s.hSocket /\ s.sends # << >> ->
            \/ /\ item' = [item EXCEPT ![i] = s]
               /\ op' = Issue(o, <<i, "send">>)
               /\ UNCHANGED <<pool, told>>
            \/ op' = o /\ CloseSocket(i, none, told[i])
       [] OTHER ->
            /\ item' = [item EXCEPT ![i] = s]
            /\ op' = o
            /\ UNCHANGED <<pool, told>>

(* OnRecvCompleted.  Either recv() finds the connection gone, or it brings *)
(* bytes: "counted" when they complete a packet, "read" when one of these  *)
(* is for the attemper, "bad" when a malformed packet ends the loop.       *)
OnRecvCompleted(i, o) ==
  LET s == [item[i] EXCEPT !.bRecvIng = FALSE, !.fresh = TRUE]
  IN \/ op' = o /\ CloseSocket(i, s, told[i])
     \/ /\ s.hSocket
        /\ \E counted, read, bad \in BOOLEAN :
             /\ read => counted
             /\ LET r == [s EXCEPT !.ready = @ \/ counted]
                    t == IF read THEN TellRead(told[i]) ELSE told[i]
                IN IF bad THEN op' = o /\ CloseSocket(i, r, t)
                          ELSE RecvData(i, r, t, o)

-----------------------------------------------------------------------------
(* The accept thread.  WSAAccept returns and ActiveSocketItem moves a slot *)
(* to the active list under the engine's lock; Attach comes in a section   *)
(* of the slot's lock, later.  With no slot left the connection is closed  *)
(* and nothing changes.                                                    *)

Accept(i) ==
  /\ phase \in {"starting", "running", "stopAccept"}
  /\ accepting = {}
  /\ item[i].wRountID <= MaxRound
  /\ \/ i \in free
     \/ free = {} /\ i \notin active
  /\ free' = free \ {i}
  /\ active' = active \cup {i}
  /\ accepting' = {i}
  /\ UNCHANGED <<phase, item, idleWorkers, op, queue, told>>

Attach(i) ==
  /\ i \in accepting
  /\ accepting' = {}
  /\ RecvData(i, [item[i] EXCEPT !.bNotify = FALSE, !.bRecvIng = FALSE,
                                 !.hSocket = TRUE, !.fresh = TRUE],
              TellAccept(told[i]), op)
  /\ UNCHANGED <<phase, idleWorkers, queue>>

-----------------------------------------------------------------------------
(* The Windows kernel and the completion port. *)

Complete(i, k) ==
  /\ op[<<i, k>>] = "issued"
  /\ \E result \in IF OtherErrors THEN {"completed", "failed"} ELSE {"completed"} :
       op' = [op EXCEPT ![<<i, k>>] = result]
  /\ UNCHANGED <<phase, item, pool, threads, queue, told>>

(* GetQueuedCompletionStatus in a worker.  A completion that failed with   *)
(* an unexpected error ends the thread, and nobody handles the completion. *)
WorkerTake(i, k) ==
  /\ phase # "stopped"
  /\ idleWorkers > 0
  /\ idleWorkers' = idleWorkers - 1
  /\ \/ /\ op[<<i, k>>] = "completed"
        /\ op' = [op EXCEPT ![<<i, k>>] = "taken"]
     \/ /\ op[<<i, k>>] = "failed"
        /\ op' = [op EXCEPT ![<<i, k>>] = "lost"]
  /\ UNCHANGED <<phase, item, pool, accepting, queue, told>>

WorkerHandle(i, k) ==
  /\ op[<<i, k>>] = "taken"
  /\ idleWorkers' = idleWorkers + 1
  /\ LET o == [op EXCEPT ![<<i, k>>] = "none"]
     IN \/ k = "recv" /\ OnRecvCompleted(i, o)
        \/ k = "send" /\ OnSendCompleted(i, o)
  /\ UNCHANGED <<phase, accepting, queue>>

-----------------------------------------------------------------------------
(* Requests.  DetectSocket and the engine's interface post to the send     *)
(* queue; CloseSocket works on the slot at once.  Callers name connections *)
(* they were told of: a past round of the slot, or the announced one.      *)

Announced(i, round) ==
  \/ round < item[i].wRountID
  \/ round = item[i].wRountID /\ told[i] = "open" /\ ~item[i].bNotify

ForConnection(type, i, round) == [type |-> type, i |-> i, round |-> round]

AddToQueue(request) ==
  /\ phase # "stopped"
  /\ Len(sendQueue) < MaxQueue
  /\ \A j \in Items : Len(item[j].sends) < MaxSends
  /\ sendQueue' = Append(sendQueue, request)
  /\ UNCHANGED <<phase, item, pool, threads, op, sender, temp, probe, told>>

PostSendData(i, round) ==
  bService /\ Announced(i, round) /\ AddToQueue(ForConnection("send", i, round))

PostSendDataBatch == bService /\ AddToQueue([type |-> "sendAll"])

PostShutDownSocket(i, round) ==
  Announced(i, round) /\ AddToQueue(ForConnection("safeClose", i, round))

PostAllowBatchSend(i, round) ==
  Announced(i, round) /\ AddToQueue(ForConnection("allowBatch", i, round))

PostDetect ==
  /\ phase \in {"starting", "running", "stopAccept"}
  /\ \A j \in active : item[j].wRountID <= MaxRound
  /\ AddToQueue([type |-> "detect"])

EngineCloseSocket(i, round) ==
  /\ phase # "stopped"
  /\ Announced(i, round)
  /\ round = item[i].wRountID
  /\ CloseSocket(i, item[i], told[i])
  /\ UNCHANGED <<phase, threads, op, queue>>

-----------------------------------------------------------------------------
(* OnQueueServiceSink on the thread of the send queue, one request after   *)
(* the other.                                                              *)

TakeRequest ==
  /\ sender = "idle"
  /\ sendQueue # << >>
  /\ sendQueue' = Tail(sendQueue)

HandleSend ==
  /\ TakeRequest
  /\ Head(sendQueue).type = "send"
  /\ SendData(Head(sendQueue).i, Head(sendQueue).round)
  /\ UNCHANGED <<phase, pool, threads, sender, temp, probe, told>>

(* QUEUE_SAFE_CLOSE: ShutDownSocket returns at once. *)
HandleSafeClose ==
  /\ TakeRequest
  /\ Head(sendQueue).type = "safeClose"
  /\ UNCHANGED <<phase, item, pool, threads, op, sender, temp, probe, told>>

HandleAllowBatch ==
  /\ TakeRequest
  /\ Head(sendQueue).type = "allowBatch"
  /\ LET i == Head(sendQueue).i
     IN IF Head(sendQueue).round = item[i].wRountID /\ item[i].hSocket
        THEN \E cbAllow \in BOOLEAN :
               item' = [item EXCEPT ![i].bAllowBatch = cbAllow]
        ELSE UNCHANGED item
  /\ UNCHANGED <<phase, pool, threads, op, sender, temp, probe, told>>

(* INDEX_ALL_SOCKET and QUEUE_DETECT_SOCKET copy the active list under the *)
(* engine's lock and visit its slots without it.                           *)
CopyActive(type, state) ==
  /\ TakeRequest
  /\ Head(sendQueue).type = type
  /\ temp' = active
  /\ sender' = IF active = {} THEN "idle" ELSE state
  /\ UNCHANGED <<phase, item, pool, threads, op, probe, told>>

HandleSendAll == CopyActive("sendAll", "batch")
HandleDetect  == CopyActive("detect", "detect")

Visited(i) ==
  /\ temp' = temp \ {i}
  /\ sender' = IF temp \ {i} = {} THEN "idle" ELSE sender

SendBatchItem(i) ==
  /\ sender = "batch"
  /\ i \in temp
  /\ Visited(i)
  /\ IF item[i].bAllowBatch THEN SendData(i, item[i].wRountID)
                            ELSE UNCHANGED <<item, op>>
  /\ UNCHANGED <<phase, pool, threads, sendQueue, probe, told>>

(* GetRecvTickCount is called before the slot's lock is taken. *)
DetectReadTick(i) ==
  /\ sender = "detect"
  /\ probe = {}
  /\ i \in temp
  /\ probe' = {<<i, ~item[i].fresh>>}
  /\ UNCHANGED <<phase, item, pool, threads, op, sendQueue, sender, temp, told>>

(* Under the lock: an old tick closes whatever connection the slot has now *)
(* (IsReadySend only selects the limit); a young one sends a detect packet *)
(* or, when it is not older than the pass itself, nothing.                 *)
DetectItem(i) ==
  /\ sender = "detect"
  /\ Visited(i)
  /\ probe' = {}
  /\ \/ /\ <<i, TRUE>> \in probe
        /\ CloseSocket(i, item[i], told[i])
        /\ UNCHANGED op
     \/ /\ <<i, FALSE>> \in probe
        /\ \/ item[i].ready /\ SendData(i, item[i].wRountID)
           \/ UNCHANGED <<item, op>>
        /\ UNCHANGED <<pool, told>>
  /\ UNCHANGED <<phase, threads, sendQueue>>

(* Time passes: the last receive of slot i becomes older than the limit. *)
TickPasses(i) ==
  /\ item[i].fresh
  /\ item' = [item EXCEPT ![i].fresh = FALSE]
  /\ UNCHANGED <<phase, pool, threads, op, queue, told>>

-----------------------------------------------------------------------------
(* The end of StartService, and StopService.  Each waits for the threads   *)
(* it stops: detect and accept, the send queue's (its quit marker is the   *)
(* last entry handled), the workers; then all active slots are closed,     *)
(* reset and freed, whatever operation the kernel still has.               *)

StartServiceDone ==
  /\ phase = "starting"
  /\ phase' = "running"
  /\ UNCHANGED <<item, pool, threads, op, queue, told>>

StopService ==
  /\ phase = "running"
  /\ phase' = "stopAccept"
  /\ UNCHANGED <<item, pool, threads, op, queue, told>>

(* Fault: no quit marker is posted to the send queue. *)
StopAcceptForgetsQuit ==
  /\ phase = "stopAccept"
  /\ accepting = {}
  /\ phase' = "stopSender"
  /\ UNCHANGED <<item, pool, threads, op, queue, told>>

StopAcceptThread ==
  /\ phase = "stopAccept"
  /\ accepting = {}
  /\ phase' = "stopSender"
  /\ sendQueue' = Append(sendQueue, [type |-> "quit"])
  /\ UNCHANGED <<item, pool, threads, op, sender, temp, probe, told>>

HandleQuit ==
  /\ TakeRequest
  /\ Head(sendQueue).type = "quit"
  /\ sender' = "stopped"
  /\ phase' = "stopWorkers"
  /\ UNCHANGED <<item, pool, threads, op, temp, probe, told>>

(* Fault: one quit marker too many is counted. *)
WorkerQuitUnchecked ==
  /\ phase = "stopWorkers"
  /\ idleWorkers' = idleWorkers - 1
  /\ UNCHANGED <<phase, item, pool, accepting, op, queue, told>>

WorkerQuit ==
  /\ phase = "stopWorkers"
  /\ idleWorkers > 0
  /\ idleWorkers' = idleWorkers - 1
  /\ UNCHANGED <<phase, item, pool, accepting, op, queue, told>>

(* CloseSocket and ResetSocketData of every active slot: when CloseSocket  *)
(* completes the close, the slot is reset twice.                           *)
StopConnections ==
  /\ phase = "stopWorkers"
  /\ idleWorkers = 0
  /\ \A c \in DOMAIN op : op[c] # "taken"
  /\ phase' = "stopped"
  /\ item' = [i \in Items |->
                IF i \notin active THEN item[i]
                ELSE IF ~item[i].bRecvIng /\ item[i].sends = << >>
                     THEN NewItem(item[i].wRountID + 2)
                     ELSE NewItem(item[i].wRountID + 1)]
  /\ free' = free \cup active
  /\ active' = {}
  /\ UNCHANGED <<threads, op, queue, told>>

-----------------------------------------------------------------------------
AcceptThread == \E i \in Items : Accept(i) \/ Attach(i)

Kernel == \E i \in Items, k \in Kinds : Complete(i, k)

Workers ==
  \/ \E i \in Items, k \in Kinds : WorkerTake(i, k) \/ WorkerHandle(i, k)
  \/ WorkerQuit

Callers ==
  \/ PostSendDataBatch
  \/ PostDetect
  \/ \E i \in Items : \E round \in 0 .. item[i].wRountID :
       \/ PostSendData(i, round)
       \/ PostShutDownSocket(i, round)
       \/ PostAllowBatchSend(i, round)
       \/ EngineCloseSocket(i, round)

SendThread ==
  \/ HandleSend \/ HandleSafeClose \/ HandleAllowBatch \/ HandleSendAll
  \/ HandleDetect \/ HandleQuit
  \/ \E i \in Items : SendBatchItem(i) \/ DetectReadTick(i) \/ DetectItem(i)

Control == StartServiceDone \/ StopService \/ StopAcceptThread \/ StopConnections

Next ==
  \/ AcceptThread \/ Kernel \/ Workers \/ Callers \/ SendThread \/ Control
  \/ \E i \in Items : TickPasses(i)

Spec == Init /\ [][Next]_vars

-----------------------------------------------------------------------------
(* Properties. *)

Outstanding(i, k) == op[<<i, k>>] # "none"

(* A slot's flags and lists agree with the kernel: m_bRecvIng is set       *)
(* exactly while one receive is outstanding, the active send list is not   *)
(* empty exactly while one send, that of its head, is outstanding.  No     *)
(* overlapped structure is used again before its operation was handled.    *)
(* The asserts of OnSendCompleted, OnRecvCompleted and RecvData rely on it.*)
OperationsMatch ==
  phase # "stopped" =>
    \A i \in Items :
      /\ item[i].bRecvIng <=> Outstanding(i, "recv")
      /\ item[i].sends # << >> <=> Outstanding(i, "send")
      /\ \A k \in Kinds : op[<<i, k>>] # "clash"

(* A slot in the free list, or in the hands of the accept thread before    *)
(* Attach, carries nothing of an earlier connection: no operation is       *)
(* outstanding on it and every field is as after ResetSocketData.          *)
FreeSlotIsClean ==
  phase # "stopped" =>
    \A i \in free \cup accepting :
      /\ item[i] = NewItem(item[i].wRountID)
      /\ \A k \in Kinds : ~Outstanding(i, k)

(* A slot whose connection is attached but closed is never stranded: an    *)
(* operation is outstanding on it, and its completion will free the slot.  *)
ClosingSlotHasOperation ==
  phase # "stopped" =>
    \A i \in Items :
      ~item[i].bNotify /\ ~item[i].hSocket =>
        i \in active /\ \E k \in Kinds : Outstanding(i, k)

(* The send list of a slot only holds packets addressed to the connection  *)
(* it has now, and only after this connection sent a packet itself.        *)
SendsBelongToConnection ==
  \A i \in Items :
    /\ \A n \in DOMAIN item[i].sends : item[i].sends[n] = item[i].wRountID
    /\ item[i].sends # << >> => item[i].ready /\ ~item[i].bNotify

(* The events of a slot alternate: an accept event, its read events, its   *)
(* close event.  Until StopService, a connection that was announced and    *)
(* not yet closed for the attemper is one the slot has.  The slot has      *)
(* others only when they were accepted before the service flag was set:    *)
(* those are never announced.                                              *)
EventProtocol ==
  \A i \in Items :
    /\ told[i] # "broken"
    /\ phase \in {"starting", "running"} =>
         (told[i] = "open" => ~item[i].bNotify)
    /\ ~item[i].bNotify => told[i] \in {"open", "unheard"}

(* The mapping to Connections. *)
Stage ==
  CASE phase = "starting" -> "starting"
    [] phase = "running"  -> "serving"
    [] phase = "stopped"  -> "over"
    [] OTHER              -> "ending"

Use(i) ==
  CASE ~item[i].bNotify /\ item[i].hSocket  -> "open"
    [] ~item[i].bNotify /\ ~item[i].hSocket -> "closing"
    [] item[i].bNotify /\ i \in accepting   -> "held"
    [] item[i].bNotify /\ i \notin accepting ->
         IF i \in free THEN "free" ELSE IF i \in active THEN "aside" ELSE "unused"

Operations(i) ==
  IF phase = "stopped" THEN {} ELSE {k \in Kinds : op[<<i, k>>] # "none"}

Slot(i) ==
  [use |-> Use(i), round |-> item[i].wRountID, ready |-> item[i].hSocket /\ item[i].ready,
   ops |-> Operations(i), packets |-> item[i].sends, heard |-> told[i]]

Slots == INSTANCE Connections WITH stage <- Stage, slot <- [i \in Items |-> Slot(i)]

(* The engine's threads, flags, lists and queues, and the completions that *)
(* the kernel delivers at any time, give each slot one connection after    *)
(* the other: it opens, receives and sends its own packets, closes, and is *)
(* over with its last operation; the attemper hears of both ends, once.    *)
ImplementsConnections == Slots!Spec

(* Slots that are neither free nor of use to anyone. *)
LeakedSlots == {i \in active : item[i].bNotify} \ accepting

(* While the service flag is up no slot leaks: what leaves a connection    *)
(* goes back to the free list in the same step.                            *)
NoLeakInService ==
  [][bService /\ bService' => LeakedSlots' \subseteq LeakedSlots]_vars

(* Every slot is free or in use, never both, and a connection only lives   *)
(* in a slot of the active list that the accept thread is done with.       *)
SlotOwnership ==
  /\ free \cap active = {}
  /\ accepting \subseteq active
  /\ phase # "stopped" =>
       \A i \in Items : ~item[i].bNotify => i \in active \ accepting

(* The assert of OnCloseCompleted, ASSERT(m_bNotify==false), for the slots *)
(* of the free list, whose flag is raised: a slot that was given back is   *)
(* not closed a second time.                                               *)
CloseCompletesOnce ==
  [][phase' # "stopped" =>
       \A i \in free :
         item'[i].wRountID # item[i].wRountID => ~item[i].bNotify]_vars

(* QUEUE_SAFE_CLOSE of a connection that has nothing left to send closes   *)
(* it, as the statements of ShutDownSocket after its first return say.     *)
SafeCloseCloses ==
  [][\A i \in Items :
       /\ sendQueue # << >> /\ sendQueue' = Tail(sendQueue)
       /\ Head(sendQueue) = ForConnection("safeClose", i, item[i].wRountID)
       /\ item[i].sends = << >>
       => ~item'[i].hSocket]_vars

-----------------------------------------------------------------------------
(* Fairness.  Every thread runs while it can; the completion port hands    *)
(* out completions in order, so that none is passed over for ever; the     *)
(* kernel ends the operations of a closed socket.  Nothing is assumed of   *)
(* peers, callers and time.                                                *)
Fairness ==
  /\ \A i \in Items :
       /\ WF_vars(Attach(i))
       /\ \A k \in Kinds :
            /\ WF_vars(~item[i].hSocket /\ Complete(i, k))
            /\ SF_vars(WorkerTake(i, k))
            /\ WF_vars(WorkerHandle(i, k))
  /\ SF_vars(WorkerQuit)
  /\ WF_vars(SendThread)
  /\ WF_vars(StartServiceDone \/ StopAcceptThread \/ StopConnections)

FairSpec == Spec /\ Fairness

(* A worker that met an unexpected error left; perhaps it was the last, or *)
(* took a completion of slot i with it.                                    *)
Deserted(i) ==
  \/ \E k \in Kinds : op[<<i, k>>] = "lost"
  \/ idleWorkers = 0 /\ \A c \in DOMAIN op : op[c] # "taken"

(* A closed connection gives its slot back, as long as the service runs    *)
(* and no worker left the port with one of the slot's completions.         *)
ClosedSlotIsFreed ==
  \A i \in Items :
    bService /\ ~item[i].bNotify /\ ~item[i].hSocket
      ~> i \in free \/ ~bService \/ Deserted(i)

(* StopService, which waits without limit for each thread, returns. *)
StopServiceReturns == phase = "stopAccept" ~> phase = "stopped"
=============================================================================
