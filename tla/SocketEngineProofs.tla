------------------------ MODULE SocketEngineProofs -------------------------
(***************************************************************************)
(* The safety properties of SocketEngine for any set of slots, any number  *)
(* of workers and any bounds.                                              *)
(***************************************************************************)
EXTENDS SocketEngine, TLAPS

(* A slot without a connection is as ResetSocketData left it and has no    *)
(* operation outstanding.                                                  *)
EmptySlot(i) ==
  /\ item[i] = NewItem(item[i].wRountID)
  /\ \A k \in Kinds : op[<<i, k>>] = "none"

(* A slot with a connection, open or closing. *)
UsedSlot(i) ==
  /\ i \in active
  /\ i \notin accepting
  /\ item[i].bRecvIng <=> op[<<i, "recv">>] # "none"
  /\ item[i].sends # << >> <=> op[<<i, "send">>] # "none"
  /\ \A k \in Kinds : op[<<i, k>>] # "clash"
  /\ item[i].hSocket \/ item[i].bRecvIng \/ item[i].sends # << >>
  /\ \A n \in DOMAIN item[i].sends : item[i].sends[n] = item[i].wRountID
  /\ item[i].sends # << >> => item[i].ready
  /\ told[i] \in {"open", "unheard"}

SlotInv(i) ==
  /\ item[i].bNotify => EmptySlot(i)
  /\ ~item[i].bNotify => UsedSlot(i)
  /\ i \in free => i \notin active
  /\ i \in accepting => i \in active
  /\ (i \notin active \/ i \in accepting) => item[i].bNotify /\ told[i] = "silent"
  /\ told[i] # "broken"
  /\ phase = "starting" => told[i] # "open"
  /\ phase = "running" /\ item[i].bNotify => told[i] # "open"

(* The accept thread holds one slot, and the order in which StopService    *)
(* ends the threads.                                                       *)
StopInv ==
  /\ \A i, j \in accepting : i = j
  /\ phase \in {"stopSender", "stopWorkers", "stopped"} => accepting = {}
  /\ phase \in {"stopWorkers", "stopped"} => sender = "stopped"
  /\ \A n \in 1 .. Len(sendQueue) :
       sendQueue[n].type = "quit" => phase \in {"stopSender", "stopWorkers", "stopped"}

StoppedInv ==
  /\ active = {}
  /\ \A i \in Items : /\ item[i] = NewItem(item[i].wRountID)
                      /\ told[i] # "broken"
                      /\ \A k \in Kinds : op[<<i, k>>] # "taken"

IInv ==
  /\ TypeOK
  /\ StopInv
  /\ phase # "stopped" => \A i \in Items : SlotInv(i)
  /\ phase = "stopped" => StoppedInv
-----------------------------------------------------------------------------
(* Facts about the data. *)

LEMMA NewItemType ==
  ASSUME NEW round \in Nat
  PROVE  /\ NewItem(round) \in ItemState
         /\ NewItem(round).wRountID = round
         /\ NewItem(round).bNotify
         /\ ~NewItem(round).hSocket
         /\ ~NewItem(round).bRecvIng
         /\ ~NewItem(round).bAllowBatch
         /\ ~NewItem(round).ready
         /\ ~NewItem(round).fresh
         /\ NewItem(round).sends = << >>
  BY DEF NewItem, ItemState

LEMMA AppendFacts ==
  ASSUME NEW s \in Seq(Nat), NEW r \in Nat,
         \A n \in DOMAIN s : s[n] = r
  PROVE  /\ Append(s, r) \in Seq(Nat)
         /\ Append(s, r) # << >>
         /\ \A n \in DOMAIN Append(s, r) : Append(s, r)[n] = r
  OBVIOUS

LEMMA TailFacts ==
  ASSUME NEW s \in Seq(Nat), NEW r \in Nat, s # << >>,
         \A n \in DOMAIN s : s[n] = r
  PROVE  /\ Tail(s) \in Seq(Nat)
         /\ \A n \in DOMAIN Tail(s) : Tail(s)[n] = r
  OBVIOUS

(* Slots other than i are left alone. *)
OnlySlot(i) ==
  \A j \in Items \ {i} :
    /\ item'[j] = item[j]
    /\ told'[j] = told[j]
    /\ \A k \in Kinds : op'[<<j, k>>] = op[<<j, k>>]
    /\ j \in free' <=> j \in free
    /\ j \in active' <=> j \in active
    /\ j \in accepting' <=> j \in accepting

LEMMA OtherSlots ==
  ASSUME NEW i \in Items, OnlySlot(i), phase' = phase,
         \A j \in Items : SlotInv(j), SlotInv(i)'
  PROVE  (\A j \in Items : SlotInv(j))'
<1> SUFFICES ASSUME NEW j \in Items, j # i PROVE SlotInv(j)'
  OBVIOUS
<1>1. SlotInv(j)
  OBVIOUS
<1> QED
  BY <1>1 DEF OnlySlot, SlotInv, EmptySlot, UsedSlot, NewItem, Kinds

(* What CloseSocket needs of the slot it is called on, with s, t and op'   *)
(* the state the calling function reached.                                 *)
ClosePre(i, s, t) ==
  /\ s \in ItemState
  /\ ~s.bNotify
  /\ i \in active
  /\ i \notin accepting'
  /\ s.bRecvIng <=> op'[<<i, "recv">>] # "none"
  /\ s.sends # << >> <=> op'[<<i, "send">>] # "none"
  /\ \A k \in Kinds : op'[<<i, k>>] # "clash"
  /\ \A n \in DOMAIN s.sends : s.sends[n] = s.wRountID
  /\ s.sends # << >> => s.ready
  /\ t \in {"open", "unheard"}
  /\ phase = "starting" => t # "open"

(* A step of slot i: its new state is good, the others are left alone. *)
SlotStep(i) ==
  /\ SlotInv(i)'
  /\ item' \in [Items -> ItemState]
  /\ told' \in [Items -> ToldStates]
  /\ free' \subseteq Items
  /\ active' \subseteq Items
  /\ \A j \in Items \ {i} :
       /\ item'[j] = item[j]
       /\ told'[j] = told[j]
       /\ j \in free' <=> j \in free
       /\ j \in active' <=> j \in active

OpStep(i) ==
  /\ op' \in [Items \X Kinds -> OpStates]
  /\ \A j \in Items \ {i} : \A k \in Kinds : op'[<<j, k>>] = op[<<j, k>>]

LEMMA CloseSocketSlot ==
  ASSUME TypeOK, NEW i \in Items, NEW s, NEW t, SlotInv(i), phase' = phase,
         ClosePre(i, s, t), CloseSocket(i, s, t)
  PROVE  SlotStep(i)
<1> USE DEF SlotStep
<1> DEFINE c == [s EXCEPT !.hSocket = FALSE]
<1>1. /\ c \in ItemState /\ ~c.bNotify /\ ~c.hSocket
      /\ c.bRecvIng = s.bRecvIng /\ c.sends = s.sends
      /\ c.ready = s.ready /\ c.wRountID = s.wRountID
  BY DEF ClosePre, ItemState
<1>t. /\ item \in [Items -> ItemState] /\ told \in [Items -> ToldStates]
      /\ free \subseteq Items /\ active \subseteq Items
      /\ t \in ToldStates /\ "silent" \in ToldStates
  BY DEF TypeOK, ClosePre, ToldStates
<1>2. CASE ~s.bRecvIng /\ s.sends = << >>
  <2>1. s.wRountID + 1 \in Nat
    BY DEF ClosePre, ItemState
  <2>2. item' = [item EXCEPT ![i] = NewItem(s.wRountID + 1)] /\ OnSocketCloseEvent(i, t)
    BY <1>1, <1>2 DEF CloseSocket, OnCloseCompleted, ResetSocketData
  <2>3. /\ item'[i] = NewItem(s.wRountID + 1)
        /\ item' \in [Items -> ItemState]
        /\ \A j \in Items \ {i} : item'[j] = item[j]
    BY <2>1, <2>2, NewItemType DEF TypeOK
  <2>4. item'[i].bNotify /\ item'[i] = NewItem(item'[i].wRountID)
    BY <2>1, <2>3, NewItemType
  <2>5. \A k \in Kinds : op'[<<i, k>>] = "none"
    BY <1>2 DEF ClosePre, Kinds
  <2>6. CASE bService
    <3>1. /\ active' = active \ {i} /\ free' = free \cup {i}
          /\ told' = [told EXCEPT ![i] = "silent"]
      BY <2>2, <2>6 DEF OnSocketCloseEvent, TellClose, ClosePre
    <3>2. told'[i] = "silent" /\ i \notin active' /\ i \notin accepting'
      BY <3>1 DEF TypeOK, ClosePre
    <3>3. SlotInv(i)'
      BY <2>4, <2>5, <3>2 DEF SlotInv, EmptySlot
    <3>4. told' \in [Items -> ToldStates] /\ free' \subseteq Items /\ active' \subseteq Items
      BY <1>t, <3>1
    <3>5. \A j \in Items \ {i} : told'[j] = told[j]
      BY <1>t, <3>1
    <3>6. \A j \in Items \ {i} : /\ (j \in free' <=> j \in free)
                                /\ (j \in active' <=> j \in active)
      BY <3>1
    <3> QED
      BY <2>3, <3>3, <3>4, <3>5, <3>6
  <2>7. CASE ~bService
    <3>1. UNCHANGED pool /\ told' = [told EXCEPT ![i] = t]
      BY <2>2, <2>7 DEF OnSocketCloseEvent, TellClose, ClosePre
    <3>2. told'[i] = t /\ i \in active' /\ i \notin accepting' /\ i \notin free'
      BY <3>1 DEF TypeOK, ClosePre, SlotInv, pool
    <3>3. SlotInv(i)'
      BY <2>4, <2>5, <2>7, <3>2 DEF SlotInv, EmptySlot, bService, ClosePre
    <3>4. told' \in [Items -> ToldStates] /\ free' \subseteq Items /\ active' \subseteq Items
      BY <1>t, <3>1 DEF pool
    <3>5. \A j \in Items \ {i} : told'[j] = told[j]
      BY <1>t, <3>1
    <3>6. \A j \in Items \ {i} : /\ (j \in free' <=> j \in free)
                                /\ (j \in active' <=> j \in active)
      BY <3>1 DEF pool
    <3> QED
      BY <2>3, <3>3, <3>4, <3>5, <3>6
  <2> QED
    BY <2>6, <2>7
<1>3. CASE s.bRecvIng \/ s.sends # << >>
  <2>1. item' = [item EXCEPT ![i] = c] /\ told' = [told EXCEPT ![i] = t] /\ UNCHANGED pool
    BY <1>3 DEF CloseSocket
  <2>2. item'[i] = c /\ told'[i] = t
    BY <2>1 DEF TypeOK
  <2>3. UsedSlot(i)'
    <3>1. /\ item'[i].bRecvIng = s.bRecvIng
          /\ item'[i].sends = s.sends
          /\ item'[i].ready = s.ready
          /\ item'[i].wRountID = s.wRountID
      BY <1>1, <2>2
    <3>2. i \in active' /\ i \notin accepting'
      BY <2>1 DEF ClosePre, pool
    <3> HIDE DEF c
    <3> QED
      BY <1>3, <2>2, <3>1, <3>2 DEF UsedSlot, ClosePre
  <2>4. SlotInv(i)'
    BY <1>1, <2>1, <2>2, <2>3 DEF SlotInv, ClosePre, pool
  <2> QED
    <3> HIDE DEF c
    <3>1. /\ item' \in [Items -> ItemState] /\ told' \in [Items -> ToldStates]
          /\ free' \subseteq Items /\ active' \subseteq Items
      BY <1>1, <1>t, <2>1 DEF pool
    <3>2. \A j \in Items \ {i} : item'[j] = item[j] /\ told'[j] = told[j]
      BY <1>t, <2>1
    <3>3. \A j \in Items \ {i} : /\ (j \in free' <=> j \in free)
                                /\ (j \in active' <=> j \in active)
      BY <2>1 DEF pool
    <3> QED
      BY <2>4, <3>1, <3>2, <3>3
<1> QED
  BY <1>2, <1>3 DEF ClosePre, ItemState
(* What RecvData needs: ClosePre with o for op', and no receive posted. *)
RecvPre(i, s, t, o) ==
  /\ o \in [Items \X Kinds -> OpStates]
  /\ \A j \in Items \ {i} : \A k \in Kinds : o[<<j, k>>] = op[<<j, k>>]
  /\ s \in ItemState
  /\ ~s.bNotify /\ s.hSocket /\ ~s.bRecvIng
  /\ i \in active
  /\ i \notin accepting'
  /\ o[<<i, "recv">>] = "none"
  /\ s.sends # << >> <=> o[<<i, "send">>] # "none"
  /\ o[<<i, "send">>] # "clash"
  /\ \A n \in DOMAIN s.sends : s.sends[n] = s.wRountID
  /\ s.sends # << >> => s.ready
  /\ t \in {"open", "unheard"}
  /\ phase = "starting" => t # "open"

LEMMA IssueFacts ==
  ASSUME NEW o \in [Items \X Kinds -> OpStates], NEW i \in Items, NEW k \in Kinds,
         o[<<i, k>>] = "none"
  PROVE  /\ Issue(o, <<i, k>>) \in [Items \X Kinds -> OpStates]
         /\ Issue(o, <<i, k>>)[<<i, k>>] = "issued"
         /\ \A c \in Items \X Kinds : c # <<i, k>> => Issue(o, <<i, k>>)[c] = o[c]
  BY DEF Issue, OpStates

LEMMA RecvDataSlot ==
  ASSUME TypeOK, NEW i \in Items, NEW s, NEW t, NEW o, SlotInv(i), phase' = phase,
         RecvPre(i, s, t, o), RecvData(i, s, t, o)
  PROVE  SlotStep(i) /\ OpStep(i)
<1> DEFINE r == [s EXCEPT !.bRecvIng = TRUE]
           f == [s EXCEPT !.bRecvIng = FALSE]
<1>1. CASE /\ item' = [item EXCEPT ![i] = r]
           /\ op' = Issue(o, <<i, "recv">>)
           /\ told' = [told EXCEPT ![i] = t]
           /\ UNCHANGED pool
  <2>1. /\ op' \in [Items \X Kinds -> OpStates]
        /\ op'[<<i, "recv">>] = "issued"
        /\ \A c \in Items \X Kinds : c # <<i, "recv">> => op'[c] = o[c]
    <3>1. /\ "recv" \in Kinds
          /\ o \in [Items \X Kinds -> OpStates]
          /\ o[<<i, "recv">>] = "none"
      BY DEF Kinds, RecvPre
    <3>2. op' = Issue(o, <<i, "recv">>)
      BY <1>1
    <3> QED
      BY <3>1, <3>2, IssueFacts
  <2>2. OpStep(i)
    BY <2>1 DEF OpStep, RecvPre
  <2>3. op'[<<i, "send">>] = o[<<i, "send">>]
    BY <2>1 DEF Kinds
  <2>4. /\ r \in ItemState /\ ~r.bNotify /\ r.hSocket /\ r.bRecvIng
        /\ r.sends = s.sends /\ r.ready = s.ready /\ r.wRountID = s.wRountID
    BY DEF RecvPre, ItemState
  <2>5. item'[i] = r /\ told'[i] = t
    BY <1>1 DEF TypeOK
  <2> HIDE DEF r
  <2>6. UsedSlot(i)'
    BY <1>1, <2>1, <2>3, <2>4, <2>5 DEF UsedSlot, RecvPre, pool, Kinds
  <2>7. SlotInv(i)'
    BY <1>1, <2>4, <2>5, <2>6 DEF SlotInv, RecvPre, pool
  <2>8. t \in ToldStates
    BY DEF RecvPre, ToldStates
  <2>9. /\ item' \in [Items -> ItemState]
        /\ told' \in [Items -> ToldStates]
        /\ \A j \in Items \ {i} : item'[j] = item[j] /\ told'[j] = told[j]
    BY <1>1, <2>4, <2>8 DEF TypeOK
  <2> QED
    BY <1>1, <2>2, <2>7, <2>9 DEF SlotStep, pool, TypeOK
<1>2. CASE op' = o /\ CloseSocket(i, f, t)
  <2>1. /\ f \in ItemState /\ ~f.bNotify /\ ~f.bRecvIng
        /\ f.sends = s.sends /\ f.ready = s.ready /\ f.wRountID = s.wRountID
    BY DEF RecvPre, ItemState
  <2>2. OpStep(i)
    BY <1>2 DEF OpStep, RecvPre
  <2> HIDE DEF f
  <2>3. ClosePre(i, f, t)
    BY <1>2, <2>1 DEF ClosePre, RecvPre, Kinds
  <2> QED
    BY <1>2, <2>2, <2>3, CloseSocketSlot
<1> QED
  BY <1>1, <1>2 DEF RecvData
(* The completions.  The worker took the slot's operation of kind k: the   *)
(* slot has a connection, and o is op without it.                          *)
TakenPre(i, k, o) ==
  /\ SlotInv(i)
  /\ op[<<i, k>>] = "taken"
  /\ o = [op EXCEPT ![<<i, k>>] = "none"]
  /\ UNCHANGED <<phase, accepting>>

LEMMA TakenFacts ==
  ASSUME TypeOK, NEW i \in Items, NEW k \in Kinds, NEW o, TakenPre(i, k, o)
  PROVE  /\ ~item[i].bNotify /\ UsedSlot(i) /\ i \notin accepting'
         /\ o \in [Items \X Kinds -> OpStates]
         /\ o[<<i, k>>] = "none"
         /\ \A c \in Items \X Kinds : c # <<i, k>> => o[c] = op[c]
         /\ phase = "starting" => told[i] # "open"
<1>1. ~item[i].bNotify /\ UsedSlot(i) /\ (phase = "starting" => told[i] # "open")
  BY DEF TakenPre, SlotInv, EmptySlot
<1>2. i \notin accepting'
  BY <1>1 DEF UsedSlot, TakenPre
<1>3. o \in [Items \X Kinds -> OpStates] /\ o[<<i, k>>] = "none"
  BY DEF TakenPre, TypeOK, OpStates
<1>4. \A c \in Items \X Kinds : c # <<i, k>> => o[c] = op[c]
  BY DEF TakenPre, TypeOK
<1> QED
  BY <1>1, <1>2, <1>3, <1>4

LEMMA OnRecvCompletedSlot ==
  ASSUME TypeOK, NEW i \in Items, NEW o, TakenPre(i, "recv", o), OnRecvCompleted(i, o)
  PROVE  SlotStep(i) /\ OpStep(i)
<1> DEFINE s == [item[i] EXCEPT !.bRecvIng = FALSE, !.fresh = TRUE]
<1>1. /\ ~item[i].bNotify /\ UsedSlot(i) /\ i \notin accepting'
      /\ o \in [Items \X Kinds -> OpStates]
      /\ o[<<i, "recv">>] = "none"
      /\ \A c \in Items \X Kinds : c # <<i, "recv">> => o[c] = op[c]
      /\ phase = "starting" => told[i] # "open"
  BY TakenFacts DEF Kinds
<1>2. /\ o[<<i, "send">>] = op[<<i, "send">>]
      /\ \A j \in Items \ {i} : \A k \in Kinds : o[<<j, k>>] = op[<<j, k>>]
  BY <1>1 DEF Kinds
<1>3. SlotInv(i) /\ phase' = phase
  BY DEF TakenPre
<1>4. ASSUME NEW counted \in BOOLEAN, NEW t \in {"open", "unheard"},
             phase = "starting" => t # "open"
      PROVE  LET r == [s EXCEPT !.ready = @ \/ counted]
             IN /\ op' = o => ClosePre(i, r, t)
                /\ s.hSocket => RecvPre(i, r, t, o)
  <2> DEFINE r == [s EXCEPT !.ready = @ \/ counted]
  <2>1. /\ r \in ItemState /\ ~r.bNotify /\ ~r.bRecvIng /\ r.hSocket = s.hSocket
        /\ r.sends = item[i].sends /\ r.wRountID = item[i].wRountID
        /\ item[i].ready => r.ready
    BY <1>1 DEF TypeOK, ItemState
  <2> HIDE DEF r, s
  <2>2. op' = o => ClosePre(i, r, t)
    BY <1>1, <1>2, <1>4, <2>1 DEF ClosePre, UsedSlot, Kinds
  <2>3. s.hSocket => RecvPre(i, r, t, o)
    BY <1>1, <1>2, <1>4, <2>1 DEF RecvPre, UsedSlot, Kinds
  <2> QED
    BY <2>2, <2>3 DEF r
<1>5. told[i] \in {"open", "unheard"}
  BY <1>1 DEF UsedSlot
<1>6. CASE op' = o /\ CloseSocket(i, s, told[i])
  <2>1. /\ s \in ItemState /\ ~s.bNotify /\ ~s.bRecvIng
        /\ s.sends = item[i].sends /\ s.wRountID = item[i].wRountID
        /\ s.ready = item[i].ready
    BY <1>1 DEF TypeOK, ItemState
  <2>2. OpStep(i)
    BY <1>1, <1>2, <1>6 DEF OpStep
  <2> HIDE DEF s
  <2>3. ClosePre(i, s, told[i])
    BY <1>1, <1>2, <1>5, <1>6, <2>1 DEF ClosePre, UsedSlot, Kinds
  <2> QED
    BY <1>3, <1>6, <2>2, <2>3, CloseSocketSlot
<1>7. ASSUME NEW counted \in BOOLEAN, NEW read \in BOOLEAN, NEW bad \in BOOLEAN,
             s.hSocket,
             LET r == [s EXCEPT !.ready = @ \/ counted]
                 t == IF read THEN TellRead(told[i]) ELSE told[i]
             IN IF bad THEN op' = o /\ CloseSocket(i, r, t)
                       ELSE RecvData(i, r, t, o)
      PROVE  SlotStep(i) /\ OpStep(i)
  <2> DEFINE r == [s EXCEPT !.ready = @ \/ counted]
             t == IF read THEN TellRead(told[i]) ELSE told[i]
  <2>1. t = told[i]
    BY <1>5 DEF TellRead
  <2>2. /\ op' = o => ClosePre(i, r, told[i])
        /\ RecvPre(i, r, told[i], o)
    BY <1>1, <1>4, <1>5, <1>7
  <2> HIDE DEF r, s
  <2>3. CASE bad
    <3>1. op' = o /\ CloseSocket(i, r, told[i])
      BY <1>7, <2>1, <2>3 DEF r
    <3>2. OpStep(i)
      BY <1>1, <1>2, <3>1 DEF OpStep
    <3> QED
      BY <1>3, <2>2, <3>1, <3>2, CloseSocketSlot
  <2>4. CASE ~bad
    <3>1. RecvData(i, r, told[i], o)
      BY <1>7, <2>1, <2>4 DEF r
    <3> QED
      BY <1>3, <2>2, <3>1, RecvDataSlot
  <2> QED
    BY <2>3, <2>4
<1> QED
  BY <1>6, <1>7 DEF OnRecvCompleted

(* The slot with the packet at the head taken off, and with all of them.   *)
Popped(i) == [item[i] EXCEPT !.sends = Tail(@)]

Emptied(i) == [Popped(i) EXCEPT !.sends = << >>]

LEMMA PoppedFacts ==
  ASSUME TypeOK, NEW i \in Items, item[i].sends # << >>, ~item[i].bNotify, UsedSlot(i)
  PROVE  /\ \A n \in DOMAIN Tail(item[i].sends) :
              Tail(item[i].sends)[n] = item[i].wRountID
         /\ Popped(i) \in ItemState /\ ~Popped(i).bNotify
         /\ Popped(i).bRecvIng = item[i].bRecvIng
         /\ Popped(i).hSocket = item[i].hSocket /\ Popped(i).ready = item[i].ready
         /\ Popped(i).wRountID = item[i].wRountID
         /\ Popped(i).sends = Tail(item[i].sends)
         /\ Emptied(i) \in ItemState /\ ~Emptied(i).bNotify
         /\ Emptied(i).bRecvIng = item[i].bRecvIng
         /\ Emptied(i).ready = item[i].ready
         /\ Emptied(i).wRountID = item[i].wRountID /\ Emptied(i).sends = << >>
<1>1. /\ item[i] \in ItemState
      /\ item[i].sends \in Seq(Nat) /\ item[i].wRountID \in Nat
      /\ \A n \in DOMAIN item[i].sends : item[i].sends[n] = item[i].wRountID
  BY DEF TypeOK, ItemState, UsedSlot
<1>2. /\ Tail(item[i].sends) \in Seq(Nat)
      /\ \A n \in DOMAIN Tail(item[i].sends) : Tail(item[i].sends)[n] = item[i].wRountID
  BY <1>1, TailFacts
<1>3. /\ Popped(i) \in ItemState /\ ~Popped(i).bNotify
      /\ Popped(i).bRecvIng = item[i].bRecvIng
      /\ Popped(i).hSocket = item[i].hSocket /\ Popped(i).ready = item[i].ready
      /\ Popped(i).wRountID = item[i].wRountID
      /\ Popped(i).sends = Tail(item[i].sends)
  BY <1>1, <1>2 DEF ItemState, Popped
<1>4. /\ Emptied(i) \in ItemState /\ ~Emptied(i).bNotify
      /\ Emptied(i).bRecvIng = item[i].bRecvIng
      /\ Emptied(i).ready = item[i].ready
      /\ Emptied(i).wRountID = item[i].wRountID /\ Emptied(i).sends = << >>
  <2>1. Emptied(i) = [item[i] EXCEPT !.sends = << >>]
    BY <1>1 DEF ItemState, Emptied, Popped
  <2>2. << >> \in Seq(Nat)
    OBVIOUS
  <2> QED
    BY <1>1, <2>1, <2>2 DEF ItemState
<1> QED
  BY <1>2, <1>3, <1>4

LEMMA OnSendCompletedSlot ==
  ASSUME TypeOK, NEW i \in Items, NEW o, TakenPre(i, "send", o), OnSendCompleted(i, o)
  PROVE  SlotStep(i) /\ OpStep(i)
<1> DEFINE s    == Popped(i)
           none == Emptied(i)
<1>1. /\ ~item[i].bNotify /\ UsedSlot(i) /\ i \notin accepting'
      /\ o \in [Items \X Kinds -> OpStates]
      /\ o[<<i, "send">>] = "none"
      /\ \A c \in Items \X Kinds : c # <<i, "send">> => o[c] = op[c]
      /\ phase = "starting" => told[i] # "open"
  BY TakenFacts DEF Kinds
<1>2. /\ o[<<i, "recv">>] = op[<<i, "recv">>]
      /\ \A j \in Items \ {i} : \A k \in Kinds : o[<<j, k>>] = op[<<j, k>>]
  BY <1>1 DEF Kinds
<1>3. SlotInv(i) /\ phase' = phase
  BY DEF TakenPre
<1>4. told[i] \in {"open", "unheard"}
  BY <1>1 DEF UsedSlot
<1>5. item[i].sends # << >>
  BY <1>1 DEF UsedSlot, TakenPre
<1>7. \A n \in DOMAIN Tail(item[i].sends) : Tail(item[i].sends)[n] = item[i].wRountID
  BY <1>1, <1>5, PoppedFacts
<1>8. /\ s \in ItemState /\ ~s.bNotify /\ s.bRecvIng = item[i].bRecvIng
      /\ s.hSocket = item[i].hSocket /\ s.ready = item[i].ready
      /\ s.wRountID = item[i].wRountID /\ s.sends = Tail(item[i].sends)
  BY <1>1, <1>5, PoppedFacts
<1>9. /\ none \in ItemState /\ ~none.bNotify /\ none.bRecvIng = item[i].bRecvIng
      /\ none.ready = item[i].ready
      /\ none.wRountID = item[i].wRountID /\ none.sends = << >>
  BY <1>1, <1>5, PoppedFacts
<1>10. ASSUME op' = o, CloseSocket(i, none, told[i])
       PROVE  SlotStep(i) /\ OpStep(i)
  <2> HIDE DEF none
  <2>1. ClosePre(i, none, told[i])
    BY <1>1, <1>2, <1>4, <1>9, <1>10 DEF ClosePre, UsedSlot, Kinds
  <2>2. OpStep(i)
    BY <1>1, <1>2, <1>10 DEF OpStep
  <2> QED
    BY <1>3, <1>10, <2>1, <2>2, CloseSocketSlot
<1>11. ASSUME item' = [item EXCEPT ![i] = s], UNCHANGED <<pool, told>>,
              s.hSocket,
              op' = IF s.sends # << >> THEN Issue(o, <<i, "send">>) ELSE o
       PROVE  SlotStep(i) /\ OpStep(i)
  <2> HIDE DEF s, none
  <2>1. item'[i] = s /\ told'[i] = told[i] /\ i \in active'
    BY <1>1, <1>11 DEF TypeOK, pool, UsedSlot
  <2>2. /\ op' \in [Items \X Kinds -> OpStates]
        /\ s.sends # << >> <=> op'[<<i, "send">>] # "none"
        /\ op'[<<i, "send">>] # "clash"
        /\ \A c \in Items \X Kinds : c # <<i, "send">> => op'[c] = o[c]
    <3>1. CASE s.sends # << >>
      <4>1. op' = Issue(o, <<i, "send">>) /\ "send" \in Kinds
        BY <1>11, <3>1 DEF Kinds
      <4> QED
        BY <1>1, <3>1, <4>1, IssueFacts
    <3>2. CASE s.sends = << >>
      BY <1>1, <1>11, <3>2
    <3> QED
      BY <3>1, <3>2
  <2>3. OpStep(i)
    BY <1>2, <2>2 DEF OpStep
  <2>4. op'[<<i, "recv">>] = op[<<i, "recv">>]
    BY <1>2, <2>2 DEF Kinds
  <2>5. UsedSlot(i)'
    <3>1. /\ item'[i].bRecvIng = item[i].bRecvIng
          /\ item'[i].sends = Tail(item[i].sends)
          /\ item'[i].ready = item[i].ready
          /\ item'[i].wRountID = item[i].wRountID
          /\ item'[i].hSocket
      BY <1>8, <1>11, <2>1
    <3>2. \A n \in DOMAIN item'[i].sends : item'[i].sends[n] = item'[i].wRountID
      BY <1>7, <3>1
    <3>3. item'[i].sends # << >> => item'[i].ready
      BY <1>1, <1>5, <3>1 DEF UsedSlot
    <3>4. /\ item'[i].bRecvIng <=> op'[<<i, "recv">>] # "none"
          /\ \A k \in Kinds : op'[<<i, k>>] # "clash"
      BY <1>1, <2>2, <2>4, <3>1 DEF UsedSlot, Kinds
    <3>5. item'[i].sends # << >> <=> op'[<<i, "send">>] # "none"
      BY <1>8, <2>2, <3>1
    <3> QED
      BY <1>1, <1>4, <2>1, <3>1, <3>2, <3>3, <3>4, <3>5 DEF UsedSlot
  <2>6. SlotInv(i)'
    BY <1>1, <1>3, <1>8, <1>11, <2>1, <2>5 DEF SlotInv, pool
  <2>7. /\ item' \in [Items -> ItemState]
        /\ \A j \in Items \ {i} : item'[j] = item[j]
    BY <1>8, <1>11 DEF TypeOK
  <2> QED
    BY <1>11, <2>3, <2>6, <2>7 DEF SlotStep, pool, TypeOK
<1> QED
  BY <1>10, <1>11 DEF OnSendCompleted, Popped, Emptied

(* SendData only touches the send list and the send operation of the slot. *)
LEMMA SendDataSlot ==
  ASSUME TypeOK, NEW i \in Items, NEW round \in Nat, SlotInv(i),
         UNCHANGED <<phase, accepting, pool, told>>, SendData(i, round)
  PROVE  SlotStep(i) /\ OpStep(i)
<1> DEFINE s == [item[i] EXCEPT !.sends = Append(@, round)]
<1>1. CASE UNCHANGED <<item, op>>
  BY <1>1 DEF SlotStep, OpStep, SlotInv, EmptySlot, UsedSlot, pool, TypeOK
<1>2. CASE /\ round = item[i].wRountID /\ item[i].ready /\ item[i].hSocket
           /\ item' = [item EXCEPT ![i] = s]
           /\ op' = IF item[i].sends = << >> THEN Issue(op, <<i, "send">>) ELSE op
  <2>1. ~item[i].bNotify /\ UsedSlot(i)
    <3>1. item[i] \in ItemState
      BY DEF TypeOK
    <3>2. item[i].bNotify => ~item[i].hSocket
      BY <3>1, NewItemType DEF SlotInv, EmptySlot, ItemState
    <3> QED
      BY <1>2, <3>2 DEF SlotInv
  <2>2. /\ item[i] \in ItemState
        /\ item[i].sends \in Seq(Nat) /\ item[i].wRountID \in Nat
        /\ \A n \in DOMAIN item[i].sends : item[i].sends[n] = round
    BY <1>2, <2>1 DEF TypeOK, ItemState, UsedSlot
  <2>3. /\ Append(item[i].sends, round) \in Seq(Nat)
        /\ Append(item[i].sends, round) # << >>
        /\ \A n \in DOMAIN Append(item[i].sends, round) :
             Append(item[i].sends, round)[n] = round
    BY <2>2, AppendFacts
  <2>4. /\ s \in ItemState /\ ~s.bNotify /\ s.bRecvIng = item[i].bRecvIng
        /\ s.hSocket /\ s.ready
        /\ s.wRountID = round /\ s.sends = Append(item[i].sends, round)
    BY <1>2, <2>1, <2>2, <2>3 DEF ItemState
  <2> HIDE DEF s
  <2>5. item'[i] = s /\ told'[i] = told[i] /\ i \in active' /\ i \notin accepting'
    BY <1>2, <2>1 DEF TypeOK, pool, UsedSlot
  <2>6. /\ op' \in [Items \X Kinds -> OpStates]
        /\ op'[<<i, "send">>] # "none"
        /\ op'[<<i, "send">>] # "clash"
        /\ \A c \in Items \X Kinds : c # <<i, "send">> => op'[c] = op[c]
    <3> "send" \in Kinds
      BY DEF Kinds
    <3>1. CASE item[i].sends = << >>
      <4>1. op' = Issue(op, <<i, "send">>) /\ op[<<i, "send">>] = "none"
        BY <1>2, <2>1, <3>1 DEF UsedSlot
      <4>2. op \in [Items \X Kinds -> OpStates]
        BY DEF TypeOK
      <4> QED
        BY <4>1, <4>2, IssueFacts
    <3>2. CASE item[i].sends # << >>
      BY <1>2, <2>1, <3>2 DEF UsedSlot, TypeOK
    <3> QED
      BY <3>1, <3>2
  <2>7. OpStep(i)
    BY <2>6 DEF OpStep
  <2>8. op'[<<i, "recv">>] = op[<<i, "recv">>]
    BY <2>6 DEF Kinds
  <2>9. UsedSlot(i)'
    BY <2>1, <2>3, <2>4, <2>5, <2>6, <2>8 DEF UsedSlot, Kinds
  <2>10. SlotInv(i)'
    BY <2>1, <2>4, <2>5, <2>9 DEF SlotInv, pool
  <2>11. /\ item' \in [Items -> ItemState]
         /\ \A j \in Items \ {i} : item'[j] = item[j]
    BY <1>2, <2>4 DEF TypeOK
  <2> QED
    BY <2>7, <2>10, <2>11 DEF SlotStep, pool, TypeOK
<1> QED
  BY <1>1, <1>2 DEF SendData
-----------------------------------------------------------------------------
(* From the slot to the engine. *)

(* What a step must respect besides the slots. *)
RestStep ==
  /\ idleWorkers' \in Nat
  /\ accepting' \subseteq Items
  /\ sendQueue' \in Seq(Request)
  /\ sender' \in {"idle", "batch", "detect", "stopped"}
  /\ temp' \subseteq Items
  /\ probe' \subseteq Items \X BOOLEAN
  /\ StopInv'

LEMMA SlotStepInv ==
  ASSUME IInv, NEW i \in Items, SlotStep(i), OpStep(i), RestStep,
         phase # "stopped", phase' = phase,
         \A j \in Items \ {i} : j \in accepting' <=> j \in accepting
  PROVE  IInv'
<1>1. OnlySlot(i)
  BY DEF SlotStep, OpStep, OnlySlot
<1>2. (\A j \in Items : SlotInv(j))'
  BY <1>1, OtherSlots DEF IInv, SlotStep
<1>3. TypeOK'
  BY DEF IInv, TypeOK, SlotStep, OpStep, RestStep
<1> QED
  BY <1>2, <1>3 DEF IInv, RestStep

LEMMA SameSlotsInv ==
  ASSUME IInv, UNCHANGED <<item, pool, op, told>>, RestStep,
         phase # "stopped", phase' = phase, accepting' = accepting
  PROVE  IInv'
<1>1. ASSUME NEW j \in Items PROVE SlotInv(j)'
  <2>1. SlotInv(j)
    BY DEF IInv
  <2> QED
    BY <2>1 DEF SlotInv, EmptySlot, UsedSlot, pool
<1>2. TypeOK'
  BY DEF IInv, TypeOK, RestStep, pool
<1> QED
  BY <1>1, <1>2 DEF IInv, RestStep

LEMMA SameQueueRest ==
  ASSUME TypeOK, StopInv, UNCHANGED <<phase, accepting, queue>>, idleWorkers' \in Nat
  PROVE  RestStep
  BY DEF TypeOK, StopInv, RestStep, queue

(* Taking an entry off the send queue, or adding one that is no quit marker.*)
LEMMA TakeRequestRest ==
  ASSUME TypeOK, StopInv, TakeRequest, UNCHANGED <<phase, threads, probe>>,
         sender' \in {"idle", "batch", "detect"}, temp' \subseteq Items
  PROVE  /\ RestStep
         /\ Head(sendQueue) \in Request
         /\ phase # "stopped"
<1>1. sendQueue \in Seq(Request) /\ sendQueue # << >> /\ sendQueue' = Tail(sendQueue)
  BY DEF TypeOK, TakeRequest
<1>2. /\ Head(sendQueue) \in Request
      /\ Tail(sendQueue) \in Seq(Request)
      /\ Len(Tail(sendQueue)) = Len(sendQueue) - 1
      /\ \A n \in 1 .. Len(Tail(sendQueue)) :
           n + 1 \in 1 .. Len(sendQueue) /\ Tail(sendQueue)[n] = sendQueue[n + 1]
  BY <1>1
<1>3. phase \notin {"stopWorkers", "stopped"}
  BY DEF StopInv, TakeRequest
<1>4. StopInv'
  <2>1. ASSUME NEW n \in 1 .. Len(sendQueue'), sendQueue'[n].type = "quit"
        PROVE  phase' \in {"stopSender", "stopWorkers", "stopped"}
    BY <1>1, <1>2, <2>1 DEF StopInv
  <2> QED
    BY <1>3, <2>1 DEF StopInv, threads
<1> QED
  BY <1>1, <1>2, <1>3, <1>4 DEF RestStep, TypeOK, threads

LEMMA AppendEntry ==
  ASSUME NEW S, NEW q \in Seq(S), NEW r \in S
  PROVE  /\ Append(q, r) \in Seq(S)
         /\ \A n \in 1 .. Len(Append(q, r)) :
              Append(q, r)[n] = r \/ (n \in 1 .. Len(q) /\ Append(q, r)[n] = q[n])
  OBVIOUS

LEMMA AddToQueueInv ==
  ASSUME IInv, NEW r \in Request, r.type # "quit", AddToQueue(r)
  PROVE  IInv'
<1>1. /\ sendQueue \in Seq(Request) /\ sendQueue' = Append(sendQueue, r)
      /\ phase # "stopped"
      /\ UNCHANGED <<phase, item, pool, threads, op, sender, temp, probe, told>>
  BY DEF AddToQueue, IInv, TypeOK
<1>2. /\ Append(sendQueue, r) \in Seq(Request)
      /\ \A n \in 1 .. Len(Append(sendQueue, r)) :
           \/ Append(sendQueue, r)[n] = r
           \/ n \in 1 .. Len(sendQueue) /\ Append(sendQueue, r)[n] = sendQueue[n]
  BY <1>1, AppendEntry
<1>3. StopInv'
  BY <1>1, <1>2 DEF StopInv, IInv, threads
<1>4. RestStep
  BY <1>1, <1>2, <1>3 DEF RestStep, IInv, TypeOK, threads
<1> QED
  BY <1>1, <1>4, SameSlotsInv DEF threads
-----------------------------------------------------------------------------
(* Every action preserves the invariant. *)

LEMMA InitInv == ASSUME Init PROVE IInv
<1>1. NewItem(0) \in ItemState /\ NewItem(0).wRountID = 0 /\ NewItem(0).bNotify
  BY NewItemType
<1>2. ASSUME NEW i \in Items PROVE SlotInv(i)
  <2>1. /\ item[i] = NewItem(0) /\ told[i] = "silent" /\ i \notin free
        /\ i \notin accepting /\ \A k \in Kinds : op[<<i, k>>] = "none"
    BY DEF Init
  <2> QED
    BY <1>1, <2>1 DEF Init, SlotInv, EmptySlot
<1>3. TypeOK
  <2>1. phase \in Phases /\ idleWorkers \in Nat /\ sendQueue \in Seq(Request)
    BY ConstantsAssumption DEF Init, Phases
  <2>2. item \in [Items -> ItemState]
    BY <1>1 DEF Init
  <2>3. op \in [Items \X Kinds -> OpStates] /\ told \in [Items -> ToldStates]
    BY DEF Init, OpStates, ToldStates
  <2> QED
    BY <2>1, <2>2, <2>3 DEF Init, TypeOK
<1>4. StopInv
  BY DEF Init, StopInv
<1> QED
  BY <1>2, <1>3, <1>4 DEF Init, IInv

LEMMA AcceptInv ==
  ASSUME IInv, NEW i \in Items, Accept(i)
  PROVE  IInv'
<1>1. /\ phase # "stopped" /\ phase' = phase /\ UNCHANGED <<item, op, told, queue>>
      /\ i \notin active /\ accepting = {} /\ accepting' = {i}
      /\ free' = free \ {i} /\ active' = active \cup {i} /\ SlotInv(i)
      /\ idleWorkers' = idleWorkers
      /\ phase \in {"starting", "running", "stopAccept"}
  BY DEF Accept, IInv, SlotInv
<1>2. /\ SlotInv(i)'
      /\ item \in [Items -> ItemState] /\ told \in [Items -> ToldStates]
  BY <1>1 DEF SlotInv, EmptySlot, IInv, TypeOK
<1>3. SlotStep(i) /\ OpStep(i)
  BY <1>1, <1>2 DEF SlotStep, OpStep, IInv, TypeOK
<1>4. RestStep
  BY <1>1 DEF RestStep, IInv, TypeOK, StopInv, queue
<1> QED
  BY <1>1, <1>3, <1>4, SlotStepInv

LEMMA AttachInv ==
  ASSUME IInv, NEW i \in Items, Attach(i)
  PROVE  IInv'
<1> DEFINE s == [item[i] EXCEPT !.bNotify = FALSE, !.bRecvIng = FALSE,
                                !.hSocket = TRUE, !.fresh = TRUE]
<1>1. /\ phase # "stopped" /\ phase' = phase /\ SlotInv(i) /\ TypeOK /\ StopInv
      /\ i \in active /\ i \notin accepting'
      /\ told[i] = "silent" /\ item[i].bNotify /\ EmptySlot(i)
      /\ accepting' = {} /\ UNCHANGED <<idleWorkers, queue>>
  BY DEF Attach, IInv, StopInv, SlotInv
<1>2. /\ item[i] \in ItemState /\ item[i].wRountID \in Nat
      /\ item[i].sends = << >>
  BY <1>1, NewItemType DEF EmptySlot, TypeOK, ItemState
<1>3. /\ s \in ItemState /\ ~s.bNotify /\ ~s.bRecvIng /\ s.hSocket
      /\ s.sends = << >> /\ s.wRountID = item[i].wRountID
  BY <1>2 DEF ItemState
<1>4. /\ TellAccept(told[i]) \in {"open", "unheard"}
      /\ phase = "starting" => TellAccept(told[i]) # "open"
  BY <1>1 DEF TellAccept, bService
<1>5. RecvData(i, s, TellAccept(told[i]), op)
  BY DEF Attach
<1> HIDE DEF s
<1>6. RecvPre(i, s, TellAccept(told[i]), op)
  BY <1>1, <1>3, <1>4 DEF RecvPre, EmptySlot, TypeOK, Kinds
<1>7. SlotStep(i) /\ OpStep(i)
  BY <1>1, <1>5, <1>6, RecvDataSlot
<1>8. RestStep
  BY <1>1 DEF RestStep, TypeOK, StopInv, queue
<1>9. \A j \in Items \ {i} : j \in accepting' <=> j \in accepting
  BY <1>1 DEF Attach, StopInv
<1> QED
  BY <1>1, <1>7, <1>8, <1>9, SlotStepInv

(* A step of the operation of a slot that keeps it outstanding. *)
LEMMA OperationStep ==
  ASSUME IInv, NEW i \in Items, NEW k \in Kinds, NEW v \in OpStates \ {"none", "clash"},
         op[<<i, k>>] # "none", op' = [op EXCEPT ![<<i, k>>] = v],
         UNCHANGED <<phase, item, pool, accepting, queue, told>>,
         idleWorkers' \in Nat, phase # "stopped"
  PROVE  IInv'
<1>1. /\ SlotInv(i) /\ TypeOK /\ StopInv
      /\ op' \in [Items \X Kinds -> OpStates]
      /\ op'[<<i, k>>] = v
      /\ \A c \in Items \X Kinds : c # <<i, k>> => op'[c] = op[c]
  BY DEF IInv, TypeOK
<1>2. \A l \in Kinds : /\ op'[<<i, l>>] = "none" <=> op[<<i, l>>] = "none"
                       /\ op[<<i, l>>] # "clash" => op'[<<i, l>>] # "clash"
  BY <1>1
<1>3. OpStep(i)
  BY <1>1 DEF OpStep
<1>4. SlotInv(i)'
  BY <1>1, <1>2 DEF SlotInv, EmptySlot, UsedSlot, pool, Kinds
<1>5. SlotStep(i)
  BY <1>1, <1>4 DEF SlotStep, TypeOK, pool
<1>6. RestStep
  BY <1>1, SameQueueRest
<1> QED
  BY <1>3, <1>5, <1>6, SlotStepInv

LEMMA CompleteInv ==
  ASSUME IInv, NEW i \in Items, NEW k \in Kinds, Complete(i, k)
  PROVE  IInv'
<1>1. PICK v \in {"completed", "failed"} : op' = [op EXCEPT ![<<i, k>>] = v]
  BY DEF Complete
<1>2. v \in OpStates \ {"none", "clash"} /\ op[<<i, k>>] # "none"
  BY DEF OpStates, Complete
<1>3. CASE phase # "stopped"
  BY <1>1, <1>2, <1>3, OperationStep DEF Complete, threads, IInv, TypeOK
<1>4. CASE phase = "stopped"
  <2>1. UNCHANGED <<phase, item, pool, threads, queue, told>>
    BY DEF Complete
  <2>2. op \in [Items \X Kinds -> OpStates] /\ op' \in [Items \X Kinds -> OpStates]
    BY <1>1, <1>2 DEF IInv, TypeOK
  <2>3. TypeOK'
    BY <2>1, <2>2 DEF IInv, TypeOK, pool, threads, queue
  <2>4. StoppedInv'
    BY <1>1, <1>4, <2>1, <2>2 DEF IInv, StoppedInv, pool
  <2>5. StopInv'
    BY <2>1 DEF IInv, StopInv, threads, queue
  <2> QED
    BY <1>4, <2>1, <2>3, <2>4, <2>5 DEF IInv
<1> QED
  BY <1>3, <1>4

LEMMA WorkerTakeInv ==
  ASSUME IInv, NEW i \in Items, NEW k \in Kinds, WorkerTake(i, k)
  PROVE  IInv'
<1>1. PICK v \in {"taken", "lost"} : op' = [op EXCEPT ![<<i, k>>] = v]
  BY DEF WorkerTake
<1>2. v \in OpStates \ {"none", "clash"} /\ op[<<i, k>>] # "none"
  BY DEF OpStates, WorkerTake
<1>3. idleWorkers' \in Nat
  BY DEF WorkerTake, IInv, TypeOK
<1> QED
  BY <1>1, <1>2, <1>3, OperationStep DEF WorkerTake

LEMMA WorkerHandleInv ==
  ASSUME IInv, NEW i \in Items, NEW k \in Kinds, WorkerHandle(i, k)
  PROVE  IInv'
<1> DEFINE o == [op EXCEPT ![<<i, k>>] = "none"]
<1>1. /\ phase # "stopped" /\ TypeOK /\ StopInv /\ SlotInv(i)
      /\ phase' = phase /\ accepting' = accepting
      /\ UNCHANGED <<phase, accepting, queue>>
  BY DEF WorkerHandle, IInv, StoppedInv
<1>2. TakenPre(i, k, o)
  BY <1>1 DEF TakenPre, WorkerHandle
<1>3. \/ k = "recv" /\ OnRecvCompleted(i, o)
      \/ k = "send" /\ OnSendCompleted(i, o)
  BY DEF WorkerHandle
<1>4. SlotStep(i) /\ OpStep(i)
  <2> HIDE DEF o
  <2> QED
    BY <1>1, <1>2, <1>3, OnRecvCompletedSlot, OnSendCompletedSlot
<1>5. RestStep
  <2>1. idleWorkers' \in Nat
    BY <1>1 DEF WorkerHandle, TypeOK
  <2> QED
    BY <1>1, <2>1, SameQueueRest
<1> QED
  BY <1>1, <1>4, <1>5, SlotStepInv

LEMMA EngineCloseSocketInv ==
  ASSUME IInv, NEW i \in Items, NEW round \in Nat, EngineCloseSocket(i, round)
  PROVE  IInv'
<1>1. /\ phase # "stopped" /\ TypeOK /\ StopInv /\ SlotInv(i)
      /\ UNCHANGED <<phase, accepting, queue>> /\ idleWorkers' \in Nat
      /\ UNCHANGED op /\ CloseSocket(i, item[i], told[i])
  BY DEF EngineCloseSocket, IInv, TypeOK, threads
<1>2. item[i] \in ItemState /\ item[i].wRountID \in Nat
  BY <1>1 DEF TypeOK, ItemState
<1>3. told[i] = "open" /\ ~item[i].bNotify
  BY <1>2 DEF EngineCloseSocket, Announced
<1>4. ClosePre(i, item[i], told[i])
  BY <1>1, <1>2, <1>3 DEF ClosePre, SlotInv, UsedSlot
<1>5. SlotStep(i) /\ OpStep(i)
  BY <1>1, <1>4, CloseSocketSlot DEF OpStep, TypeOK
<1>6. RestStep
  BY <1>1, SameQueueRest
<1> QED
  BY <1>1, <1>5, <1>6, SlotStepInv

LEMMA RequestFields ==
  ASSUME NEW r \in Request, r.type \in {"send", "safeClose", "allowBatch"}
  PROVE  r.i \in Items /\ r.round \in Nat
  BY DEF Request

LEMMA HandleSendInv == ASSUME IInv, HandleSend PROVE IInv'
<1> DEFINE r == Head(sendQueue)
<1>1. /\ TypeOK /\ StopInv /\ TakeRequest /\ r.type = "send"
      /\ SendData(r.i, r.round)
      /\ UNCHANGED <<phase, pool, threads, sender, temp, probe, told>>
  BY DEF HandleSend, IInv
<1>2. /\ sender' \in {"idle", "batch", "detect"} /\ temp' \subseteq Items
      /\ UNCHANGED <<phase, threads, probe>>
  BY <1>1 DEF TakeRequest, TypeOK
<1>3. RestStep /\ r \in Request /\ phase # "stopped"
  BY <1>1, <1>2, TakeRequestRest
<1> HIDE DEF r
<1>4. r.i \in Items /\ r.round \in Nat
  BY <1>1, <1>3, RequestFields
<1>5. UNCHANGED <<phase, accepting, pool, told>>
  BY <1>1 DEF threads
<1>6. SlotInv(r.i)
  BY <1>3, <1>4 DEF IInv
<1>7. SlotStep(r.i) /\ OpStep(r.i)
  BY <1>1, <1>4, <1>5, <1>6, SendDataSlot
<1> QED
  BY <1>3, <1>4, <1>5, <1>7, SlotStepInv

LEMMA HandleSafeCloseInv == ASSUME IInv, HandleSafeClose PROVE IInv'
<1>1. /\ TypeOK /\ StopInv /\ TakeRequest /\ UNCHANGED <<phase, threads, probe>>
      /\ UNCHANGED <<item, pool, op, told>> /\ accepting' = accepting
      /\ sender' \in {"idle", "batch", "detect"} /\ temp' \subseteq Items
  BY DEF HandleSafeClose, IInv, TypeOK, TakeRequest, threads
<1>2. RestStep /\ phase # "stopped"
  BY <1>1, TakeRequestRest
<1> QED
  BY <1>1, <1>2, SameSlotsInv

(* A change of a field that no other part of the state depends on. *)
LEMMA FieldStep ==
  ASSUME IInv, NEW i \in Items, NEW s, phase # "stopped", RestStep,
         s \in ItemState, ~item[i].bNotify, ~s.bNotify,
         s.hSocket = item[i].hSocket, s.wRountID = item[i].wRountID,
         s.bRecvIng = item[i].bRecvIng, s.ready = item[i].ready,
         s.sends = item[i].sends,
         item' = [item EXCEPT ![i] = s],
         UNCHANGED <<phase, pool, accepting, op, told>>
  PROVE  IInv'
<1>1. TypeOK /\ SlotInv(i) /\ item'[i] = s
  BY DEF IInv, TypeOK
<1>2. SlotInv(i)'
  BY <1>1 DEF SlotInv, UsedSlot, pool
<1>3. SlotStep(i) /\ OpStep(i)
  BY <1>1, <1>2 DEF SlotStep, OpStep, TypeOK, pool
<1> QED
  BY <1>3, SlotStepInv

LEMMA HandleAllowBatchInv == ASSUME IInv, HandleAllowBatch PROVE IInv'
<1> DEFINE r == Head(sendQueue)
<1>1. /\ TypeOK /\ StopInv /\ TakeRequest /\ UNCHANGED <<phase, threads, probe>>
      /\ UNCHANGED <<pool, op, told>> /\ accepting' = accepting
      /\ sender' \in {"idle", "batch", "detect"} /\ temp' \subseteq Items
      /\ r.type = "allowBatch"
  BY DEF HandleAllowBatch, IInv, TypeOK, TakeRequest, threads
<1>2. RestStep /\ r \in Request /\ phase # "stopped"
  BY <1>1, TakeRequestRest
<1>3. CASE UNCHANGED item
  BY <1>1, <1>2, <1>3, SameSlotsInv
<1>4. CASE /\ r.round = item[r.i].wRountID /\ item[r.i].hSocket
           /\ \E cbAllow \in BOOLEAN : item' = [item EXCEPT ![r.i].bAllowBatch = cbAllow]
  <2> HIDE DEF r
  <2> DEFINE i == r.i
  <2>1. i \in Items
    BY <1>1, <1>2, RequestFields
  <2> HIDE DEF i
  <2>2. item[i].hSocket /\ item[i] \in ItemState /\ SlotInv(i)
    BY <1>1, <1>2, <1>4, <2>1 DEF i, IInv, TypeOK
  <2>3. ~item[i].bNotify
    BY <2>2, NewItemType DEF SlotInv, EmptySlot, ItemState
  <2>4. PICK cbAllow \in BOOLEAN : item' = [item EXCEPT ![i].bAllowBatch = cbAllow]
    BY <1>4 DEF i
  <2> DEFINE s == [item[i] EXCEPT !.bAllowBatch = cbAllow]
  <2>5. /\ s \in ItemState /\ ~s.bNotify
        /\ s.hSocket = item[i].hSocket /\ s.wRountID = item[i].wRountID
        /\ s.bRecvIng = item[i].bRecvIng /\ s.ready = item[i].ready
        /\ s.sends = item[i].sends /\ item' = [item EXCEPT ![i] = s]
    BY <2>2, <2>3, <2>4 DEF ItemState
  <2> HIDE DEF s
  <2> QED
    BY <1>1, <1>2, <2>1, <2>3, <2>5, FieldStep
<1> QED
  BY <1>3, <1>4 DEF HandleAllowBatch

LEMMA CopyActiveInv ==
  ASSUME IInv, NEW type, NEW state \in {"batch", "detect"}, CopyActive(type, state)
  PROVE  IInv'
<1>1. /\ TypeOK /\ StopInv /\ TakeRequest /\ UNCHANGED <<phase, threads, probe>>
      /\ UNCHANGED <<item, pool, op, told>> /\ accepting' = accepting
      /\ sender' \in {"idle", "batch", "detect"} /\ temp' \subseteq Items
  BY DEF CopyActive, IInv, TypeOK, threads
<1>2. RestStep /\ phase # "stopped"
  BY <1>1, TakeRequestRest
<1> QED
  BY <1>1, <1>2, SameSlotsInv

(* A step of the start or stop sequence that leaves the slots alone. *)
LEMMA PhaseStep ==
  ASSUME IInv, UNCHANGED <<item, pool, op, told, accepting>>,
         phase # "stopped", phase' \notin {"starting", "stopped"},
         phase' = "running" => phase = "starting",
         TypeOK', StopInv'
  PROVE  IInv'
<1>1. ASSUME NEW i \in Items PROVE SlotInv(i)'
  <2>1. SlotInv(i)
    BY DEF IInv
  <2> QED
    BY <2>1 DEF SlotInv, EmptySlot, UsedSlot, pool
<1> QED
  BY <1>1 DEF IInv

LEMMA HandleQuitInv == ASSUME IInv, HandleQuit PROVE IInv'
<1>1. /\ TypeOK /\ StopInv /\ sendQueue \in Seq(Request) /\ sendQueue # << >>
      /\ sendQueue' = Tail(sendQueue) /\ phase' = "stopWorkers"
      /\ sender' = "stopped" /\ Head(sendQueue).type = "quit"
      /\ UNCHANGED <<item, pool, threads, op, temp, probe, told>>
  BY DEF HandleQuit, TakeRequest, IInv, TypeOK
<1>2. phase = "stopSender" /\ accepting = {}
  <2>1. 1 \in 1 .. Len(sendQueue) /\ sendQueue[1] = Head(sendQueue)
    BY <1>1
  <2> QED
    BY <1>1, <2>1 DEF StopInv, HandleQuit, TakeRequest
<1>3. TypeOK'
  BY <1>1 DEF TypeOK, Phases, pool, threads
<1>4. StopInv'
  BY <1>1, <1>2 DEF StopInv, threads
<1> QED
  BY <1>1, <1>2, <1>3, <1>4, PhaseStep DEF threads

LEMMA SendBatchItemInv ==
  ASSUME IInv, NEW i \in Items, SendBatchItem(i)
  PROVE  IInv'
<1>1. /\ TypeOK /\ StopInv /\ phase # "stopped" /\ SlotInv(i)
      /\ UNCHANGED <<phase, accepting, pool, told, sendQueue, probe>>
      /\ idleWorkers' \in Nat /\ temp' \subseteq Items
      /\ sender' \in {"idle", "batch", "detect"}
  BY DEF SendBatchItem, Visited, IInv, StopInv, TypeOK, threads
<1>2. RestStep
  BY <1>1 DEF RestStep, TypeOK, StopInv, SendBatchItem
<1>3. CASE UNCHANGED <<item, op>>
  BY <1>1, <1>2, <1>3, SameSlotsInv
<1>4. CASE SendData(i, item[i].wRountID)
  <2>1. item[i].wRountID \in Nat
    BY <1>1 DEF TypeOK, ItemState
  <2>2. SlotStep(i) /\ OpStep(i)
    BY <1>1, <1>4, <2>1, SendDataSlot
  <2> QED
    BY <1>1, <1>2, <2>2, SlotStepInv
<1> QED
  BY <1>3, <1>4 DEF SendBatchItem

LEMMA DetectReadTickInv ==
  ASSUME IInv, NEW i \in Items, DetectReadTick(i)
  PROVE  IInv'
<1>1. /\ TypeOK /\ StopInv /\ phase # "stopped" /\ SlotInv(i)
      /\ UNCHANGED <<phase, item, pool, threads, op, sendQueue, sender, temp, told>>
      /\ probe' = {<<i, ~item[i].fresh>>}
  BY DEF DetectReadTick, IInv, StopInv
<1>p. probe' \subseteq Items \X BOOLEAN
  <2> DEFINE old == ~item[i].fresh
  <2>1. old \in BOOLEAN /\ probe' = {<<i, old>>}
    BY <1>1
  <2> HIDE DEF old
  <2> QED
    BY <2>1
<1>2. RestStep
  BY <1>1, <1>p DEF RestStep, TypeOK, StopInv, threads
<1> QED
  BY <1>1, <1>2, SameSlotsInv DEF threads

(* The detect thread's pass may find a slot that lost its connection since *)
(* the list was copied: CloseSocket then only resets the slot once more.   *)
LEMMA CloseEmptySlot ==
  ASSUME TypeOK, NEW i \in Items, SlotInv(i), item[i].bNotify,
         UNCHANGED <<phase, accepting, op>>, CloseSocket(i, item[i], told[i])
  PROVE  SlotStep(i)
<1> DEFINE s == item[i]
           c == [s EXCEPT !.hSocket = FALSE]
<1>1. s \in ItemState /\ ~s.bRecvIng /\ s.sends = << >> /\ s.wRountID \in Nat
  BY NewItemType DEF SlotInv, EmptySlot, TypeOK, ItemState
<1>2. c.bNotify /\ c.wRountID = s.wRountID
  BY <1>1 DEF ItemState
<1>3. /\ item' = [item EXCEPT ![i] = NewItem(s.wRountID + 1)]
      /\ told' = [told EXCEPT ![i] = told[i]] /\ UNCHANGED pool
  BY <1>1, <1>2 DEF CloseSocket, OnCloseCompleted, ResetSocketData
<1>4. /\ NewItem(s.wRountID + 1) \in ItemState
      /\ NewItem(s.wRountID + 1).wRountID = s.wRountID + 1
      /\ NewItem(s.wRountID + 1).bNotify
  <2>1. s.wRountID + 1 \in Nat
    BY <1>1
  <2> QED
    BY <2>1, NewItemType
<1>5. /\ item' \in [Items -> ItemState] /\ item'[i] = NewItem(s.wRountID + 1)
      /\ \A j \in Items \ {i} : item'[j] = item[j]
  BY <1>3, <1>4 DEF TypeOK
<1>6. told' = told
  BY <1>3 DEF TypeOK
<1>7. EmptySlot(i)'
  BY <1>4, <1>5 DEF SlotInv, EmptySlot
<1>8. SlotInv(i)'
  BY <1>3, <1>4, <1>5, <1>6, <1>7 DEF SlotInv, pool
<1> QED
  BY <1>3, <1>5, <1>6, <1>8 DEF SlotStep, TypeOK, pool

LEMMA DetectItemInv ==
  ASSUME IInv, NEW i \in Items, DetectItem(i)
  PROVE  IInv'
<1>1. /\ TypeOK /\ StopInv /\ phase # "stopped" /\ SlotInv(i)
      /\ UNCHANGED <<phase, accepting, sendQueue>> /\ probe' = {}
      /\ idleWorkers' \in Nat /\ temp' \subseteq Items
      /\ sender' \in {"idle", "batch", "detect"}
  BY DEF DetectItem, Visited, IInv, StopInv, TypeOK, threads
<1>2. RestStep
  BY <1>1 DEF RestStep, TypeOK, StopInv, DetectItem
<1>3. item[i] \in ItemState /\ item[i].wRountID \in Nat
  BY <1>1 DEF TypeOK, ItemState
<1>4. CASE CloseSocket(i, item[i], told[i]) /\ UNCHANGED op
  <2>1. CASE item[i].bNotify
    <3>1. SlotStep(i)
      BY <1>1, <1>4, <2>1, CloseEmptySlot
    <3> QED
      BY <1>1, <1>2, <1>4, <3>1, SlotStepInv DEF OpStep, TypeOK
  <2>2. CASE ~item[i].bNotify
    <3>1. ClosePre(i, item[i], told[i])
      BY <1>1, <1>3, <1>4, <2>2 DEF ClosePre, SlotInv, UsedSlot
    <3>2. SlotStep(i)
      BY <1>1, <1>4, <3>1, CloseSocketSlot
    <3> QED
      BY <1>1, <1>2, <1>4, <3>2, SlotStepInv DEF OpStep, TypeOK
  <2> QED
    BY <1>3, <2>1, <2>2 DEF ItemState
<1>5. CASE SendData(i, item[i].wRountID) /\ UNCHANGED <<pool, told>>
  <2>1. SlotStep(i) /\ OpStep(i)
    BY <1>1, <1>3, <1>5, SendDataSlot
  <2> QED
    BY <1>1, <1>2, <2>1, SlotStepInv
<1>6. CASE UNCHANGED <<item, op, pool, told>>
  BY <1>1, <1>2, <1>6, SameSlotsInv
<1> QED
  BY <1>4, <1>5, <1>6 DEF DetectItem

LEMMA TickPassesInv ==
  ASSUME IInv, NEW i \in Items, TickPasses(i)
  PROVE  IInv'
<1>1. /\ TypeOK /\ StopInv /\ item[i] \in ItemState /\ item[i].fresh
      /\ UNCHANGED <<phase, pool, threads, op, queue, told>>
  BY DEF TickPasses, IInv, TypeOK
<1>2. phase # "stopped" /\ SlotInv(i)
  BY <1>1, NewItemType DEF IInv, StoppedInv, ItemState
<1>3. ~item[i].bNotify
  BY <1>1, <1>2, NewItemType DEF SlotInv, EmptySlot, ItemState
<1> DEFINE s == [item[i] EXCEPT !.fresh = FALSE]
<1>4. /\ s \in ItemState /\ ~s.bNotify
      /\ s.hSocket = item[i].hSocket /\ s.wRountID = item[i].wRountID
      /\ s.bRecvIng = item[i].bRecvIng /\ s.ready = item[i].ready
      /\ s.sends = item[i].sends /\ item' = [item EXCEPT ![i] = s]
  BY <1>1, <1>3 DEF ItemState, TickPasses
<1> HIDE DEF s
<1>5. RestStep
  BY <1>1, SameQueueRest DEF threads, TypeOK
<1> QED
  BY <1>1, <1>2, <1>3, <1>4, <1>5, FieldStep DEF threads

LEMMA ControlInv == ASSUME IInv, Control PROVE IInv'
<1>1. CASE StartServiceDone
  <2>1. /\ phase = "starting" /\ phase' = "running" /\ TypeOK /\ StopInv
        /\ UNCHANGED <<item, pool, threads, op, queue, told>>
    BY <1>1 DEF StartServiceDone, IInv
  <2>2. TypeOK' /\ StopInv'
    BY <2>1 DEF TypeOK, StopInv, Phases, pool, threads, queue
  <2> QED
    BY <2>1, <2>2, PhaseStep DEF threads
<1>2. CASE StopService
  <2>1. /\ phase = "running" /\ phase' = "stopAccept" /\ TypeOK /\ StopInv
        /\ UNCHANGED <<item, pool, threads, op, queue, told>>
    BY <1>2 DEF StopService, IInv
  <2>2. TypeOK' /\ StopInv'
    BY <2>1 DEF TypeOK, StopInv, Phases, pool, threads, queue
  <2> QED
    BY <2>1, <2>2, PhaseStep DEF threads
<1>3. CASE StopAcceptThread
  <2> DEFINE r == [type |-> "quit"]
  <2>1. /\ phase = "stopAccept" /\ phase' = "stopSender" /\ TypeOK /\ StopInv
        /\ accepting = {} /\ sendQueue' = Append(sendQueue, r)
        /\ UNCHANGED <<item, pool, threads, op, sender, temp, probe, told>>
    BY <1>3 DEF StopAcceptThread, IInv
  <2>2. r \in Request /\ sendQueue \in Seq(Request)
    BY <2>1 DEF Request, TypeOK
  <2> HIDE DEF r
  <2>3. sendQueue' \in Seq(Request)
    BY <2>1, <2>2, AppendEntry
  <2>4. TypeOK' /\ StopInv'
    BY <2>1, <2>3 DEF TypeOK, StopInv, Phases, pool, threads
  <2> QED
    BY <2>1, <2>4, PhaseStep DEF threads
<1>4. CASE StopConnections
  <2>1. /\ phase = "stopWorkers" /\ phase' = "stopped" /\ TypeOK /\ StopInv
        /\ free' = free \cup active /\ active' = {}
        /\ UNCHANGED <<threads, op, queue, told>>
        /\ \A i \in Items : SlotInv(i)
    BY <1>4 DEF StopConnections, IInv
  <2>2. ASSUME NEW i \in Items
        PROVE  \E round \in Nat : item'[i] = NewItem(round)
    <3>1. item[i] \in ItemState /\ item[i].wRountID \in Nat
      BY <2>1 DEF TypeOK, ItemState
    <3>2. /\ item[i].wRountID + 1 \in Nat
          /\ item[i].wRountID + 2 \in Nat
      BY <3>1
    <3>3. i \notin active => item[i] = NewItem(item[i].wRountID)
      BY <2>1 DEF SlotInv, EmptySlot
    <3> QED
      BY <1>4, <3>1, <3>2, <3>3 DEF StopConnections
  <2>3. ASSUME NEW i \in Items
        PROVE  item'[i] = NewItem(item'[i].wRountID) /\ item'[i] \in ItemState
    BY <2>2, NewItemType
  <2>4. TypeOK'
    <3>1. item' \in [Items -> ItemState]
      BY <1>4, <2>3 DEF StopConnections
    <3> QED
      BY <2>1, <3>1 DEF TypeOK, Phases, threads, queue
  <2>5. StopInv'
    BY <2>1 DEF StopInv, threads, queue
  <2>6. StoppedInv'
    <3>1. \A i \in Items, k \in Kinds : op[<<i, k>>] # "taken"
      BY <1>4, <2>1 DEF StopConnections, TypeOK
    <3> QED
      BY <2>1, <2>3, <3>1 DEF StoppedInv, SlotInv
  <2> QED
    BY <2>1, <2>4, <2>5, <2>6 DEF IInv
<1> QED
  BY <1>1, <1>2, <1>3, <1>4 DEF Control

LEMMA WorkerQuitInv == ASSUME IInv, WorkerQuit PROVE IInv'
<1>1. /\ TypeOK /\ StopInv /\ phase # "stopped"
      /\ UNCHANGED <<phase, item, pool, accepting, op, queue, told>>
      /\ idleWorkers' \in Nat
  BY DEF WorkerQuit, IInv, TypeOK
<1>2. RestStep
  BY <1>1, SameQueueRest
<1> QED
  BY <1>1, <1>2, SameSlotsInv

LEMMA PostInv ==
  ASSUME IInv, NEW i \in Items, NEW round \in Nat,
         \/ PostSendData(i, round)
         \/ PostShutDownSocket(i, round)
         \/ PostAllowBatchSend(i, round)
  PROVE  IInv'
<1>1. \A type \in {"send", "safeClose", "allowBatch"} :
        /\ ForConnection(type, i, round) \in Request
        /\ ForConnection(type, i, round).type # "quit"
  BY DEF ForConnection, Request
<1>2. \E type \in {"send", "safeClose", "allowBatch"} :
        AddToQueue(ForConnection(type, i, round))
  BY DEF PostSendData, PostShutDownSocket, PostAllowBatchSend
<1> HIDE DEF ForConnection
<1> QED
  BY <1>1, <1>2, AddToQueueInv

LEMMA PostAllInv ==
  ASSUME IInv, PostSendDataBatch \/ PostDetect
  PROVE  IInv'
<1>1. \A type \in {"sendAll", "detect"} :
        [type |-> type] \in Request /\ [type |-> type].type # "quit"
  BY DEF Request
<1>2. \E type \in {"sendAll", "detect"} : AddToQueue([type |-> type])
  BY DEF PostSendDataBatch, PostDetect
<1> QED
  BY <1>1, <1>2, AddToQueueInv

(* IInv holds in every reachable state, whatever the threads, the kernel   *)
(* and the callers of the engine do.                                       *)
THEOREM InductiveInvariant == Spec => []IInv
<1>1. Init => IInv
  BY InitInv
<1>2. IInv /\ [Next]_vars => IInv'
  <2> SUFFICES ASSUME IInv, [Next]_vars PROVE IInv'
    OBVIOUS
  <2>1. CASE AcceptThread
    BY <2>1, AcceptInv, AttachInv DEF AcceptThread
  <2>2. CASE Kernel
    BY <2>2, CompleteInv DEF Kernel
  <2>3. CASE Workers
    BY <2>3, WorkerTakeInv, WorkerHandleInv, WorkerQuitInv DEF Workers
  <2>4. CASE Callers
    <3>1. \A i \in Items : 0 .. item[i].wRountID \subseteq Nat
      OBVIOUS
    <3> QED
      BY <2>4, <3>1, PostInv, PostAllInv, EngineCloseSocketInv DEF Callers
  <2>5. CASE SendThread
    <3>1. CASE HandleSendAll \/ HandleDetect
      BY <3>1, CopyActiveInv DEF HandleSendAll, HandleDetect
    <3> QED
      BY <2>5, <3>1, HandleSendInv, HandleSafeCloseInv, HandleAllowBatchInv,
         HandleQuitInv, SendBatchItemInv, DetectReadTickInv, DetectItemInv
         DEF SendThread
  <2>6. CASE Control
    BY <2>6, ControlInv
  <2>7. CASE \E i \in Items : TickPasses(i)
    BY <2>7, TickPassesInv
  <2>8. CASE UNCHANGED vars
    <3>1. /\ UNCHANGED <<item, op, told, free, active, accepting, phase>>
          /\ UNCHANGED <<idleWorkers, sendQueue, sender, temp, probe>>
      BY <2>8 DEF vars
    <3>2. TypeOK' /\ StopInv'
      BY <3>1 DEF IInv, TypeOK, StopInv
    <3>3. ASSUME phase # "stopped", NEW i \in Items PROVE SlotInv(i)'
      <4>1. SlotInv(i)
        BY <3>3 DEF IInv
      <4> QED
        BY <3>1, <4>1 DEF SlotInv, EmptySlot, UsedSlot
    <3>4. (phase = "stopped" => StoppedInv)'
      BY <3>1 DEF IInv, StoppedInv
    <3> QED
      BY <3>1, <3>2, <3>3, <3>4 DEF IInv
  <2> QED
    BY <2>1, <2>2, <2>3, <2>4, <2>5, <2>6, <2>7, <2>8 DEF Next
<1> QED
  BY <1>1, <1>2, PTL DEF Spec

-----------------------------------------------------------------------------
(* What follows for the properties of SocketEngine. *)

(* Every variable keeps its type, the number of idle workers included. *)
THEOREM TypeCorrect == Spec => []TypeOK
<1>1. IInv => TypeOK
  BY DEF IInv
<1> QED
  BY <1>1, InductiveInvariant, PTL

(* Until StopService resets the slots, the flag of the receive and the     *)
(* list of sends of a slot tell which operations the kernel has, and no    *)
(* overlapped structure is used twice.                                     *)
THEOREM OperationsAlwaysMatch == Spec => []OperationsMatch
<1>1. IInv => OperationsMatch
  <2> SUFFICES ASSUME IInv PROVE OperationsMatch
    OBVIOUS
  <2> SUFFICES ASSUME phase # "stopped", NEW i \in Items
               PROVE  /\ (item[i].bRecvIng <=> Outstanding(i, "recv"))
                      /\ (item[i].sends # << >> <=> Outstanding(i, "send"))
                      /\ \A k \in Kinds : op[<<i, k>>] # "clash"
    BY Zenon DEF OperationsMatch
  <2>1. SlotInv(i) /\ item[i] \in ItemState
    BY DEF IInv, TypeOK
  <2>2. CASE ~item[i].bNotify
    BY <2>1, <2>2 DEF SlotInv, UsedSlot, Outstanding
  <2>3. CASE item[i].bNotify
    <3>1. EmptySlot(i) /\ ~item[i].bRecvIng /\ item[i].sends = << >>
      BY <2>1, <2>3, NewItemType DEF SlotInv, EmptySlot, ItemState
    <3> QED
      BY <3>1 DEF EmptySlot, Outstanding, Kinds
  <2> QED
    BY <2>2, <2>3
<1> QED
  BY <1>1, InductiveInvariant, PTL

(* A slot is given to a new connection only as ResetSocketData left it and *)
(* with no operation of the old connection outstanding.                    *)
THEOREM FreeSlotAlwaysClean == Spec => []FreeSlotIsClean
<1>1. IInv => FreeSlotIsClean
  <2> SUFFICES ASSUME IInv, phase # "stopped", NEW i \in free \cup accepting
               PROVE  EmptySlot(i)
    BY DEF FreeSlotIsClean, EmptySlot, Outstanding
  <2>1. i \in Items /\ SlotInv(i)
    BY DEF IInv, TypeOK
  <2> QED
    BY <2>1 DEF SlotInv
<1> QED
  BY <1>1, InductiveInvariant, PTL

(* A closed connection always has a completion to come, the one that frees *)
(* its slot.                                                               *)
THEOREM ClosingSlotAlwaysHasOperation == Spec => []ClosingSlotHasOperation
<1>1. IInv => ClosingSlotHasOperation
  BY DEF IInv, ClosingSlotHasOperation, SlotInv, UsedSlot, Outstanding, Kinds
<1> QED
  BY <1>1, InductiveInvariant, PTL

(* No packet addressed to an earlier connection of a slot, or sent before  *)
(* the client spoke, enters the send list.                                 *)
THEOREM SendsAlwaysBelong == Spec => []SendsBelongToConnection
<1>1. IInv => SendsBelongToConnection
  <2> SUFFICES ASSUME IInv PROVE SendsBelongToConnection
    OBVIOUS
  <2> SUFFICES ASSUME NEW i \in Items
               PROVE  /\ \A n \in DOMAIN item[i].sends :
                           item[i].sends[n] = item[i].wRountID
                      /\ (item[i].sends # << >> => item[i].ready /\ ~item[i].bNotify)
    BY Zenon DEF SendsBelongToConnection
  <2>1. item[i] \in ItemState
    BY DEF IInv, TypeOK
  <2>2. CASE item[i] = NewItem(item[i].wRountID)
    <3>1. item[i].sends = << >>
      BY <2>1, <2>2, NewItemType DEF ItemState
    <3> QED
      BY <3>1
  <2>3. CASE item[i] # NewItem(item[i].wRountID)
    BY <2>3 DEF IInv, StoppedInv, SlotInv, EmptySlot, UsedSlot
  <2> QED
    BY <2>2, <2>3
<1> QED
  BY <1>1, InductiveInvariant, PTL

(* The attemper sees accept, reads and close of each slot in this order;   *)
(* of what it sees as open the slot has the connection, and of the others  *)
(* the slot has, those accepted before the service flag, it sees nothing.  *)
THEOREM EventsKeepProtocol == Spec => []EventProtocol
<1>1. IInv => EventProtocol
  <2> SUFFICES ASSUME IInv PROVE EventProtocol
    OBVIOUS
  <2> SUFFICES ASSUME NEW i \in Items
               PROVE  /\ told[i] # "broken"
                      /\ (phase \in {"starting", "running"} =>
                            (told[i] = "open" => ~item[i].bNotify))
                      /\ (~item[i].bNotify => told[i] \in {"open", "unheard"})
    BY Zenon DEF EventProtocol
  <2>1. item[i] \in ItemState /\ item[i].wRountID \in Nat
    BY DEF IInv, TypeOK, ItemState
  <2>2. CASE phase = "stopped"
    BY <2>1, <2>2, NewItemType DEF IInv, StoppedInv
  <2>3. CASE phase # "stopped"
    BY <2>3 DEF IInv, SlotInv, UsedSlot
  <2> QED
    BY <2>2, <2>3
<1> QED
  BY <1>1, InductiveInvariant, PTL

(* No slot is both free and in use, and none has a connection outside the  *)
(* active list or while the accept thread still holds it.                  *)
THEOREM SlotsAlwaysOwned == Spec => []SlotOwnership
<1>1. IInv => SlotOwnership
  <2> SUFFICES ASSUME IInv PROVE SlotOwnership
    OBVIOUS
  <2>1. CASE phase = "stopped"
    BY <2>1 DEF IInv, StoppedInv, StopInv, SlotOwnership
  <2>2. CASE phase # "stopped"
    BY <2>2 DEF IInv, SlotInv, UsedSlot, SlotOwnership, TypeOK
  <2> QED
    BY <2>1, <2>2
<1> QED
  BY <1>1, InductiveInvariant, PTL

-----------------------------------------------------------------------------
(* NoLeakInService: a step that leaves a slot without a connection takes   *)
(* it off the active list, and no step touches another slot's place.       *)

NotLeaked(i) ==
  /\ ~(item'[i].bNotify /\ i \in active')
  /\ \A j \in Items \ {i} : item'[j] = item[j]
  /\ active' \subseteq active

LEMMA CloseNotLeaked ==
  ASSUME TypeOK, bService, NEW i \in Items, i \in active,
         NEW s \in ItemState, NEW t, ~s.bNotify, CloseSocket(i, s, t)
  PROVE  NotLeaked(i)
<1> DEFINE c == [s EXCEPT !.hSocket = FALSE]
<1>1. c \in ItemState /\ ~c.bNotify /\ DOMAIN item = Items
  BY DEF ItemState, TypeOK
<1> HIDE DEF c
<1>2. CASE ~s.bRecvIng /\ s.sends = << >>
  <2>1. item' = [item EXCEPT ![i] = ResetSocketData(c)] /\ OnSocketCloseEvent(i, t)
    BY <1>1, <1>2 DEF CloseSocket, OnCloseCompleted, c
  <2> QED
    BY <1>1, <2>1 DEF OnSocketCloseEvent, NotLeaked
<1>3. CASE ~(~s.bRecvIng /\ s.sends = << >>)
  <2>1. item' = [item EXCEPT ![i] = c] /\ active' = active
    BY <1>3 DEF CloseSocket, pool, c
  <2> QED
    BY <1>1, <2>1 DEF NotLeaked
<1> QED
  BY <1>2, <1>3

LEMMA RecvNotLeaked ==
  ASSUME TypeOK, bService, NEW i \in Items, i \in active,
         NEW s \in ItemState, NEW t, NEW o, ~s.bNotify, RecvData(i, s, t, o)
  PROVE  NotLeaked(i)
<1>1. \A b \in BOOLEAN : LET r == [s EXCEPT !.bRecvIng = b]
                         IN r \in ItemState /\ ~r.bNotify
  BY DEF ItemState
<1>2. CASE item' = [item EXCEPT ![i] = [s EXCEPT !.bRecvIng = TRUE]] /\ UNCHANGED pool
  BY <1>1, <1>2 DEF NotLeaked, TypeOK, pool
<1>3. CASE CloseSocket(i, [s EXCEPT !.bRecvIng = FALSE], t)
  BY <1>1, <1>3, CloseNotLeaked
<1> QED
  BY <1>2, <1>3 DEF RecvData

LEMMA RecvCompletedNotLeaked ==
  ASSUME TypeOK, bService, NEW i \in Items, i \in active, ~item[i].bNotify,
         NEW o, OnRecvCompleted(i, o)
  PROVE  NotLeaked(i)
<1> DEFINE s == [item[i] EXCEPT !.bRecvIng = FALSE, !.fresh = TRUE]
<1>1. s \in ItemState /\ ~s.bNotify
  BY DEF TypeOK, ItemState
<1> HIDE DEF s
<1>2. \A counted \in BOOLEAN : LET r == [s EXCEPT !.ready = @ \/ counted]
                               IN r \in ItemState /\ ~r.bNotify
  BY <1>1 DEF ItemState
<1>3. \/ CloseSocket(i, s, told[i])
      \/ \E counted \in BOOLEAN : \E t :
           LET r == [s EXCEPT !.ready = @ \/ counted]
           IN CloseSocket(i, r, t) \/ RecvData(i, r, t, o)
  BY DEF OnRecvCompleted, s
<1> QED
  BY <1>1, <1>2, <1>3, CloseNotLeaked, RecvNotLeaked

LEMMA SendCompletedNotLeaked ==
  ASSUME TypeOK, bService, NEW i \in Items, i \in active, ~item[i].bNotify,
         item[i].sends # << >>, NEW o, OnSendCompleted(i, o)
  PROVE  NotLeaked(i)
<1> DEFINE s    == [item[i] EXCEPT !.sends = Tail(@)]
           none == [s EXCEPT !.sends = << >>]
<1>t. item[i] \in ItemState /\ Tail(item[i].sends) \in Seq(Nat)
  BY DEF TypeOK, ItemState
<1>1. s \in ItemState /\ ~s.bNotify
  BY <1>t DEF ItemState
<1> HIDE DEF s
<1>2. none \in ItemState /\ ~none.bNotify
  <2>1. << >> \in Seq(Nat)
    OBVIOUS
  <2> QED
    BY <1>1, <2>1 DEF ItemState
<1>3. \/ CloseSocket(i, none, told[i])
      \/ item' = [item EXCEPT ![i] = s] /\ UNCHANGED pool
  BY DEF OnSendCompleted, s
<1> HIDE DEF none
<1>4. CASE CloseSocket(i, none, told[i])
  BY <1>2, <1>4, CloseNotLeaked
<1>5. CASE item' = [item EXCEPT ![i] = s] /\ UNCHANGED pool
  BY <1>1, <1>5 DEF NotLeaked, TypeOK, pool
<1> QED
  BY <1>3, <1>4, <1>5

LEMMA NotLeakedKept ==
  ASSUME TypeOK, NEW i \in Items, NotLeaked(i), accepting \subseteq accepting' \cup {i}
  PROVE  LeakedSlots' \subseteq LeakedSlots
  BY DEF NotLeaked, LeakedSlots, TypeOK

LEMMA SameNotifyKept ==
  ASSUME TypeOK, \A j \in Items : item'[j].bNotify => item[j].bNotify,
         active' = active, accepting' = accepting
  PROVE  LeakedSlots' \subseteq LeakedSlots
  BY DEF LeakedSlots, TypeOK

LEMMA SendDataNotify ==
  ASSUME TypeOK, NEW i \in Items, NEW round \in Nat, SendData(i, round)
  PROVE  \A j \in Items : item'[j].bNotify => item[j].bNotify
<1>1. CASE item' = [item EXCEPT ![i].sends = Append(@, round)]
  BY <1>1 DEF TypeOK, ItemState
<1>2. CASE UNCHANGED item
  BY <1>2
<1> QED
  BY <1>1, <1>2 DEF SendData

LEMMA CloseLockedKept ==
  ASSUME TypeOK, bService, NEW i \in Items, SlotInv(i), accepting' = accepting,
         CloseSocket(i, item[i], told[i])
  PROVE  LeakedSlots' \subseteq LeakedSlots
<1> DEFINE c == [item[i] EXCEPT !.hSocket = FALSE]
<1>1. item[i] \in ItemState
  BY DEF TypeOK
<1>2. CASE ~item[i].bNotify
  BY <1>1, <1>2, CloseNotLeaked, NotLeakedKept DEF SlotInv, UsedSlot
<1>3. CASE item[i].bNotify
  <2>1. c.bNotify
    BY <1>1, <1>3 DEF ItemState
  <2> HIDE DEF c
  <2>2. active' = active /\ \A j \in Items \ {i} : item'[j] = item[j]
    BY <2>1 DEF CloseSocket, OnCloseCompleted, pool, TypeOK, c
  <2> QED
    BY <1>3, <2>2, SameNotifyKept
<1> QED
  BY <1>2, <1>3

LEMMA StepKeepsLeaked ==
  ASSUME IInv, Next, bService, bService'
  PROVE  LeakedSlots' \subseteq LeakedSlots
<1>1. /\ TypeOK /\ phase # "stopped" /\ StopInv
      /\ \A i \in Items : SlotInv(i) /\ item[i] \in ItemState
  BY DEF IInv, TypeOK, bService
<1>2. ASSUME NEW i \in Items, Accept(i) PROVE LeakedSlots' \subseteq LeakedSlots
  BY <1>2 DEF Accept, LeakedSlots
<1>3. ASSUME NEW i \in Items, Attach(i) PROVE LeakedSlots' \subseteq LeakedSlots
  <2> DEFINE s == [item[i] EXCEPT !.bNotify = FALSE, !.bRecvIng = FALSE,
                                  !.hSocket = TRUE, !.fresh = TRUE]
  <2>1. s \in ItemState /\ ~s.bNotify
    BY <1>1 DEF ItemState
  <2>2. RecvData(i, s, TellAccept(told[i]), op)
    BY <1>3 DEF Attach
  <2>3. i \in active /\ accepting \subseteq {i}
    BY <1>1, <1>3 DEF Attach, SlotInv, StopInv, TypeOK
  <2> HIDE DEF s
  <2> QED
    BY <1>1, <2>1, <2>2, <2>3, RecvNotLeaked, NotLeakedKept
<1>4. ASSUME NEW i \in Items, NEW k \in Kinds, WorkerHandle(i, k)
      PROVE  LeakedSlots' \subseteq LeakedSlots
  <2>1. ~item[i].bNotify /\ UsedSlot(i) /\ accepting' = accepting
    BY <1>1, <1>4 DEF WorkerHandle, SlotInv, EmptySlot
  <2>2. i \in active /\ (k = "send" => item[i].sends # << >>)
    BY <1>4, <2>1 DEF WorkerHandle, UsedSlot
  <2> DEFINE o == [op EXCEPT ![<<i, k>>] = "none"]
  <2>3. \/ k = "recv" /\ OnRecvCompleted(i, o)
        \/ k = "send" /\ OnSendCompleted(i, o)
    BY <1>4 DEF WorkerHandle
  <2> HIDE DEF o
  <2>4. NotLeaked(i)
    BY <1>1, <2>1, <2>2, <2>3, RecvCompletedNotLeaked, SendCompletedNotLeaked
  <2> QED
    BY <1>1, <2>1, <2>4, NotLeakedKept
<1>5. ASSUME NEW i \in Items, EngineCloseSocket(i, item[i].wRountID)
      PROVE  LeakedSlots' \subseteq LeakedSlots
  BY <1>1, <1>5, CloseLockedKept DEF EngineCloseSocket, threads
<1>6. CASE HandleSend
  <2>1. /\ Head(sendQueue) \in Request /\ Head(sendQueue).type = "send"
        /\ SendData(Head(sendQueue).i, Head(sendQueue).round)
        /\ active' = active /\ accepting' = accepting
    BY <1>1, <1>6 DEF HandleSend, TakeRequest, TypeOK, pool, threads
  <2>2. Head(sendQueue).i \in Items /\ Head(sendQueue).round \in Nat
    BY <2>1, RequestFields
  <2> QED
    BY <1>1, <2>1, <2>2, SendDataNotify, SameNotifyKept
<1>7. CASE HandleAllowBatch
  <2>1. active' = active /\ accepting' = accepting
    BY <1>7 DEF HandleAllowBatch, pool, threads
  <2>2. \/ UNCHANGED item
        \/ \E cbAllow \in BOOLEAN :
             item' = [item EXCEPT ![Head(sendQueue).i].bAllowBatch = cbAllow]
    BY <1>7 DEF HandleAllowBatch
  <2>3. ASSUME NEW j \in Items PROVE item'[j].bNotify => item[j].bNotify
    <3>1. item[j] \in ItemState /\ DOMAIN item = Items
      BY <1>1 DEF TypeOK
    <3>2. CASE UNCHANGED item
      BY <3>2
    <3>3. ASSUME NEW cbAllow \in BOOLEAN,
                 item' = [item EXCEPT ![Head(sendQueue).i].bAllowBatch = cbAllow]
          PROVE  item'[j].bNotify = item[j].bNotify
      BY <3>1, <3>3 DEF ItemState
    <3> QED
      BY <2>2, <3>2, <3>3
  <2> QED
    BY <1>1, <2>1, <2>3, SameNotifyKept
<1>8. ASSUME NEW i \in Items, SendBatchItem(i) PROVE LeakedSlots' \subseteq LeakedSlots
  <2>1. active' = active /\ accepting' = accepting
    BY <1>8 DEF SendBatchItem, pool, threads
  <2>2. SendData(i, item[i].wRountID) \/ UNCHANGED item
    BY <1>8 DEF SendBatchItem
  <2>3. item[i].wRountID \in Nat
    BY <1>1 DEF ItemState
  <2> QED
    BY <1>1, <2>1, <2>2, <2>3, SendDataNotify, SameNotifyKept
<1>9. ASSUME NEW i \in Items, DetectItem(i) PROVE LeakedSlots' \subseteq LeakedSlots
  <2>1. accepting' = accepting
    BY <1>9 DEF DetectItem, threads
  <2>2. CASE CloseSocket(i, item[i], told[i])
    BY <1>1, <2>1, <2>2, CloseLockedKept
  <2>3. CASE active' = active /\ (SendData(i, item[i].wRountID) \/ UNCHANGED item)
    <3>1. item[i].wRountID \in Nat
      BY <1>1 DEF ItemState
    <3> QED
      BY <1>1, <2>1, <2>3, <3>1, SendDataNotify, SameNotifyKept
  <2> QED
    BY <1>9, <2>2, <2>3 DEF DetectItem, pool
<1>10. ASSUME NEW i \in Items, TickPasses(i) PROVE LeakedSlots' \subseteq LeakedSlots
  <2>1. \A j \in Items : item'[j].bNotify => item[j].bNotify
    BY <1>1, <1>10 DEF TickPasses, TypeOK, ItemState
  <2> QED
    BY <1>1, <1>10, <2>1, SameNotifyKept DEF TickPasses, pool, threads
<1>11. CASE UNCHANGED <<item, active, accepting>>
  BY <1>1, <1>11, SameNotifyKept
<1>12. CASE AcceptThread
  BY <1>2, <1>3, <1>12 DEF AcceptThread
<1>13. CASE Kernel
  BY <1>11, <1>13 DEF Kernel, Complete, pool, threads
<1>14. CASE Workers
  BY <1>4, <1>11, <1>14 DEF Workers, WorkerTake, WorkerQuit, pool
<1>15. CASE Callers
  <2>1. ASSUME NEW request, AddToQueue(request)
        PROVE  UNCHANGED <<item, active, accepting>>
    BY <2>1 DEF AddToQueue, pool, threads
  <2>2. \/ \E request : AddToQueue(request)
        \/ \E i \in Items, round \in Nat : EngineCloseSocket(i, round)
    BY <1>15 DEF Callers, PostSendData, PostSendDataBatch, PostShutDownSocket,
       PostAllowBatchSend, PostDetect
  <2>3. ASSUME NEW i \in Items, NEW round, EngineCloseSocket(i, round)
        PROVE  round = item[i].wRountID
    BY <2>3 DEF EngineCloseSocket
  <2> QED
    BY <1>5, <1>11, <2>1, <2>2, <2>3
<1>16. CASE SendThread
  <2>1. CASE HandleSafeClose \/ HandleSendAll \/ HandleDetect \/ HandleQuit
    BY <1>11, <2>1 DEF HandleSafeClose, HandleSendAll, HandleDetect, HandleQuit,
       CopyActive, pool, threads
  <2>2. ASSUME NEW i \in Items, DetectReadTick(i)
        PROVE  UNCHANGED <<item, active, accepting>>
    BY <2>2 DEF DetectReadTick, pool, threads
  <2> QED
    BY <1>6, <1>7, <1>8, <1>9, <1>11, <1>16, <2>1, <2>2 DEF SendThread
<1>17. CASE Control
  BY <1>17 DEF Control, StartServiceDone, StopService, StopAcceptThread,
     StopConnections, bService
<1>18. CASE \E i \in Items : TickPasses(i)
  BY <1>10, <1>18
<1> QED
  BY <1>12, <1>13, <1>14, <1>15, <1>16, <1>17, <1>18 DEF Next

(* While the service runs, whatever its threads and callers do, a slot     *)
(* whose connection ended is back in the free list with the same step:     *)
(* no slot is lost to later connections.                                   *)
THEOREM NoLeakWhileInService == Spec => NoLeakInService
<1>1. ASSUME IInv, [Next]_vars
      PROVE  [bService /\ bService' => LeakedSlots' \subseteq LeakedSlots]_vars
  BY <1>1, StepKeepsLeaked
<1> QED
  BY <1>1, InductiveInvariant, PTL DEF Spec, NoLeakInService

-----------------------------------------------------------------------------
(* The engine implements Connections.  First what each function makes of   *)
(* the slot it works on, as Connections sees it.                           *)

OpsOf(i, o) == {k \in Kinds : o[<<i, k>>] # "none"}

Image(use, round, ready, ops, packets, heard) ==
  [use |-> use, round |-> round, ready |-> ready, ops |-> ops,
   packets |-> packets, heard |-> heard]

LEMMA ImageUse ==
  ASSUME NEW use, NEW round, NEW ready, NEW ops, NEW packets, NEW heard, NEW x
  PROVE  [Image(use, round, ready, ops, packets, heard) EXCEPT !.use = x]
           = Image(x, round, ready, ops, packets, heard)
  BY DEF Image

LEMMA ImageRound ==
  ASSUME NEW use, NEW round, NEW ready, NEW ops, NEW packets, NEW heard, NEW x
  PROVE  [Image(use, round, ready, ops, packets, heard) EXCEPT !.round = x]
           = Image(use, x, ready, ops, packets, heard)
  BY DEF Image

LEMMA ImageReady ==
  ASSUME NEW use, NEW round, NEW ready, NEW ops, NEW packets, NEW heard, NEW x
  PROVE  [Image(use, round, ready, ops, packets, heard) EXCEPT !.ready = x]
           = Image(use, round, x, ops, packets, heard)
  BY DEF Image

LEMMA ImageOps ==
  ASSUME NEW use, NEW round, NEW ready, NEW ops, NEW packets, NEW heard, NEW x
  PROVE  [Image(use, round, ready, ops, packets, heard) EXCEPT !.ops = x]
           = Image(use, round, ready, x, packets, heard)
  BY DEF Image

LEMMA ImagePackets ==
  ASSUME NEW use, NEW round, NEW ready, NEW ops, NEW packets, NEW heard, NEW x
  PROVE  [Image(use, round, ready, ops, packets, heard) EXCEPT !.packets = x]
           = Image(use, round, ready, ops, x, heard)
  BY DEF Image

LEMMA ImageHeard ==
  ASSUME NEW use, NEW round, NEW ready, NEW ops, NEW packets, NEW heard, NEW x
  PROVE  [Image(use, round, ready, ops, packets, heard) EXCEPT !.heard = x]
           = Image(use, round, ready, ops, packets, x)
  BY DEF Image

(* The two fields that opening a connection, and a send, change at once.   *)
WithUseHeard(v, x, y) == [v EXCEPT !.use = x, !.heard = y]

WithPacketsOps(v, x, y) == [v EXCEPT !.packets = x, !.ops = y]

LEMMA ImageOpened ==
  ASSUME NEW use, NEW round, NEW ready, NEW ops, NEW packets, NEW heard, NEW x, NEW y
  PROVE  WithUseHeard(Image(use, round, ready, ops, packets, heard), x, y)
           = Image(x, round, ready, ops, packets, y)
<1> DEFINE a == Image(use, round, ready, ops, packets, heard)
<1>1. [a EXCEPT !.use = x] = Image(x, round, ready, ops, packets, heard)
  BY ImageUse
<1>2. [Image(x, round, ready, ops, packets, heard) EXCEPT !.heard = y]
        = Image(x, round, ready, ops, packets, y)
  BY ImageHeard
<1>3. [a EXCEPT !.use = x, !.heard = y] = [[a EXCEPT !.use = x] EXCEPT !.heard = y]
  <2> HIDE DEF a
  <2> QED
    OBVIOUS
<1> QED
  BY <1>1, <1>2, <1>3, Zenon DEF WithUseHeard

LEMMA ImageSent ==
  ASSUME NEW use, NEW round, NEW ready, NEW ops, NEW packets, NEW heard, NEW x, NEW y
  PROVE  WithPacketsOps(Image(use, round, ready, ops, packets, heard), x, y)
           = Image(use, round, ready, y, x, heard)
<1> DEFINE a == Image(use, round, ready, ops, packets, heard)
<1>1. [a EXCEPT !.packets = x] = Image(use, round, ready, ops, x, heard)
  BY ImagePackets
<1>2. [Image(use, round, ready, ops, x, heard) EXCEPT !.ops = y]
        = Image(use, round, ready, y, x, heard)
  BY ImageOps
<1>3. [a EXCEPT !.packets = x, !.ops = y] = [[a EXCEPT !.packets = x] EXCEPT !.ops = y]
  <2> HIDE DEF a
  <2> QED
    OBVIOUS
<1> QED
  BY <1>1, <1>2, <1>3, Zenon DEF WithPacketsOps

LEMMA OperationsAre ==
  ASSUME NEW i \in Items, phase # "stopped", phase' = phase
  PROVE  Operations(i) = OpsOf(i, op) /\ Operations(i)' = OpsOf(i, op')
  BY DEF Operations, OpsOf

LEMMA SlotImage ==
  ASSUME NEW i \in Items
  PROVE  Slot(i) = Image(Use(i), item[i].wRountID, item[i].hSocket /\ item[i].ready,
                         Operations(i), item[i].sends, told[i])
  BY DEF Slot, Image

LEMMA ServingIs == Slots!Serving <=> bService
  BY DEF Slots!Serving, Stage, bService

LEMMA CloseSocketMaps ==
  ASSUME TypeOK, NEW i \in Items, NEW s, NEW t, NEW use, NEW ready,
         SlotInv(i), phase' = phase, phase # "stopped",
         ClosePre(i, s, t), CloseSocket(i, s, t)
  PROVE  Slot(i)' = Slots!Shut(Image(use, s.wRountID, ready, OpsOf(i, op'), s.sends, t))
<1> DEFINE c == [s EXCEPT !.hSocket = FALSE]
           ops == OpsOf(i, op')
           v == Image(use, s.wRountID, ready, ops, s.sends, t)
<1>1. /\ c \in ItemState /\ ~c.bNotify /\ ~c.hSocket
      /\ c.bRecvIng = s.bRecvIng /\ c.sends = s.sends /\ c.wRountID = s.wRountID
  BY DEF ClosePre, ItemState
<1>r. s.wRountID \in Nat /\ s.wRountID + 1 \in Nat
  BY DEF ClosePre, ItemState
<1>2. ops = {} <=> ~s.bRecvIng /\ s.sends = << >>
  BY DEF OpsOf, Kinds, ClosePre
<1>3. Operations(i)' = ops
  BY OperationsAre
<1>4. v.ops = ops /\ v.round = s.wRountID /\ v.heard = t
  BY DEF Image
<1>5. CASE ~s.bRecvIng /\ s.sends = << >>
  <2>1. item' = [item EXCEPT ![i] = NewItem(s.wRountID + 1)] /\ OnSocketCloseEvent(i, t)
    BY <1>1, <1>5 DEF CloseSocket, OnCloseCompleted, ResetSocketData
  <2>2. item'[i] = NewItem(s.wRountID + 1) /\ item'[i].bNotify
    BY <1>r, <2>1, NewItemType DEF TypeOK
  <2>3. Slot(i)' = Slots!Vacant(Use(i)', s.wRountID + 1, told'[i])
    <3> DEFINE n == s.wRountID + 1
    <3>1. n \in Nat /\ item'[i] = NewItem(n) /\ Operations(i)' = {}
      BY <1>r, <1>2, <1>3, <1>5, <2>2
    <3> HIDE DEF n
    <3>2. /\ item'[i].wRountID = n /\ ~item'[i].hSocket /\ item'[i].sends = << >>
      BY <3>1, NewItemType
    <3>3. Slot(i)' = Slots!Vacant(Use(i)', n, told'[i])
      BY <3>1, <3>2 DEF Slot, Slots!Vacant
    <3> QED
      BY <3>3 DEF n
  <2>4. CASE bService
    <3>1. i \in free' /\ told'[i] = "silent" /\ i \notin accepting'
      BY <2>1, <2>4 DEF OnSocketCloseEvent, TellClose, ClosePre, TypeOK
    <3>2. Use(i)' = "free"
      BY <2>2, <3>1 DEF Use
    <3> QED
      BY <1>2, <1>4, <1>5, <2>3, <2>4, <3>1, <3>2, ServingIs DEF Slots!Shut, Slots!Ended
  <2>5. CASE ~bService
    <3>1. UNCHANGED pool /\ told'[i] = t
      BY <2>1, <2>5 DEF OnSocketCloseEvent, TellClose, TypeOK
    <3>2. Use(i)' = "aside"
      BY <2>2, <3>1 DEF Use, pool, ClosePre, SlotInv
    <3> QED
      BY <1>2, <1>4, <1>5, <2>3, <2>5, <3>1, <3>2, ServingIs DEF Slots!Shut, Slots!Ended
  <2> QED
    BY <2>4, <2>5
<1>6. CASE ~(~s.bRecvIng /\ s.sends = << >>)
  <2>1. item'[i] = c /\ told'[i] = t
    BY <1>6 DEF CloseSocket, TypeOK
  <2>2. Use(i)' = "closing"
    BY <1>1, <2>1 DEF Use
  <2>3. Slot(i)' = Image("closing", s.wRountID, FALSE, ops, s.sends, t)
    <3> HIDE DEF c, ops
    <3> QED
      BY <1>1, <1>3, <2>1, <2>2 DEF Slot, Image
  <2>4. Slots!Shut(v) = [v EXCEPT !.use = "closing", !.ready = FALSE]
    BY <1>2, <1>4, <1>6 DEF Slots!Shut
  <2> QED
    BY <2>3, <2>4 DEF Image
<1> QED
  BY <1>5, <1>6

LEMMA RecvDataMaps ==
  ASSUME TypeOK, NEW i \in Items, NEW s, NEW t, NEW o, NEW use, NEW ready,
         SlotInv(i), phase' = phase, phase # "stopped",
         RecvPre(i, s, t, o), RecvData(i, s, t, o)
  PROVE  \/ Slot(i)' = Image("open", s.wRountID, s.ready, OpsOf(i, o) \cup {"recv"},
                            s.sends, t)
         \/ Slot(i)' = Slots!Shut(Image(use, s.wRountID, ready, OpsOf(i, o), s.sends, t))
<1> DEFINE r == [s EXCEPT !.bRecvIng = TRUE]
           f == [s EXCEPT !.bRecvIng = FALSE]
<1>1. CASE /\ item' = [item EXCEPT ![i] = r]
           /\ op' = Issue(o, <<i, "recv">>)
           /\ told' = [told EXCEPT ![i] = t]
  <2>1. /\ ~r.bNotify /\ r.hSocket /\ r.ready = s.ready /\ s.ready \in BOOLEAN
        /\ r.sends = s.sends /\ r.wRountID = s.wRountID
    BY DEF RecvPre, ItemState
  <2>2. item'[i] = r /\ told'[i] = t
    BY <1>1 DEF TypeOK
  <2>3. /\ "recv" \in Kinds /\ o \in [Items \X Kinds -> OpStates]
        /\ o[<<i, "recv">>] = "none"
    BY DEF Kinds, RecvPre
  <2>4. /\ op'[<<i, "recv">>] = "issued"
        /\ \A k \in Kinds : k # "recv" => op'[<<i, k>>] = o[<<i, k>>]
    <3>1. op' = Issue(o, <<i, "recv">>)
      BY <1>1
    <3>2. /\ op'[<<i, "recv">>] = "issued"
          /\ \A c \in Items \X Kinds : c # <<i, "recv">> => op'[c] = o[c]
      BY <2>3, <3>1, IssueFacts
    <3> QED
      BY <3>2
  <2>5. Operations(i)' = OpsOf(i, o) \cup {"recv"}
    BY <2>3, <2>4, OperationsAre DEF OpsOf
  <2> HIDE DEF r
  <2>6. Use(i)' = "open"
    BY <2>1, <2>2 DEF Use
  <2>7. (item'[i].hSocket /\ item'[i].ready) = s.ready
    BY <2>1, <2>2
  <2> QED
    BY <2>1, <2>2, <2>5, <2>6, <2>7 DEF Slot, Image
<1>2. CASE op' = o /\ CloseSocket(i, f, t)
  <2>1. /\ f \in ItemState /\ ~f.bNotify /\ ~f.bRecvIng
        /\ f.sends = s.sends /\ f.ready = s.ready /\ f.wRountID = s.wRountID
    BY DEF RecvPre, ItemState
  <2> HIDE DEF f
  <2>2. ClosePre(i, f, t)
    BY <1>2, <2>1 DEF ClosePre, RecvPre, Kinds
  <2>3. Slot(i)' = Slots!Shut(Image(use, f.wRountID, ready, OpsOf(i, op'), f.sends, t))
    BY <1>2, <2>2, CloseSocketMaps
  <2> QED
    BY <1>2, <2>1, <2>3
<1> QED
  BY <1>1, <1>2 DEF RecvData

LEMMA StepOnlySlot ==
  ASSUME NEW i \in Items, SlotStep(i), OpStep(i),
         \A j \in Items \ {i} : j \in accepting' <=> j \in accepting
  PROVE  OnlySlot(i)
  BY DEF SlotStep, OpStep, OnlySlot

(* A step of one slot.                                                     *)
LEMMA SlotBecomes ==
  ASSUME NEW i \in Items, OnlySlot(i), phase' = phase, NEW s, Slot(i)' = s
  PROVE  Slots!Becomes(i, s)
<1>1. ASSUME NEW j \in Items \ {i} PROVE Slot(j)' = Slot(j)
  BY <1>1 DEF OnlySlot, Slot, Use, Operations
<1>2. Stage' = Stage
  BY DEF Stage
<1> QED
  BY <1>1, <1>2 DEF Slots!Becomes

LEMMA AttachMaps ==
  ASSUME IInv, NEW i \in Items, Attach(i)
  PROVE  Slots!Open(i)
<1> DEFINE s == [item[i] EXCEPT !.bNotify = FALSE, !.bRecvIng = FALSE,
                                !.hSocket = TRUE, !.fresh = TRUE]
           t == TellAccept(told[i])
           v == [Slot(i) EXCEPT !.use = "open",
                                !.heard = IF Slots!Serving THEN "open" ELSE "unheard"]
<1>1. /\ phase # "stopped" /\ phase' = phase /\ SlotInv(i) /\ TypeOK
      /\ i \in active /\ i \notin accepting' /\ i \in accepting
      /\ told[i] = "silent" /\ item[i].bNotify /\ EmptySlot(i)
  BY DEF Attach, IInv, StopInv, SlotInv
<1>2. /\ item[i] \in ItemState /\ item[i].wRountID \in Nat
      /\ item[i].sends = << >> /\ ~item[i].hSocket /\ ~item[i].ready
  BY <1>1, NewItemType DEF EmptySlot, TypeOK, ItemState
<1>3. /\ s \in ItemState /\ ~s.bNotify /\ ~s.bRecvIng /\ s.hSocket
      /\ s.sends = << >> /\ s.wRountID = item[i].wRountID /\ s.ready = FALSE
  BY <1>2 DEF ItemState
<1>4. /\ t \in {"open", "unheard"}
      /\ phase = "starting" => t # "open"
      /\ t = IF Slots!Serving THEN "open" ELSE "unheard"
  BY <1>1, ServingIs DEF TellAccept, bService
<1>5. RecvData(i, s, t, op)
  BY DEF Attach
<1> HIDE DEF s, t
<1>6. RecvPre(i, s, t, op)
  BY <1>1, <1>3, <1>4 DEF RecvPre, EmptySlot, TypeOK, Kinds
<1> DEFINE ops == OpsOf(i, op)
           recv == {"recv"}
<1>o. OnlySlot(i)
  <2>1. SlotStep(i) /\ OpStep(i)
    BY <1>1, <1>5, <1>6, RecvDataSlot
  <2>2. \A j \in Items \ {i} : j \in accepting' <=> j \in accepting
    BY <1>1 DEF Attach, IInv, StopInv
  <2> QED
    BY <2>1, <2>2, StepOnlySlot
<1>7. ops = {} /\ ops \cup {"recv"} = recv
  BY <1>1 DEF OpsOf, EmptySlot
<1>8. \/ Slot(i)' = Image("open", s.wRountID, s.ready, ops \cup {"recv"}, s.sends, t)
      \/ Slot(i)' = Slots!Shut(Image("open", s.wRountID, s.ready, ops, s.sends, t))
  BY <1>1, <1>5, <1>6, RecvDataMaps
<1>9. Slot(i) = Image("held", s.wRountID, s.ready, ops, s.sends, "silent")
  <2>1. Use(i) = "held"
    BY <1>1 DEF Use
  <2>2. Operations(i) = ops
    BY <1>1, OperationsAre
  <2>3. (item[i].hSocket /\ item[i].ready) = s.ready
    BY <1>2, <1>3
  <2> QED
    BY <1>1, <1>2, <1>3, <2>1, <2>2, <2>3 DEF Slot, Image
<1> HIDE DEF ops, recv
<1>10. v = Image("open", s.wRountID, s.ready, ops, s.sends, t)
  <2>1. v = WithUseHeard(Slot(i), "open", t)
    BY <1>4 DEF WithUseHeard
  <2> HIDE DEF v
  <2> QED
    BY <1>9, <2>1, ImageOpened
<1>11. Slot(i).use = "held"
  BY <1>9 DEF Image
<1> HIDE DEF v
<1>12. [v EXCEPT !.ops = recv] = Image("open", s.wRountID, s.ready, recv, s.sends, t)
  BY <1>10, ImageOps
<1>13. Slots!Becomes(i, [v EXCEPT !.ops = recv]) \/ Slots!Becomes(i, Slots!Shut(v))
  BY <1>1, <1>o, <1>7, <1>8, <1>10, <1>12, SlotBecomes
<1> QED
  BY <1>11, <1>13 DEF Slots!Open, v, recv

(* The operations a completion leaves.                                     *)
LEMMA TakenOps ==
  ASSUME TypeOK, NEW i \in Items, NEW k \in Kinds, NEW o, TakenPre(i, k, o)
  PROVE  /\ k \in OpsOf(i, op)
         /\ OpsOf(i, o) = OpsOf(i, op) \ {k}
<1>1. /\ op[<<i, k>>] = "taken" /\ o[<<i, k>>] = "none"
      /\ \A l \in Kinds : l # k => o[<<i, l>>] = op[<<i, l>>]
  <2>1. /\ o[<<i, k>>] = "none"
        /\ \A c \in Items \X Kinds : c # <<i, k>> => o[c] = op[c]
    BY TakenFacts
  <2> QED
    BY <2>1 DEF TakenPre
<1> QED
  BY <1>1 DEF OpsOf

LEMMA OnRecvCompletedMaps ==
  ASSUME TypeOK, NEW i \in Items, NEW o, TakenPre(i, "recv", o), OnRecvCompleted(i, o),
         phase # "stopped", OnlySlot(i)
  PROVE  Slots!Receive(i) \/ Slot(i)' = Slot(i)
<1> DEFINE s == [item[i] EXCEPT !.bRecvIng = FALSE, !.fresh = TRUE]
           r(counted) == [s EXCEPT !.ready = @ \/ counted]
           t(read) == IF read THEN TellRead(told[i]) ELSE told[i]
           ready == item[i].hSocket /\ item[i].ready
           rest == OpsOf(i, op) \ {"recv"}
<1>1. /\ ~item[i].bNotify /\ UsedSlot(i) /\ i \notin accepting'
      /\ o \in [Items \X Kinds -> OpStates]
      /\ o[<<i, "recv">>] = "none"
      /\ \A c \in Items \X Kinds : c # <<i, "recv">> => o[c] = op[c]
      /\ phase = "starting" => told[i] # "open"
  BY TakenFacts DEF Kinds
<1>2. /\ o[<<i, "send">>] = op[<<i, "send">>]
      /\ \A j \in Items \ {i} : \A k \in Kinds : o[<<j, k>>] = op[<<j, k>>]
  BY <1>1 DEF Kinds
<1>3. SlotInv(i) /\ phase' = phase
  BY DEF TakenPre
<1>4. told[i] \in {"open", "unheard"}
  BY <1>1 DEF UsedSlot
<1>5. "recv" \in OpsOf(i, op) /\ OpsOf(i, o) = rest
  BY TakenOps DEF Kinds
<1>6. Slot(i) = Image(Use(i), item[i].wRountID, ready, OpsOf(i, op), item[i].sends, told[i])
  BY <1>3, SlotImage, OperationsAre
<1>r. ASSUME NEW counted \in BOOLEAN
      PROVE  /\ r(counted) \in ItemState /\ ~r(counted).bNotify /\ ~r(counted).bRecvIng
             /\ r(counted).hSocket = item[i].hSocket
             /\ r(counted).sends = item[i].sends
             /\ r(counted).wRountID = item[i].wRountID
             /\ r(counted).ready = (item[i].ready \/ counted)
  BY <1>1 DEF TypeOK, ItemState
<1>t. /\ \A read \in BOOLEAN : t(read) = told[i]
      /\ s.hSocket = item[i].hSocket /\ s = r(FALSE)
  BY <1>4 DEF TellRead, TypeOK, ItemState
<1>7. \/ op' = o /\ CloseSocket(i, s, told[i])
      \/ /\ s.hSocket
         /\ \E counted, read, bad \in BOOLEAN :
              /\ read => counted
              /\ IF bad THEN op' = o /\ CloseSocket(i, r(counted), t(read))
                        ELSE RecvData(i, r(counted), t(read), o)
  BY PTL DEF OnRecvCompleted
<1> HIDE DEF rest, s, r, t
<1>8. ASSUME Slot(i)' = Slots!Shut(Image(Use(i), item[i].wRountID, ready, rest,
                                         item[i].sends, told[i]))
      PROVE  Slots!Receive(i)
  <2>1. "recv" \in Slot(i).ops
    BY <1>5, <1>6 DEF Image
  <2>2. [Slot(i) EXCEPT !.ops = rest]
          = Image(Use(i), item[i].wRountID, ready, rest, item[i].sends, told[i])
    BY <1>6 DEF Image
  <2>3. [Slot(i) EXCEPT !.ops = @ \ {"recv"}] = [Slot(i) EXCEPT !.ops = rest]
    <3>1. Slot(i).ops \ {"recv"} = rest
      BY <1>6 DEF rest, Image
    <3> QED
      BY <3>1
  <2>4. Slots!Becomes(i, Slots!Shut([Slot(i) EXCEPT !.ops = @ \ {"recv"}]))
    BY <1>3, <1>8, <2>2, <2>3, SlotBecomes
  <2> QED
    BY <2>1, <2>4 DEF Slots!Receive
<1>9. ASSUME NEW counted \in BOOLEAN, op' = o, CloseSocket(i, r(counted), told[i])
      PROVE  Slots!Receive(i)
  <2> DEFINE f == r(counted)
  <2>1. /\ f \in ItemState /\ ~f.bNotify /\ ~f.bRecvIng
        /\ f.sends = item[i].sends /\ f.wRountID = item[i].wRountID
        /\ f.ready = (item[i].ready \/ counted)
    BY <1>r
  <2>2. CloseSocket(i, f, told[i])
    BY <1>9
  <2> HIDE DEF f
  <2>3. ClosePre(i, f, told[i])
    BY <1>1, <1>2, <1>4, <1>9, <2>1 DEF ClosePre, UsedSlot, Kinds
  <2>4. Slot(i)' = Slots!Shut(Image(Use(i), f.wRountID, ready, OpsOf(i, op'), f.sends,
                                    told[i]))
    BY <1>3, <2>2, <2>3, CloseSocketMaps
  <2> QED
    BY <1>5, <1>8, <1>9, <2>1, <2>4
<1>10. ASSUME NEW counted \in BOOLEAN, item[i].hSocket, RecvData(i, r(counted), told[i], o)
       PROVE  Slots!Receive(i) \/ Slot(i)' = Slot(i)
  <2> DEFINE f == r(counted)
  <2>1. /\ f \in ItemState /\ ~f.bNotify /\ ~f.bRecvIng /\ f.hSocket
        /\ f.sends = item[i].sends /\ f.wRountID = item[i].wRountID
        /\ f.ready = (item[i].ready \/ counted)
    BY <1>r, <1>10
  <2>2. RecvData(i, f, told[i], o)
    BY <1>10
  <2> HIDE DEF f
  <2>3. RecvPre(i, f, told[i], o)
    BY <1>1, <1>2, <1>4, <2>1 DEF RecvPre, UsedSlot, Kinds
  <2>4. \/ Slot(i)' = Image("open", item[i].wRountID, f.ready, OpsOf(i, op),
                            item[i].sends, told[i])
        \/ Slot(i)' = Slots!Shut(Image(Use(i), item[i].wRountID, ready, rest,
                                       item[i].sends, told[i]))
    <3>1. rest \cup {"recv"} = OpsOf(i, op)
      BY <1>5 DEF rest
    <3>2. \/ Slot(i)' = Image("open", f.wRountID, f.ready, rest \cup {"recv"},
                              f.sends, told[i])
          \/ Slot(i)' = Slots!Shut(Image(Use(i), f.wRountID, ready, rest, f.sends, told[i]))
      BY <1>3, <1>5, <2>2, <2>3, RecvDataMaps
    <3> QED
      BY <2>1, <3>1, <3>2
  <2>5. CASE Slot(i)' = Image("open", item[i].wRountID, f.ready, OpsOf(i, op),
                              item[i].sends, told[i])
    <3>1. Use(i) = "open"
      BY <1>1, <1>10 DEF Use
    <3>2. CASE f.ready = TRUE
      <4> DEFINE h == Image("open", item[i].wRountID, ready, OpsOf(i, op),
                            item[i].sends, told[i])
                 yes == f.ready
      <4>0. Slot(i) = h /\ yes = TRUE
        BY <1>6, <3>1, <3>2
      <4>1. Slot(i)' = [Slot(i) EXCEPT !.ready = TRUE]
        <5> HIDE DEF ready, yes
        <5>1. [h EXCEPT !.ready = yes] = Image("open", item[i].wRountID, yes, OpsOf(i, op),
                                               item[i].sends, told[i])
          BY ImageReady
        <5>2. Slot(i)' = [h EXCEPT !.ready = yes]
          BY <2>5, <5>1 DEF yes
        <5> HIDE DEF h
        <5>3. [Slot(i) EXCEPT !.ready = TRUE] = [h EXCEPT !.ready = yes]
          BY <4>0
        <5> QED
          BY <5>2, <5>3
      <4>2. Slot(i).use = "open" /\ "recv" \in Slot(i).ops
        BY <1>5, <1>6, <3>1 DEF Image
      <4>3. Slots!Becomes(i, [Slot(i) EXCEPT !.ready = TRUE])
        BY <1>3, <4>1, SlotBecomes
      <4> QED
        BY <4>2, <4>3 DEF Slots!Receive
    <3>3. CASE f.ready = FALSE
      <4>1. ready = FALSE
        BY <2>1, <3>3
      <4> HIDE DEF ready
      <4> QED
        BY <1>6, <2>5, <3>1, <3>3, <4>1
    <3>4. f.ready \in BOOLEAN
      BY <2>1 DEF ItemState
    <3> QED
      BY <3>2, <3>3, <3>4
  <2> QED
    BY <1>8, <2>4, <2>5
<1> QED
  BY <1>7, <1>9, <1>10, <1>t

LEMMA OnSendCompletedMaps ==
  ASSUME TypeOK, NEW i \in Items, NEW o, TakenPre(i, "send", o), OnSendCompleted(i, o),
         phase # "stopped", OnlySlot(i)
  PROVE  Slots!Sent(i)
<1> DEFINE s     == Popped(i)
           none  == Emptied(i)
           round == item[i].wRountID
           ready == item[i].hSocket /\ item[i].ready
           ops   == OpsOf(i, op)
           rest  == Tail(item[i].sends)
           left  == IF rest = << >> THEN ops \ {"send"} ELSE ops
           empty == << >>
<1>1. /\ ~item[i].bNotify /\ UsedSlot(i) /\ i \notin accepting'
      /\ o \in [Items \X Kinds -> OpStates]
      /\ o[<<i, "send">>] = "none"
      /\ \A c \in Items \X Kinds : c # <<i, "send">> => o[c] = op[c]
      /\ phase = "starting" => told[i] # "open"
  BY TakenFacts DEF Kinds
<1>2. /\ o[<<i, "recv">>] = op[<<i, "recv">>]
      /\ \A j \in Items \ {i} : \A k \in Kinds : o[<<j, k>>] = op[<<j, k>>]
  BY <1>1 DEF Kinds
<1>3. SlotInv(i) /\ phase' = phase
  BY DEF TakenPre
<1>4. told[i] \in {"open", "unheard"}
  BY <1>1 DEF UsedSlot
<1>5. "send" \in ops /\ OpsOf(i, o) = ops \ {"send"}
  BY TakenOps DEF Kinds
<1>6. Slot(i) = Image(Use(i), round, ready, ops, item[i].sends, told[i])
  BY <1>3, SlotImage, OperationsAre
<1>7. item[i].sends # << >>
  BY <1>1 DEF UsedSlot, TakenPre
<1>8. /\ s \in ItemState /\ ~s.bNotify /\ s.hSocket = item[i].hSocket
      /\ s.ready = item[i].ready /\ s.wRountID = round /\ s.sends = rest
      /\ none \in ItemState /\ ~none.bNotify /\ none.bRecvIng = item[i].bRecvIng
      /\ none.ready = item[i].ready /\ none.wRountID = round /\ none.sends = empty
  BY <1>1, <1>7, PoppedFacts
<1>9. /\ "send" \in Slot(i).ops /\ Slot(i).ops = ops
      /\ Slot(i).packets = item[i].sends /\ Slot(i).use = Use(i)
  BY <1>5, <1>6 DEF Image
<1>10. Use(i) = IF item[i].hSocket THEN "open" ELSE "closing"
  BY <1>1 DEF Use
<1>11. \/ ~s.hSocket /\ op' = o /\ CloseSocket(i, none, told[i])
       \/ s.sends # << >> /\ op' = o /\ CloseSocket(i, none, told[i])
       \/ /\ s.hSocket /\ item' = [item EXCEPT ![i] = s] /\ UNCHANGED told
          /\ op' = IF s.sends # << >> THEN Issue(o, <<i, "send">>) ELSE o
  BY DEF OnSendCompleted, Popped, Emptied
<1> HIDE DEF s, none, rest, ops, ready, round, left, empty
<1>12. ASSUME op' = o, CloseSocket(i, none, told[i]),
              ~item[i].hSocket \/ rest # << >>
       PROVE  Slots!Sent(i)
  <2>1. ClosePre(i, none, told[i])
    BY <1>1, <1>2, <1>4, <1>8, <1>12 DEF ClosePre, UsedSlot, Kinds, empty
  <2>2. Slot(i)' = Slots!Shut(Image(Use(i), round, ready, ops \ {"send"}, empty, told[i]))
    <3>1. Slot(i)' = Slots!Shut(Image(Use(i), none.wRountID, ready, OpsOf(i, op'),
                                      none.sends, told[i]))
      BY <1>3, <1>12, <2>1, CloseSocketMaps
    <3> QED
      BY <1>5, <1>8, <1>12, <3>1
  <2>3. WithPacketsOps(Slot(i), empty, ops \ {"send"})
          = Image(Use(i), round, ready, ops \ {"send"}, empty, told[i])
    BY <1>6, ImageSent
  <2>4. Slots!Becomes(i, Slots!Shut(WithPacketsOps(Slot(i), empty, ops \ {"send"})))
    BY <1>3, <2>2, <2>3, SlotBecomes
  <2> QED
    BY <1>9, <1>10, <1>12, <2>4 DEF Slots!Sent, WithPacketsOps, empty, rest
<1>13. ASSUME s.hSocket, item' = [item EXCEPT ![i] = s], UNCHANGED told,
              op' = IF s.sends # << >> THEN Issue(o, <<i, "send">>) ELSE o
       PROVE  Slots!Sent(i)
  <2>1. item'[i] = s /\ told'[i] = told[i]
    BY <1>13 DEF TypeOK
  <2>2. Operations(i)' = left
    <3> "send" \in Kinds
      BY DEF Kinds
    <3>1. CASE rest # << >>
      <4>1. op' = Issue(o, <<i, "send">>)
        BY <1>8, <1>13, <3>1
      <4>2. /\ op'[<<i, "send">>] = "issued"
            /\ \A c \in Items \X Kinds : c # <<i, "send">> => op'[c] = o[c]
        BY <1>1, <4>1, IssueFacts
      <4>3. OpsOf(i, op') = ops
        BY <1>5, <4>2 DEF OpsOf, ops
      <4> QED
        BY <1>3, <3>1, <4>3, OperationsAre DEF left
    <3>2. CASE rest = << >>
      BY <1>3, <1>5, <1>8, <1>13, <3>2, OperationsAre DEF left
    <3> QED
      BY <3>1, <3>2
  <2>3. Use(i)' = "open" /\ Use(i) = "open"
    BY <1>8, <1>10, <1>13, <2>1 DEF Use
  <2>4. (item'[i].hSocket /\ item'[i].ready) = ready
    BY <1>8, <2>1 DEF ready
  <2>5. Slot(i)' = Image(Use(i), round, ready, left, rest, told[i])
    BY <1>8, <2>1, <2>2, <2>3, <2>4 DEF Slot, Image
  <2>6. WithPacketsOps(Slot(i), rest, left)
          = Image(Use(i), round, ready, left, rest, told[i])
    BY <1>6, ImageSent
  <2>7. Slots!Becomes(i, WithPacketsOps(Slot(i), rest, left))
    BY <1>3, <2>5, <2>6, SlotBecomes
  <2> QED
    BY <1>9, <2>3, <2>7 DEF Slots!Sent, WithPacketsOps, left, rest
<1> QED
  BY <1>8, <1>11, <1>12, <1>13

LEMMA SendDataMaps ==
  ASSUME TypeOK, NEW i \in Items, NEW round \in Nat, SlotInv(i), phase # "stopped",
         UNCHANGED <<phase, pool, told>>, SendData(i, round), OnlySlot(i)
  PROVE  Slots!Send(i) \/ UNCHANGED <<item, op>>
<1> DEFINE s     == [item[i] EXCEPT !.sends = Append(@, round)]
           ready == item[i].hSocket /\ item[i].ready
           ops   == OpsOf(i, op)
           more  == Append(item[i].sends, round)
<1>1. SUFFICES ASSUME round = item[i].wRountID, item[i].ready, item[i].hSocket,
                      item' = [item EXCEPT ![i] = s],
                      op' = IF item[i].sends = << >> THEN Issue(op, <<i, "send">>) ELSE op
               PROVE  Slots!Send(i)
  BY DEF SendData
<1>2. ~item[i].bNotify /\ UsedSlot(i)
  <2>1. item[i] \in ItemState
    BY DEF TypeOK
  <2>2. item[i].bNotify => ~item[i].hSocket
    BY <2>1, NewItemType DEF SlotInv, EmptySlot, ItemState
  <2> QED
    BY <1>1, <2>2 DEF SlotInv
<1>3. /\ ~s.bNotify /\ s.hSocket = item[i].hSocket /\ s.ready = item[i].ready
      /\ s.wRountID = round /\ s.sends = more /\ item'[i] = s
  BY <1>1, <1>2 DEF TypeOK, ItemState
<1>4. Slot(i) = Image(Use(i), round, ready, ops, item[i].sends, told[i])
  BY <1>1, SlotImage, OperationsAre
<1>5. Use(i) = "open" /\ ready = TRUE
  BY <1>1, <1>2 DEF Use
<1> HIDE DEF ready, ops
<1>6. /\ Slot(i).use = "open" /\ Slot(i).ready = TRUE /\ Slot(i).ops = ops
      /\ Slot(i).packets = item[i].sends /\ Slot(i).round = round
  BY <1>4, <1>5 DEF Image
<1> HIDE DEF s
<1>7. Operations(i)' = ops \cup {"send"}
  <2> USE DEF ops
  <2> "send" \in Kinds
    BY DEF Kinds
  <2>1. CASE item[i].sends = << >>
    <3>1. op' = Issue(op, <<i, "send">>) /\ op[<<i, "send">>] = "none"
      BY <1>1, <1>2, <2>1 DEF UsedSlot
    <3>2. op \in [Items \X Kinds -> OpStates]
      BY DEF TypeOK
    <3>3. /\ op'[<<i, "send">>] = "issued"
          /\ \A c \in Items \X Kinds : c # <<i, "send">> => op'[c] = op[c]
      BY <3>1, <3>2, IssueFacts
    <3> QED
      BY <3>3, OperationsAre DEF OpsOf
  <2>2. CASE item[i].sends # << >>
    BY <1>1, <1>2, <2>2, OperationsAre DEF OpsOf, UsedSlot
  <2> QED
    BY <2>1, <2>2
<1>8. Use(i)' = "open" /\ (item'[i].hSocket /\ item'[i].ready) = ready
  BY <1>1, <1>2, <1>3 DEF Use, ready
<1> HIDE DEF more
<1>9. Slot(i)' = Image(Use(i), round, ready, ops \cup {"send"}, more, told[i])
  BY <1>3, <1>5, <1>7, <1>8 DEF Slot, Image
<1>10. WithPacketsOps(Slot(i), more, ops \cup {"send"})
         = Image(Use(i), round, ready, ops \cup {"send"}, more, told[i])
  BY <1>4, ImageSent
<1>11. Slots!Becomes(i, WithPacketsOps(Slot(i), more, ops \cup {"send"}))
  BY <1>9, <1>10, SlotBecomes
<1> QED
  BY <1>6, <1>11 DEF Slots!Send, WithPacketsOps, more

(* The close of a slot that has no connection only skips a number, and the *)
(* close of one that is closing already waits as the first did.            *)
LEMMA CloseMaps ==
  ASSUME TypeOK, NEW i \in Items, SlotInv(i), phase # "stopped",
         UNCHANGED <<phase, accepting, op>>,
         CloseSocket(i, item[i], told[i]), OnlySlot(i)
  PROVE  Slots!Close(i) \/ Slots!Renumber(i) \/ Slot(i)' = Slot(i)
<1> DEFINE s     == item[i]
           c     == [s EXCEPT !.hSocket = FALSE]
           ready == s.hSocket /\ s.ready
           ops   == OpsOf(i, op)
<1>1. s \in ItemState /\ s.wRountID \in Nat /\ s.bNotify \in BOOLEAN
  BY DEF TypeOK, ItemState
<1>2. Slot(i) = Image(Use(i), s.wRountID, ready, ops, s.sends, told[i])
  BY SlotImage, OperationsAre
<1>3. CASE s.bNotify
  <2> DEFINE n == s.wRountID + 1
  <2>1. ~s.bRecvIng /\ s.sends = << >> /\ ~s.hSocket
    BY <1>1, <1>3, NewItemType DEF SlotInv, EmptySlot
  <2>2. c.bNotify /\ c.wRountID = s.wRountID
    BY <1>1, <1>3 DEF ItemState
  <2>3. /\ item' = [item EXCEPT ![i] = NewItem(n)]
        /\ told' = [told EXCEPT ![i] = told[i]] /\ UNCHANGED pool
    BY <2>1, <2>2 DEF CloseSocket, OnCloseCompleted, ResetSocketData
  <2>4. n \in Nat
    BY <1>1
  <2> HIDE DEF n
  <2>5. /\ item'[i].wRountID = n /\ item'[i].bNotify /\ ~item'[i].hSocket
        /\ item'[i].sends = << >> /\ told'[i] = told[i]
    BY <2>3, <2>4, NewItemType DEF TypeOK
  <2>6. Use(i)' = Use(i) /\ Use(i) \notin {"open", "closing"}
    BY <1>3, <2>3, <2>5 DEF Use, pool
  <2>7. (item'[i].hSocket /\ item'[i].ready) = ready /\ Operations(i)' = ops
    BY <2>1, <2>5, OperationsAre
  <2> HIDE DEF ready, ops
  <2>8. Slot(i)' = Image(Use(i), n, ready, ops, s.sends, told[i])
    BY <2>1, <2>5, <2>6, <2>7 DEF Slot, Image
  <2>9. [Slot(i) EXCEPT !.round = n] = Image(Use(i), n, ready, ops, s.sends, told[i])
    BY <1>2, ImageRound
  <2>10. Slots!Becomes(i, [Slot(i) EXCEPT !.round = n])
    BY <2>8, <2>9, SlotBecomes
  <2>11. Slot(i).round = s.wRountID /\ Slot(i).use = Use(i)
    BY <1>2 DEF Image
  <2> QED
    BY <2>6, <2>10, <2>11 DEF Slots!Renumber, n
<1>4. CASE ~s.bNotify /\ s.hSocket
  <2>1. ClosePre(i, s, told[i])
    BY <1>1, <1>4 DEF ClosePre, SlotInv, UsedSlot
  <2> HIDE DEF ready
  <2>2. Slot(i)' = Slots!Shut(Image(Use(i), s.wRountID, ready, OpsOf(i, op'), s.sends,
                                    told[i]))
    BY <2>1, CloseSocketMaps
  <2>3. Slots!Becomes(i, Slots!Shut(Slot(i)))
    BY <1>2, <2>2, SlotBecomes
  <2>4. Slot(i).use = "open"
    BY <1>4 DEF Slot, Use
  <2> QED
    BY <2>3, <2>4 DEF Slots!Close
<1>5. CASE ~s.bNotify /\ ~s.hSocket
  <2>1. s.bRecvIng \/ s.sends # << >>
    BY <1>5 DEF SlotInv, UsedSlot
  <2>2. /\ item' = [item EXCEPT ![i] = c]
        /\ told' = [told EXCEPT ![i] = told[i]] /\ UNCHANGED pool
    BY <2>1 DEF CloseSocket
  <2>3. c = s
    BY <1>1, <1>5 DEF ItemState
  <2>4. item'[i] = item[i] /\ told'[i] = told[i]
    BY <2>2, <2>3 DEF TypeOK
  <2>5. Operations(i)' = Operations(i)
    BY OperationsAre
  <2> QED
    BY <2>2, <2>4, <2>5 DEF Slot, Use, pool
<1> QED
  BY <1>1, <1>3, <1>4, <1>5

LEMMA AcceptMaps ==
  ASSUME IInv, NEW i \in Items, Accept(i)
  PROVE  Slots!Take(i)
<1>1. /\ phase # "stopped" /\ phase' = phase /\ UNCHANGED <<item, op, told>>
      /\ i \notin active /\ accepting = {} /\ accepting' = {i}
      /\ free' = free \ {i} /\ active' = active \cup {i} /\ SlotInv(i)
      /\ phase \in {"starting", "running", "stopAccept"}
      /\ i \in free \/ free = {}
  BY DEF Accept, IInv, SlotInv
<1>2. item[i].bNotify
  BY <1>1 DEF SlotInv
<1>3. \A j \in Items : Slot(j).use = Use(j) /\ Use(j) # "held"
  BY <1>1 DEF Slot, Use
<1>4. Use(i) = IF i \in free THEN "free" ELSE "unused"
  BY <1>1, <1>2 DEF Use
<1>5. free = {} => \A j \in Items : Use(j) # "free"
  BY DEF Use
<1>6. Stage # "over"
  BY <1>1 DEF Stage
<1>7. Use(i)' = "held"
  BY <1>1, <1>2 DEF Use
<1>8. OnlySlot(i)
  BY <1>1 DEF OnlySlot
<1> DEFINE ready == item[i].hSocket /\ item[i].ready
           held  == "held"
<1>9. Slot(i) = Image(Use(i), item[i].wRountID, ready, Operations(i), item[i].sends,
                      told[i])
  BY SlotImage
<1>10. Slot(i)' = Image(held, item[i].wRountID, ready, Operations(i), item[i].sends,
                        told[i])
  BY <1>1, <1>7 DEF Slot, Image, Operations
<1> HIDE DEF ready, held
<1>11. [Slot(i) EXCEPT !.use = held]
         = Image(held, item[i].wRountID, ready, Operations(i), item[i].sends, told[i])
  BY <1>9, ImageUse
<1>12. Slots!Becomes(i, [Slot(i) EXCEPT !.use = held])
  BY <1>1, <1>8, <1>10, <1>11, SlotBecomes
<1> QED
  BY <1>1, <1>3, <1>4, <1>5, <1>6, <1>12 DEF Slots!Take, held

(* Steps that Connections does not see: they leave of each slot what its   *)
(* mapping reads.                                                          *)
SameSlot(i) ==
  /\ item'[i].hSocket = item[i].hSocket /\ item'[i].bNotify = item[i].bNotify
  /\ item'[i].wRountID = item[i].wRountID /\ item'[i].ready = item[i].ready
  /\ item'[i].sends = item[i].sends
  /\ Operations(i)' = Operations(i)

LEMMA SameSlotsMap ==
  ASSUME UNCHANGED <<pool, accepting, told>>, Stage' = Stage,
         \A i \in Items : SameSlot(i)
  PROVE  UNCHANGED Slots!vars
<1>1. ASSUME NEW i \in Items PROVE Slot(i)' = Slot(i)
  <2>1. SameSlot(i)
    OBVIOUS
  <2> QED
    BY <2>1 DEF SameSlot, Slot, Use, pool
<1> QED
  BY <1>1 DEF Slots!vars

LEMMA OneSlotSame ==
  ASSUME NEW i \in Items, OnlySlot(i), phase' = phase, Slot(i)' = Slot(i)
  PROVE  UNCHANGED Slots!vars
<1>1. ASSUME NEW j \in Items PROVE Slot(j)' = Slot(j)
  <2>1. CASE j = i
    BY <2>1
  <2>2. CASE j # i
    BY <2>2 DEF OnlySlot, Slot, Use, Operations
  <2> QED
    BY <2>1, <2>2
<1>2. Stage' = Stage
  BY DEF Stage
<1> QED
  BY <1>1, <1>2 DEF Slots!vars

-----------------------------------------------------------------------------
(* Every action maps to a step of Connections or to none. *)

LEMMA AcceptThreadMaps == ASSUME IInv, AcceptThread PROVE Slots!Next
<1>1. ASSUME NEW i \in Items, Attach(i) PROVE Slots!Open(i)
  BY <1>1, AttachMaps
<1>2. ASSUME NEW i \in Items, Accept(i) PROVE Slots!Take(i)
  BY <1>2, AcceptMaps
<1> QED
  BY <1>1, <1>2 DEF AcceptThread, Slots!Next

LEMMA WorkerHandleMaps ==
  ASSUME IInv, NEW i \in Items, NEW k \in Kinds, WorkerHandle(i, k)
  PROVE  Slots!Receive(i) \/ Slots!Sent(i) \/ UNCHANGED Slots!vars
<1> DEFINE o == [op EXCEPT ![<<i, k>>] = "none"]
<1>1. /\ phase # "stopped" /\ TypeOK /\ SlotInv(i)
      /\ phase' = phase /\ accepting' = accepting
  BY DEF WorkerHandle, IInv, StoppedInv
<1>2. TakenPre(i, k, o)
  BY <1>1 DEF TakenPre, WorkerHandle
<1>3. \/ k = "recv" /\ OnRecvCompleted(i, o)
      \/ k = "send" /\ OnSendCompleted(i, o)
  BY DEF WorkerHandle
<1> HIDE DEF o
<1>4. SlotStep(i) /\ OpStep(i)
  BY <1>1, <1>2, <1>3, OnRecvCompletedSlot, OnSendCompletedSlot
<1>5. OnlySlot(i)
  BY <1>1, <1>4, StepOnlySlot
<1>6. CASE k = "recv" /\ OnRecvCompleted(i, o)
  <2>1. Slots!Receive(i) \/ Slot(i)' = Slot(i)
    BY <1>1, <1>2, <1>5, <1>6, OnRecvCompletedMaps
  <2> QED
    BY <1>1, <1>5, <2>1, OneSlotSame
<1>7. CASE k = "send" /\ OnSendCompleted(i, o)
  BY <1>1, <1>2, <1>5, <1>7, OnSendCompletedMaps
<1> QED
  BY <1>3, <1>6, <1>7

LEMMA EngineCloseSocketMaps ==
  ASSUME IInv, NEW i \in Items, NEW round \in Nat, EngineCloseSocket(i, round)
  PROVE  Slots!Close(i) \/ Slots!Renumber(i) \/ UNCHANGED Slots!vars
<1>1. /\ phase # "stopped" /\ TypeOK /\ SlotInv(i)
      /\ UNCHANGED <<phase, accepting, op>> /\ CloseSocket(i, item[i], told[i])
  BY DEF EngineCloseSocket, IInv, threads
<1>2. item[i] \in ItemState /\ item[i].wRountID \in Nat
  BY <1>1 DEF TypeOK, ItemState
<1>3. told[i] = "open" /\ ~item[i].bNotify
  BY <1>2 DEF EngineCloseSocket, Announced
<1>4. ClosePre(i, item[i], told[i])
  BY <1>1, <1>2, <1>3 DEF ClosePre, SlotInv, UsedSlot
<1>5. SlotStep(i) /\ OpStep(i)
  BY <1>1, <1>4, CloseSocketSlot DEF OpStep, TypeOK
<1>6. OnlySlot(i)
  BY <1>1, <1>5, StepOnlySlot
<1> QED
  BY <1>1, <1>6, CloseMaps, OneSlotSame

(* SendData, from whichever request.                                       *)
LEMMA SendMaps ==
  ASSUME TypeOK, NEW i \in Items, NEW round \in Nat, SlotInv(i), phase # "stopped",
         UNCHANGED <<phase, accepting, pool, told>>, SendData(i, round)
  PROVE  Slots!Send(i) \/ UNCHANGED Slots!vars
<1>1. SlotStep(i) /\ OpStep(i)
  BY SendDataSlot
<1>2. OnlySlot(i)
  BY <1>1, StepOnlySlot
<1>3. CASE UNCHANGED <<item, op>>
  <2>1. Slot(i)' = Slot(i)
    BY <1>3 DEF Slot, Use, Operations, pool
  <2> QED
    BY <1>2, <2>1, OneSlotSame
<1> QED
  BY <1>2, <1>3, SendDataMaps

LEMMA HandleSendMaps ==
  ASSUME IInv, HandleSend
  PROVE  (\E i \in Items : Slots!Send(i)) \/ UNCHANGED Slots!vars
<1> DEFINE r == Head(sendQueue)
<1>1. /\ TypeOK /\ StopInv /\ TakeRequest /\ r.type = "send"
      /\ SendData(r.i, r.round)
      /\ UNCHANGED <<phase, pool, threads, sender, temp, probe, told>>
  BY DEF HandleSend, IInv
<1>2. /\ sender' \in {"idle", "batch", "detect"} /\ temp' \subseteq Items
      /\ UNCHANGED <<phase, threads, probe>>
  BY <1>1 DEF TakeRequest, TypeOK
<1>3. r \in Request /\ phase # "stopped"
  BY <1>1, <1>2, TakeRequestRest
<1> HIDE DEF r
<1>4. r.i \in Items /\ r.round \in Nat
  BY <1>1, <1>3, RequestFields
<1>5. UNCHANGED <<phase, accepting, pool, told>>
  BY <1>1 DEF threads
<1>6. SlotInv(r.i)
  BY <1>3, <1>4 DEF IInv
<1>7. Slots!Send(r.i) \/ UNCHANGED Slots!vars
  BY <1>1, <1>3, <1>4, <1>5, <1>6, SendMaps
<1> QED
  BY <1>4, <1>7

LEMMA SendBatchItemMaps ==
  ASSUME IInv, NEW i \in Items, SendBatchItem(i)
  PROVE  Slots!Send(i) \/ UNCHANGED Slots!vars
<1>1. /\ TypeOK /\ phase # "stopped" /\ SlotInv(i)
      /\ UNCHANGED <<phase, accepting, pool, told>>
  BY DEF SendBatchItem, IInv, StopInv, threads
<1>2. CASE UNCHANGED <<item, op>>
  <2>1. Stage' = Stage /\ \A j \in Items : SameSlot(j)
    BY <1>1, <1>2 DEF Stage, SameSlot, Operations
  <2> QED
    BY <1>1, <2>1, SameSlotsMap
<1>3. CASE SendData(i, item[i].wRountID)
  <2>1. item[i].wRountID \in Nat
    BY <1>1 DEF TypeOK, ItemState
  <2> QED
    BY <1>1, <1>3, <2>1, SendMaps
<1> QED
  BY <1>2, <1>3 DEF SendBatchItem

LEMMA DetectItemMaps ==
  ASSUME IInv, NEW i \in Items, DetectItem(i)
  PROVE  Slots!Close(i) \/ Slots!Renumber(i) \/ Slots!Send(i) \/ UNCHANGED Slots!vars
<1>1. /\ TypeOK /\ phase # "stopped" /\ SlotInv(i) /\ UNCHANGED <<phase, accepting>>
  BY DEF DetectItem, IInv, StopInv, threads
<1>2. item[i] \in ItemState /\ item[i].wRountID \in Nat
  BY <1>1 DEF TypeOK, ItemState
<1>3. CASE CloseSocket(i, item[i], told[i]) /\ UNCHANGED op
  <2>1. SlotStep(i)
    <3>1. CASE item[i].bNotify
      BY <1>1, <1>3, <3>1, CloseEmptySlot
    <3>2. CASE ~item[i].bNotify
      <4>1. ClosePre(i, item[i], told[i])
        BY <1>1, <1>2, <1>3, <3>2 DEF ClosePre, SlotInv, UsedSlot
      <4> QED
        BY <1>1, <1>3, <4>1, CloseSocketSlot
    <3> QED
      BY <1>2, <3>1, <3>2 DEF ItemState
  <2>2. OnlySlot(i)
    BY <1>1, <1>3, <2>1, StepOnlySlot DEF OpStep, TypeOK
  <2> QED
    BY <1>1, <1>3, <2>2, CloseMaps, OneSlotSame
<1>4. CASE SendData(i, item[i].wRountID) /\ UNCHANGED <<pool, told>>
  BY <1>1, <1>2, <1>4, SendMaps
<1>5. CASE UNCHANGED <<item, op, pool, told>>
  <2>1. Stage' = Stage /\ \A j \in Items : SameSlot(j)
    BY <1>1, <1>5 DEF Stage, SameSlot, Operations
  <2> QED
    BY <1>1, <1>5, <2>1, SameSlotsMap
<1> QED
  BY <1>3, <1>4, <1>5 DEF DetectItem

LEMMA KernelMaps ==
  ASSUME IInv, NEW i \in Items, NEW k \in Kinds, Complete(i, k) \/ WorkerTake(i, k)
  PROVE  UNCHANGED Slots!vars
<1>1. PICK v \in {"completed", "failed", "taken", "lost"} :
        op' = [op EXCEPT ![<<i, k>>] = v]
  BY DEF Complete, WorkerTake
<1>2. /\ op[<<i, k>>] # "none" /\ op \in [Items \X Kinds -> OpStates]
      /\ UNCHANGED <<phase, item, pool, accepting, told>>
  BY DEF Complete, WorkerTake, threads, IInv, TypeOK
<1>3. \A c \in Items \X Kinds : op'[c] = "none" <=> op[c] = "none"
  BY <1>1, <1>2
<1>4. \A j \in Items : Operations(j)' = Operations(j)
  BY <1>2, <1>3 DEF Operations
<1>5. Stage' = Stage /\ \A j \in Items : SameSlot(j)
  BY <1>2, <1>4 DEF Stage, SameSlot
<1> QED
  BY <1>2, <1>5, SameSlotsMap

(* A change of a field of one slot that the mapping does not read.         *)
LEMMA HiddenFieldMaps ==
  ASSUME IInv, NEW i \in Items, UNCHANGED <<phase, pool, accepting, op, told>>,
         \/ \E b \in BOOLEAN : item' = [item EXCEPT ![i].bAllowBatch = b]
         \/ \E b \in BOOLEAN : item' = [item EXCEPT ![i].fresh = b]
         \/ UNCHANGED item
  PROVE  UNCHANGED Slots!vars
<1>1. item \in [Items -> ItemState]
  BY DEF IInv, TypeOK
<1>2. ASSUME NEW j \in Items PROVE SameSlot(j)
  <2>1. Operations(j)' = Operations(j)
    BY DEF Operations
  <2>2. item[j] \in ItemState
    BY <1>1
  <2>3. CASE \E b \in BOOLEAN : item' = [item EXCEPT ![i].bAllowBatch = b]
    BY <1>1, <2>1, <2>2, <2>3 DEF SameSlot, ItemState
  <2>4. CASE \E b \in BOOLEAN : item' = [item EXCEPT ![i].fresh = b]
    BY <1>1, <2>1, <2>2, <2>4 DEF SameSlot, ItemState
  <2> QED
    BY <2>1, <2>3, <2>4 DEF SameSlot
<1>3. Stage' = Stage
  BY DEF Stage
<1> QED
  BY <1>2, <1>3, SameSlotsMap

LEMMA AllowBatchMaps ==
  ASSUME IInv, HandleAllowBatch
  PROVE  UNCHANGED Slots!vars
<1> DEFINE r == Head(sendQueue)
<1>1. /\ TypeOK /\ StopInv /\ TakeRequest /\ UNCHANGED <<phase, threads, probe>>
      /\ UNCHANGED <<phase, pool, accepting, op, told>>
      /\ sender' \in {"idle", "batch", "detect"} /\ temp' \subseteq Items
      /\ r.type = "allowBatch"
  BY DEF HandleAllowBatch, IInv, TypeOK, TakeRequest, threads
<1>2. r \in Request
  BY <1>1, TakeRequestRest
<1>3. \/ \E b \in BOOLEAN : item' = [item EXCEPT ![r.i].bAllowBatch = b]
      \/ UNCHANGED item
  BY DEF HandleAllowBatch
<1> HIDE DEF r
<1>4. r.i \in Items
  BY <1>1, <1>2, RequestFields
<1> QED
  BY <1>1, <1>3, <1>4, HiddenFieldMaps

(* Steps of the queue and of the stop sequence that leave the slots alone. *)
LEMMA QuietMaps ==
  ASSUME UNCHANGED <<item, pool, accepting, op, told>>, Stage' = Stage,
         phase' = "stopped" <=> phase = "stopped"
  PROVE  UNCHANGED Slots!vars
<1>1. \A j \in Items : SameSlot(j)
  BY DEF SameSlot, Operations
<1> QED
  BY <1>1, SameSlotsMap

LEMMA QueueMaps ==
  ASSUME IInv,
         \/ WorkerQuit \/ HandleSafeClose \/ HandleSendAll \/ HandleDetect \/ HandleQuit
         \/ \E i \in Items : DetectReadTick(i)
         \/ \E r : AddToQueue(r)
  PROVE  UNCHANGED Slots!vars
<1>1. CASE HandleQuit
  <2>1. /\ StopInv /\ sendQueue \in Seq(Request) /\ sendQueue # << >>
        /\ Head(sendQueue).type = "quit" /\ sender = "idle" /\ phase' = "stopWorkers"
        /\ UNCHANGED <<item, pool, accepting, op, told>>
    BY <1>1 DEF HandleQuit, TakeRequest, IInv, TypeOK, threads
  <2>2. 1 \in 1 .. Len(sendQueue) /\ sendQueue[1] = Head(sendQueue)
    BY <2>1
  <2>3. phase = "stopSender"
    BY <2>1, <2>2 DEF StopInv
  <2>4. Stage' = Stage
    BY <2>1, <2>3 DEF Stage
  <2> QED
    BY <2>1, <2>3, <2>4, QuietMaps
<1>2. CASE ~HandleQuit
  <2>1. UNCHANGED <<phase, item, pool, accepting, op, told>>
    BY <1>2 DEF WorkerQuit, HandleSafeClose, HandleSendAll, HandleDetect, CopyActive,
                DetectReadTick, AddToQueue, threads
  <2>2. Stage' = Stage
    BY <2>1 DEF Stage
  <2> QED
    BY <2>1, <2>2, QuietMaps
<1> QED
  BY <1>1, <1>2

LEMMA FinishMaps == ASSUME IInv, StopConnections PROVE Slots!Finish
<1> DEFINE skip(i) == IF ~item[i].bRecvIng /\ item[i].sends = << >> THEN 2 ELSE 1
           skipped == [i \in Items |-> skip(i)]
<1>1. /\ phase = "stopWorkers" /\ phase' = "stopped" /\ TypeOK /\ accepting = {}
      /\ free' = free \cup active /\ active' = {} /\ accepting' = accepting
      /\ UNCHANGED told /\ \A i \in Items : SlotInv(i)
  BY DEF StopConnections, IInv, StopInv, threads
<1>2. Stage = "ending" /\ Stage' = "over"
  BY <1>1 DEF Stage
<1>3. \A i \in Items : Slot(i).use = Use(i) /\ Use(i) # "held"
  BY <1>1 DEF Slot, Use
<1>4. ASSUME NEW i \in Items
      PROVE  /\ item[i] \in ItemState /\ item[i].wRountID \in Nat
             /\ item[i].wRountID + 1 \in Nat /\ item[i].wRountID + 2 \in Nat
             /\ Operations(i)' = {}
  BY <1>1 DEF TypeOK, ItemState, Operations
<1>5. ASSUME NEW i \in Items, i \notin active
      PROVE  Use(i) \in {"unused", "free"} /\ Slot(i)' = Slot(i)
  <2>1. item[i].bNotify /\ EmptySlot(i) /\ item'[i] = item[i]
    BY <1>1, <1>5 DEF SlotInv, StopConnections
  <2>2. Operations(i) = {}
    BY <2>1 DEF Operations, EmptySlot
  <2>3. Use(i)' = Use(i) /\ Use(i) \in {"unused", "free"}
    BY <1>1, <1>5, <2>1 DEF Use
  <2> QED
    BY <1>1, <1>4, <2>1, <2>2, <2>3 DEF Slot
<1>6. ASSUME NEW i \in Items, i \in active
      PROVE  /\ Use(i) \notin {"unused", "free"}
             /\ Slot(i)' = Slots!Vacant("free", item[i].wRountID + skip(i), told[i])
  <2> DEFINE n == item[i].wRountID + skip(i)
  <2>1. item'[i] = NewItem(n) /\ n \in Nat
    BY <1>4, <1>6 DEF StopConnections
  <2>2. i \notin free
    BY <1>1, <1>6 DEF SlotInv
  <2>3. Use(i) \notin {"unused", "free"}
    BY <1>1, <1>4, <1>6, <2>2 DEF Use, ItemState
  <2> HIDE DEF n
  <2>4. /\ item'[i].wRountID = n /\ item'[i].bNotify /\ ~item'[i].hSocket
        /\ item'[i].sends = << >>
    BY <2>1, NewItemType
  <2>5. Use(i)' = "free"
    BY <1>1, <1>6, <2>4 DEF Use
  <2>6. Slot(i)' = Slots!Vacant("free", n, told[i])
    BY <1>1, <1>4, <2>4, <2>5 DEF Slot, Slots!Vacant
  <2> QED
    BY <2>3, <2>6 DEF n
<1>7. skipped \in [Items -> 1 .. 2] /\ \A i \in Items : skipped[i] = skip(i)
  OBVIOUS
<1> HIDE DEF skip, skipped
<1>8. ASSUME NEW i \in Items
      PROVE  Slot(i)' = IF Slot(i).use \in {"unused", "free"} THEN Slot(i)
                        ELSE Slots!Vacant("free", Slot(i).round + skipped[i], Slot(i).heard)
  <2>1. Slot(i).round = item[i].wRountID /\ Slot(i).heard = told[i]
    BY DEF Slot
  <2> QED
    BY <1>3, <1>5, <1>6, <1>7, <2>1
<1> QED
  BY <1>2, <1>3, <1>7, <1>8 DEF Slots!Finish

LEMMA ControlMaps ==
  ASSUME IInv, Control
  PROVE  Slots!Start \/ Slots!Stop \/ Slots!Finish \/ UNCHANGED Slots!vars
<1>1. CASE StartServiceDone
  <2>1. /\ phase = "starting" /\ phase' = "running"
        /\ UNCHANGED <<item, pool, accepting, op, told>>
    BY <1>1 DEF StartServiceDone, threads
  <2>2. Stage = "starting" /\ Stage' = "serving"
    BY <2>1 DEF Stage
  <2>3. \A i \in Items : Slot(i)' = Slot(i)
    BY <2>1 DEF Slot, Use, Operations, pool
  <2> QED
    BY <2>2, <2>3 DEF Slots!Start
<1>2. CASE StopService
  <2>1. /\ phase = "running" /\ phase' = "stopAccept"
        /\ UNCHANGED <<item, pool, accepting, op, told>>
    BY <1>2 DEF StopService, threads
  <2>2. Stage = "serving" /\ Stage' = "ending"
    BY <2>1 DEF Stage
  <2>3. \A i \in Items : Slot(i)' = Slot(i)
    BY <2>1 DEF Slot, Use, Operations, pool
  <2> QED
    BY <2>2, <2>3 DEF Slots!Stop
<1>3. CASE StopAcceptThread
  <2>1. /\ phase = "stopAccept" /\ phase' = "stopSender"
        /\ UNCHANGED <<item, pool, accepting, op, told>>
    BY <1>3 DEF StopAcceptThread, threads
  <2>2. Stage' = Stage
    BY <2>1 DEF Stage
  <2> QED
    BY <2>1, <2>2, QuietMaps
<1>4. CASE StopConnections
  BY <1>4, FinishMaps
<1> QED
  BY <1>1, <1>2, <1>3, <1>4 DEF Control

LEMMA InitMaps == ASSUME Init PROVE Slots!Init
<1>1. Stage = "starting"
  BY DEF Init, Stage
<1>2. ASSUME NEW i \in Items PROVE Slot(i) = Slots!Vacant("unused", 0, "silent")
  <2>1. item[i] = NewItem(0) /\ told[i] = "silent" /\ Operations(i) = {}
    BY DEF Init, Operations
  <2>2. /\ item[i].wRountID = 0 /\ item[i].bNotify /\ ~item[i].hSocket
        /\ item[i].sends = << >>
    BY <2>1, NewItemType
  <2>3. Use(i) = "unused"
    BY <2>2 DEF Init, Use
  <2> QED
    BY <2>1, <2>2, <2>3 DEF Slot, Slots!Vacant
<1> QED
  BY <1>1, <1>2 DEF Slots!Init

LEMMA StepMaps == ASSUME IInv, [Next]_vars PROVE [Slots!Next]_(Slots!vars)
<1>1. CASE AcceptThread
  BY <1>1, AcceptThreadMaps
<1>2. CASE Kernel
  BY <1>2, KernelMaps DEF Kernel
<1>3. CASE Workers
  <2>1. ASSUME NEW i \in Items, NEW k \in Kinds, WorkerTake(i, k)
        PROVE  UNCHANGED Slots!vars
    BY <2>1, KernelMaps
  <2>2. ASSUME NEW i \in Items, NEW k \in Kinds, WorkerHandle(i, k)
        PROVE  Slots!Next \/ UNCHANGED Slots!vars
    BY <2>2, WorkerHandleMaps DEF Slots!Next
  <2>3. CASE WorkerQuit
    BY <2>3, QueueMaps
  <2> QED
    BY <1>3, <2>1, <2>2, <2>3 DEF Workers
<1>4. CASE Callers
  <2>1. ASSUME NEW i \in Items, NEW round \in 0 .. item[i].wRountID,
               EngineCloseSocket(i, round)
        PROVE  Slots!Next \/ UNCHANGED Slots!vars
    <3>1. round \in Nat
      OBVIOUS
    <3> QED
      BY <2>1, <3>1, EngineCloseSocketMaps DEF Slots!Next
  <2>2. CASE \E r : AddToQueue(r)
    BY <2>2, QueueMaps
  <2>3. \/ \E r : AddToQueue(r)
        \/ \E i \in Items : \E round \in 0 .. item[i].wRountID :
             EngineCloseSocket(i, round)
    BY <1>4 DEF Callers, PostSendDataBatch, PostDetect, PostSendData,
                PostShutDownSocket, PostAllowBatchSend
  <2> QED
    BY <2>1, <2>2, <2>3
<1>5. CASE SendThread
  <2>1. CASE HandleSend
    BY <2>1, HandleSendMaps DEF Slots!Next
  <2>2. CASE HandleAllowBatch
    BY <2>2, AllowBatchMaps
  <2>3. CASE \/ HandleSafeClose \/ HandleSendAll \/ HandleDetect \/ HandleQuit
             \/ \E i \in Items : DetectReadTick(i)
    BY <2>3, QueueMaps
  <2>4. ASSUME NEW i \in Items, SendBatchItem(i)
        PROVE  Slots!Next \/ UNCHANGED Slots!vars
    BY <2>4, SendBatchItemMaps DEF Slots!Next
  <2>5. ASSUME NEW i \in Items, DetectItem(i)
        PROVE  Slots!Next \/ UNCHANGED Slots!vars
    BY <2>5, DetectItemMaps DEF Slots!Next
  <2> QED
    BY <1>5, <2>1, <2>2, <2>3, <2>4, <2>5 DEF SendThread
<1>6. CASE Control
  BY <1>6, ControlMaps DEF Slots!Next
<1>7. ASSUME NEW i \in Items, TickPasses(i) PROVE UNCHANGED Slots!vars
  BY <1>7, HiddenFieldMaps DEF TickPasses, threads
<1>8. CASE UNCHANGED vars
  <2>1. UNCHANGED <<phase, item, free, active, accepting, op, told>>
    BY <1>8 DEF vars
  <2>2. Stage' = Stage
    BY <2>1 DEF Stage
  <2> QED
    BY <2>1, <2>2, QuietMaps DEF pool
<1> QED
  BY <1>1, <1>2, <1>3, <1>4, <1>5, <1>6, <1>7, <1>8 DEF Next

(* The engine implements Connections: whatever its threads, the kernel and *)
(* its callers interleave, every slot has one connection after the other,  *)
(* each with the operations, packets and events that belong to it.         *)
THEOREM EngineImplementsConnections == Spec => ImplementsConnections
<1>1. Init => Slots!Init
  BY InitMaps
<1>2. IInv /\ [Next]_vars => [Slots!Next]_(Slots!vars)
  BY StepMaps
<1> QED
  BY <1>1, <1>2, InductiveInvariant, PTL DEF Spec, ImplementsConnections, Slots!Spec
=============================================================================
