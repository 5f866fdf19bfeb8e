------------------------- MODULE QueueServiceProofs --------------------------
(***************************************************************************)
(* Entries and completions of CQueueService differ by those that were lost *)
(* and those whose entry was cleared, and the queue is a channel, for any  *)
(* number of producers and entries and any number of starts and stops, a   *)
(* caller being anywhere in AddToQueue at each of them.                    *)
(***************************************************************************)
EXTENDS QueueService, TLAPS

(* The thread lives from StartService until StopService has joined it, and *)
(* has an entry in its buffer exactly while the sink is called.            *)
ThreadInv ==
  /\ service = "running" => thread \in {"waiting", "notified", "handling"}
  /\ service = "stopping" => thread \in {"waiting", "notified", "handling", "ended"}
  /\ service \notin {"running", "stopping"} => thread = "none"
  /\ thread = "handling" => \E n \in Nat : buffer = <<n>>
  /\ thread # "handling" => buffer = << >>

(* One thread at a time is inside AddToQueue.                              *)
LockInv == \A g, h \in lock : g = h

PortInv ==
  /\ ~PortOpen => port = EmptyPort
  /\ service = "running" => ~port.quit

IInv ==
  /\ TypeOK
  /\ ThreadInv
  /\ LockInv
  /\ PortInv
  /\ CompletionsMatchEntries
-----------------------------------------------------------------------------
LEMMA InitInv == ASSUME Init PROVE IInv
<1>1. TypeOK
  BY ConstantsAssumption DEF Init, TypeOK, EmptyPort
<1>2. ThreadInv /\ LockInv /\ PortInv
  BY DEF Init, ThreadInv, LockInv, PortInv, EmptyPort
<1>3. CompletionsMatchEntries
  BY DEF Init, CompletionsMatchEntries, EmptyPort, Kept
<1> QED
  BY <1>1, <1>2, <1>3 DEF IInv

LEMMA InsertDataInv ==
  ASSUME IInv, NEW p \in Producers, InsertData(p)
  PROVE  IInv'
<1>1. /\ lock = {} /\ lock' = {[holder |-> p, kept |-> TRUE]}
      /\ added \in 0 .. MaxAdded /\ added < MaxAdded /\ added' = added + 1
      /\ store \in Seq(Nat) /\ store' = Append(store, added + 1)
      /\ service' = service /\ port' = port /\ thread' = thread /\ buffer' = buffer
      /\ handled' = handled /\ lost' = lost /\ stale' = stale
  BY DEF InsertData, IInv, TypeOK
<1>2. TypeOK'
  BY <1>1, ConstantsAssumption DEF IInv, TypeOK
<1>3. ThreadInv' /\ PortInv'
  BY <1>1 DEF IInv, ThreadInv, PortInv, PortOpen
<1>4. LockInv'
  BY <1>1 DEF LockInv
<1>5. Kept = {} /\ Kept' # {}
  <2>1. [holder |-> p, kept |-> TRUE] \in Kept'
    BY <1>1 DEF Kept
  <2> QED
    BY <1>1, <2>1 DEF Kept
<1>6. Len(store') = Len(store) + 1
  BY <1>1
<1>7. CompletionsMatchEntries'
  <2> DEFINE taken == IF thread = "notified" THEN 1 ELSE 0
  <2>1. /\ port.data \in Nat /\ port.late \in Nat /\ lost \in Nat /\ stale \in Nat
        /\ Len(store) \in Nat /\ taken \in Nat
    BY <1>1 DEF IInv, TypeOK
  <2>2. Len(store) + stale = port.data + port.late + taken + 0 + lost
    BY <1>5 DEF IInv, CompletionsMatchEntries
  <2> HIDE DEF taken
  <2>3. Len(store') + stale = port.data + port.late + taken + 1 + lost
    BY <1>6, <2>1, <2>2
  <2> QED
    BY <1>1, <1>5, <2>3 DEF CompletionsMatchEntries, taken
<1> QED
  BY <1>2, <1>3, <1>4, <1>7 DEF IInv

LEMMA PostCompletionInv ==
  ASSUME IInv, NEW p \in Producers, PostCompletion(p)
  PROVE  IInv'
<1>1. PICK h \in lock :
        /\ lock' = {}
        /\ port' = IF ~PortOpen THEN port
                   ELSE IF port.quit THEN [port EXCEPT !.late = @ + 1]
                   ELSE [port EXCEPT !.data = @ + 1]
        /\ lost' = IF ~PortOpen /\ h.kept THEN lost + 1 ELSE lost
        /\ stale' = IF PortOpen /\ ~h.kept THEN stale + 1 ELSE stale
        /\ UNCHANGED <<service, store, thread, buffer, added, handled>>
  BY DEF PostCompletion
<1>2. /\ port \in [data : Nat, quit : BOOLEAN, late : Nat]
      /\ lost \in Nat /\ stale \in Nat
      /\ h.kept \in BOOLEAN /\ Len(store) \in Nat
  BY DEF IInv, TypeOK
<1>3. Kept # {} <=> h.kept
  BY DEF IInv, LockInv, Kept
<1>4. Kept' = {}
  BY <1>1 DEF Kept
<1>5. /\ port'.data \in Nat /\ port'.late \in Nat /\ lost' \in Nat /\ stale' \in Nat
      /\ port' \in [data : Nat, quit : BOOLEAN, late : Nat]
      /\ PortOpen => /\ port'.data + port'.late = port.data + port.late + 1
                     /\ lost' = lost
                     /\ stale' = IF h.kept THEN stale ELSE stale + 1
      /\ ~PortOpen => /\ port' = port /\ stale' = stale
                      /\ lost' = IF h.kept THEN lost + 1 ELSE lost
  BY <1>1, <1>2
<1>6. TypeOK'
  BY <1>1, <1>5 DEF IInv, TypeOK
<1>7. ThreadInv' /\ LockInv'
  BY <1>1 DEF IInv, ThreadInv, LockInv
<1>8. PortInv'
  BY <1>1, <1>5 DEF IInv, PortInv, PortOpen
<1>9. CompletionsMatchEntries'
  <2> DEFINE taken == IF thread = "notified" THEN 1 ELSE 0
             mine  == IF h.kept THEN 1 ELSE 0
             all   == Len(store)
  <2>1. all + stale = port.data + port.late + taken + mine + lost
    BY <1>3 DEF IInv, CompletionsMatchEntries
  <2>2. taken \in Nat /\ mine \in Nat /\ all \in Nat
        /\ port.data \in Nat /\ port.late \in Nat
    BY <1>2
  <2>3. (h.kept => mine = 1) /\ (~h.kept => mine = 0)
    OBVIOUS
  <2> HIDE DEF taken, mine, all
  <2>4. all + stale' = port'.data + port'.late + taken + lost'
    <3>1. CASE PortOpen /\ h.kept
      BY <1>2, <1>5, <2>1, <2>2, <2>3, <3>1
    <3>2. CASE PortOpen /\ ~h.kept
      <4>1. /\ stale' = stale + 1 /\ lost' = lost /\ mine = 0
            /\ port'.data + port'.late = port.data + port.late + 1
        BY <1>5, <2>3, <3>2
      <4>2. stale \in Nat /\ lost \in Nat /\ port'.data \in Nat /\ port'.late \in Nat
        BY <1>2, <1>5
      <4> QED
        BY <2>1, <2>2, <4>1, <4>2
    <3>3. CASE ~PortOpen /\ h.kept
      BY <1>2, <1>5, <2>1, <2>2, <2>3, <3>3
    <3>4. CASE ~PortOpen /\ ~h.kept
      BY <1>2, <1>5, <2>1, <2>2, <2>3, <3>4
    <3> QED
      BY <3>1, <3>2, <3>3, <3>4
  <2> QED
    BY <1>1, <1>2, <1>4, <1>5, <2>2, <2>4 DEF CompletionsMatchEntries, taken, all
<1> QED
  BY <1>6, <1>7, <1>8, <1>9 DEF IInv

LEMMA GetCompletionInv ==
  ASSUME IInv, GetCompletion
  PROVE  IInv'
<1>1. /\ port \in [data : Nat, quit : BOOLEAN, late : Nat] /\ lost \in Nat
      /\ stale \in Nat /\ stale' = stale
      /\ thread = "waiting" /\ thread' \in {"notified", "ended"}
      /\ lock' = lock /\ store' = store /\ lost' = lost /\ service' = service
      /\ buffer' = buffer /\ added' = added /\ handled' = handled /\ Len(store) \in Nat
      /\ service \in {"running", "stopping"}
  BY DEF GetCompletion, IInv, TypeOK, ThreadInv
<1>2. CASE port.data > 0 /\ port' = [port EXCEPT !.data = @ - 1] /\ thread' = "notified"
  <2>1. /\ port' \in [data : Nat, quit : BOOLEAN, late : Nat]
        /\ port'.data = port.data - 1 /\ port'.late = port.late
    BY <1>1, <1>2
  <2>2. CompletionsMatchEntries'
    BY <1>1, <1>2, <2>1 DEF IInv, CompletionsMatchEntries, Kept
  <2>3. TypeOK' /\ ThreadInv' /\ LockInv' /\ PortInv'
    BY <1>1, <1>2, <2>1 DEF IInv, TypeOK, ThreadInv, LockInv, PortInv, PortOpen
  <2> QED
    BY <2>2, <2>3 DEF IInv
<1>3. CASE port.quit /\ port' = [port EXCEPT !.quit = FALSE] /\ thread' = "ended"
  <2>1. /\ port' \in [data : Nat, quit : BOOLEAN, late : Nat]
        /\ port'.data = port.data /\ port'.late = port.late
    BY <1>1, <1>3
  <2>2. service = "stopping"
    BY <1>1, <1>3 DEF IInv, PortInv
  <2>3. CompletionsMatchEntries'
    BY <1>1, <1>3, <2>1 DEF IInv, CompletionsMatchEntries, Kept
  <2>4. TypeOK' /\ ThreadInv' /\ LockInv' /\ PortInv'
    BY <1>1, <1>3, <2>1, <2>2 DEF IInv, TypeOK, ThreadInv, LockInv, PortInv, PortOpen
  <2> QED
    BY <2>3, <2>4 DEF IInv
<1> QED
  BY <1>2, <1>3 DEF GetCompletion

(* The store is empty when the thread looks into it only if a completion   *)
(* was stale.                                                              *)
LEMMA NotifiedHasEntry ==
  ASSUME IInv, thread = "notified"
  PROVE  Len(store) + stale >= 1 /\ (store = << >> => stale >= 1)
<1>1. /\ Len(store) \in Nat /\ lost \in Nat /\ port.data \in Nat /\ port.late \in Nat
      /\ stale \in Nat
  BY DEF IInv, TypeOK
<1>2. Len(store) + stale >= 1
  BY <1>1 DEF IInv, CompletionsMatchEntries
<1> QED
  BY <1>1, <1>2

LEMMA GetDataInv ==
  ASSUME IInv, GetData
  PROVE  /\ IInv'
         /\ \/ store # << >> /\ buffer' = <<Head(store)>> /\ store' = Tail(store)
            \/ UNCHANGED <<buffer, store>>
<1>1. /\ store \in Seq(Nat) /\ thread = "notified" /\ lock = {}
      /\ lost \in Nat /\ stale \in Nat /\ port.data \in Nat /\ port.late \in Nat
      /\ service \in {"running", "stopping"} /\ buffer = << >>
      /\ UNCHANGED <<service, port, lock, added, handled, lost>>
  BY DEF GetData, IInv, TypeOK, ThreadInv
<1>2. LockInv' /\ PortInv'
  BY <1>1 DEF IInv, LockInv, PortInv, PortOpen
<1>3. Kept = {} /\ Kept' = {}
  BY <1>1 DEF Kept
<1>4. Len(store) + stale = port.data + port.late + 1 + lost
  BY <1>1, <1>3 DEF IInv, CompletionsMatchEntries
<1>5. CASE store # << >>
  <2>1. /\ buffer' = <<Head(store)>> /\ store' = Tail(store)
        /\ thread' = "handling" /\ stale' = stale
    BY <1>5 DEF GetData
  <2>2. /\ Head(store) \in Nat /\ Tail(store) \in Seq(Nat)
        /\ Len(Tail(store)) = Len(store) - 1 /\ Len(store) \in Nat
        /\ <<Head(store)>> \in Seq(Nat)
    BY <1>1, <1>5
  <2>3. TypeOK'
    BY <1>1, <2>1, <2>2 DEF IInv, TypeOK
  <2>4. ThreadInv'
    BY <1>1, <2>1, <2>2 DEF ThreadInv
  <2>5. Len(store') + stale' = port.data + port.late + lost
    <3> DEFINE all == Len(store)
    <3>1. all \in Nat /\ all + stale = port.data + port.late + 1 + lost
      BY <1>4, <2>2
    <3>2. Len(store') = all - 1
      BY <2>1, <2>2
    <3>3. /\ stale' = stale /\ stale \in Nat /\ lost \in Nat
          /\ port.data \in Nat /\ port.late \in Nat
      BY <1>1, <2>1
    <3> HIDE DEF all
    <3> QED
      BY <3>1, <3>2, <3>3
  <2>6. CompletionsMatchEntries'
    BY <1>1, <1>3, <2>1, <2>5 DEF CompletionsMatchEntries
  <2> QED
    BY <1>2, <1>5, <2>1, <2>3, <2>4, <2>6 DEF IInv
<1>6. CASE store = << >>
  <2>1. UNCHANGED <<buffer, store>> /\ thread' = "waiting" /\ stale' = stale - 1
    BY <1>6 DEF GetData
  <2>2. stale >= 1
    BY <1>1, <1>6, NotifiedHasEntry
  <2>3. TypeOK'
    BY <1>1, <2>1, <2>2 DEF IInv, TypeOK
  <2>4. ThreadInv'
    BY <1>1, <2>1 DEF ThreadInv
  <2>5. Len(store') + stale' = port.data + port.late + lost
    BY <1>1, <1>4, <1>6, <2>1, <2>2
  <2>6. CompletionsMatchEntries'
    BY <1>1, <1>3, <2>1, <2>5 DEF CompletionsMatchEntries
  <2> QED
    BY <1>2, <2>1, <2>3, <2>4, <2>6 DEF IInv
<1> QED
  BY <1>5, <1>6

LEMMA SinkReturnsInv ==
  ASSUME IInv, OnQueueServiceThread
  PROVE  IInv'
<1>1. PICK n \in Nat : buffer = <<n>>
  BY DEF OnQueueServiceThread, IInv, ThreadInv
<1>2. /\ thread = "handling" /\ thread' = "waiting" /\ buffer' = << >> /\ handled' = n
      /\ UNCHANGED <<service, port, store, lock, added, lost, stale>>
  BY <1>1 DEF OnQueueServiceThread
<1>3. TypeOK'
  BY <1>2 DEF IInv, TypeOK
<1>4. ThreadInv' /\ LockInv' /\ PortInv' /\ CompletionsMatchEntries'
  BY <1>2
     DEF IInv, ThreadInv, LockInv, PortInv, PortOpen, CompletionsMatchEntries, Kept
<1> QED
  BY <1>3, <1>4 DEF IInv

LEMMA StartServiceInv ==
  ASSUME IInv, StartService
  PROVE  IInv'
<1>1. /\ service = "stopped" /\ service' = "running" /\ port = EmptyPort
      /\ port' = EmptyPort /\ thread = "none" /\ thread' = "waiting"
      /\ UNCHANGED <<store, lock, buffer, added, handled, lost, stale>>
  BY DEF StartService, IInv, ThreadInv, PortInv, PortOpen
<1>2. EmptyPort \in [data : Nat, quit : BOOLEAN, late : Nat] /\ ~EmptyPort.quit
  BY DEF EmptyPort
<1>3. TypeOK'
  BY <1>1, <1>2 DEF IInv, TypeOK
<1>4. ThreadInv' /\ LockInv' /\ PortInv'
  BY <1>1, <1>2 DEF IInv, ThreadInv, LockInv, PortInv, PortOpen
<1>5. CompletionsMatchEntries'
  BY <1>1 DEF IInv, CompletionsMatchEntries, Kept
<1> QED
  BY <1>3, <1>4, <1>5 DEF IInv

LEMMA StopsInv ==
  ASSUME IInv, StopService \/ ThreadConcluded
  PROVE  IInv'
<1>1. CASE StopService
  <2>1. /\ \/ service = "running" /\ service' = "stopping"
           \/ service = "stopped" /\ service' = "closed" /\ port' = port
        /\ UNCHANGED <<store, lock, thread, buffer, added, handled, lost, stale>>
        /\ port' \in [data : Nat, quit : BOOLEAN, late : Nat]
        /\ port'.data = port.data /\ port'.late = port.late
    BY <1>1 DEF StopService, IInv, TypeOK
  <2>2. TypeOK'
    BY <2>1 DEF IInv, TypeOK
  <2>3. ThreadInv' /\ LockInv' /\ PortInv' /\ CompletionsMatchEntries'
    BY <2>1
       DEF IInv, ThreadInv, LockInv, PortInv, PortOpen, CompletionsMatchEntries, Kept
  <2> QED
    BY <2>2, <2>3 DEF IInv
<1>2. CASE ThreadConcluded
  BY <1>2 DEF ThreadConcluded, IInv, TypeOK, ThreadInv, LockInv, PortInv, PortOpen,
              CompletionsMatchEntries, Kept
<1> QED
  BY <1>1, <1>2

LEMMA ClosePortInv ==
  ASSUME IInv, ClosePort
  PROVE  IInv'
<1>1. /\ service = "joined" /\ service' = "closed" /\ port' = EmptyPort
      /\ lost' = lost + port.data + port.late /\ thread = "none"
      /\ UNCHANGED <<store, lock, thread, buffer, added, handled, stale>>
      /\ lost \in Nat /\ stale \in Nat /\ Len(store) \in Nat
      /\ port.data \in Nat /\ port.late \in Nat
  BY DEF ClosePort, IInv, TypeOK, ThreadInv
<1>2. /\ EmptyPort \in [data : Nat, quit : BOOLEAN, late : Nat] /\ ~EmptyPort.quit
      /\ EmptyPort.data = 0 /\ EmptyPort.late = 0
  BY DEF EmptyPort
<1>3. TypeOK'
  BY <1>1, <1>2 DEF IInv, TypeOK
<1>4. ThreadInv' /\ LockInv' /\ PortInv'
  BY <1>1, <1>2 DEF IInv, ThreadInv, LockInv, PortInv, PortOpen
<1>5. CompletionsMatchEntries'
  <2>1. Kept' = Kept
    BY <1>1 DEF Kept
  <2> QED
    BY <1>1, <1>2, <2>1 DEF IInv, CompletionsMatchEntries
<1> QED
  BY <1>3, <1>4, <1>5 DEF IInv

LEMMA RemoveDataInv ==
  ASSUME IInv, RemoveData
  PROVE  IInv'
<1>1. /\ service = "closed" /\ service' = "stopped" /\ store' = << >> /\ lost' = 0
      /\ stale' = 0
      /\ lock' = {[h EXCEPT !.kept = FALSE] : h \in lock}
      /\ UNCHANGED <<port, thread, buffer, added, handled>>
      /\ port = EmptyPort /\ thread = "none"
  BY DEF RemoveData, IInv, ThreadInv, PortInv, PortOpen
<1>2. lock' \subseteq [holder : Producers, kept : BOOLEAN] /\ \A h \in lock' : ~h.kept
  BY <1>1 DEF IInv, TypeOK
<1>3. \A g, h \in lock' : g = h
  BY <1>1 DEF IInv, LockInv
<1>4. TypeOK'
  BY <1>1, <1>2 DEF IInv, TypeOK
<1>5. ThreadInv' /\ LockInv' /\ PortInv'
  BY <1>1, <1>3 DEF IInv, ThreadInv, LockInv, PortInv, PortOpen
<1>6. CompletionsMatchEntries'
  <2>1. Kept' = {} /\ port'.data = 0 /\ port'.late = 0 /\ Len(store') = 0
    BY <1>1, <1>2 DEF Kept, EmptyPort
  <2> QED
    BY <1>1, <2>1 DEF CompletionsMatchEntries
<1> QED
  BY <1>4, <1>5, <1>6 DEF IInv

(* The accounting of completions, entries and losses is inductive once the *)
(* states of thread, lock and port are tied to those of the service.       *)
THEOREM InductiveInvariant == Spec => []IInv
<1>1. Init => IInv
  BY InitInv
<1>2. IInv /\ [Next]_vars => IInv'
  <2> SUFFICES ASSUME IInv, [Next]_vars PROVE IInv'
    OBVIOUS
  <2>1. CASE AddToQueue
    BY <2>1, InsertDataInv, PostCompletionInv DEF AddToQueue
  <2>2. CASE RepetitionRun
    BY <2>2, GetCompletionInv, GetDataInv, SinkReturnsInv DEF RepetitionRun
  <2>3. CASE StartService
    BY <2>3, StartServiceInv
  <2>4. CASE StopService \/ ThreadConcluded
    BY <2>4, StopsInv
  <2>5. CASE ClosePort
    BY <2>5, ClosePortInv
  <2>6. CASE RemoveData
    BY <2>6, RemoveDataInv
  <2>7. CASE UNCHANGED vars
    BY <2>7 DEF vars, IInv, TypeOK, ThreadInv, LockInv, PortInv, PortOpen,
                CompletionsMatchEntries, Kept
  <2> QED
    BY <2>1, <2>2, <2>3, <2>4, <2>5, <2>6, <2>7 DEF Next
<1> QED
  BY <1>1, <1>2, PTL DEF Spec

(* Every variable keeps its type, so that no completion is taken from an   *)
(* empty port.                                                             *)
THEOREM TypeCorrect == Spec => []TypeOK
<1>1. IInv => TypeOK
  BY DEF IInv
<1> QED
  BY <1>1, InductiveInvariant, PTL

(* Entries and completions are apart by exactly the completions that were  *)
(* lost and those whose entry was cleared first.                           *)
THEOREM CompletionsAlwaysMatch == Spec => []CompletionsMatchEntries
<1>1. IInv => CompletionsMatchEntries
  BY DEF IInv
<1> QED
  BY <1>1, InductiveInvariant, PTL

(* The assert of RepetitionRun fails only for a stale completion, whose    *)
(* caller was in AddToQueue over a stop and a start.                       *)
THEOREM CompletionAlwaysHasEntry == Spec => []CompletionHasEntry
<1>1. IInv => CompletionHasEntry
  BY NotifiedHasEntry DEF CompletionHasEntry
<1> QED
  BY <1>1, InductiveInvariant, PTL
-----------------------------------------------------------------------------
(* The pending entries of the channel: the buffer, then the store. *)
LEMMA EmptyConcat ==
  ASSUME NEW s \in Seq(Nat)
  PROVE  << >> \o s = s
  OBVIOUS

LEMMA ConcatAppend ==
  ASSUME NEW b \in Seq(Nat), NEW s \in Seq(Nat), NEW n \in Nat
  PROVE  b \o Append(s, n) = Append(b \o s, n)
  OBVIOUS

LEMMA ConcatFront ==
  ASSUME NEW s \in Seq(Nat), NEW n \in Nat
  PROVE  /\ <<n>> \o s # << >>
         /\ Head(<<n>> \o s) = n
         /\ Tail(<<n>> \o s) = s
  OBVIOUS

LEMMA ConcatSplit ==
  ASSUME NEW s \in Seq(Nat), s # << >>
  PROVE  <<Head(s)>> \o Tail(s) = s
  OBVIOUS

LEMMA StepRefines ==
  ASSUME IInv, IInv', [Next]_vars
  PROVE  [Channel!Next]_(Channel!vars)
<1> DEFINE open    == service \in {"running", "stopping"}
           pending == buffer \o store
<1>1. /\ buffer \in Seq(Nat) /\ store \in Seq(Nat) /\ added \in Nat
  BY ConstantsAssumption DEF IInv, TypeOK
<1>2. ASSUME NEW p \in Producers, InsertData(p) PROVE Channel!Add
  <2>1. /\ added' = added + 1 /\ buffer' = buffer /\ store' = Append(store, added + 1)
        /\ open' = open /\ handled' = handled
    BY <1>2 DEF InsertData
  <2>2. pending' = Append(pending, added + 1)
    BY <1>1, <2>1, ConcatAppend
  <2> QED
    BY <2>1, <2>2 DEF Channel!Add
<1>3. ASSUME NEW p \in Producers, PostCompletion(p) PROVE UNCHANGED Channel!vars
  BY <1>3 DEF PostCompletion, Channel!vars
<1>4. CASE GetCompletion
  BY <1>4 DEF GetCompletion, Channel!vars
<1>5. CASE GetData
  <2>1. \/ store # << >> /\ buffer' = <<Head(store)>> /\ store' = Tail(store)
        \/ UNCHANGED <<buffer, store>>
    BY <1>5, GetDataInv
  <2>2. buffer = << >> /\ open' = open /\ added' = added /\ handled' = handled
    BY <1>5 DEF GetData, IInv, ThreadInv
  <2>3. pending' = pending
    BY <1>1, <2>1, <2>2, EmptyConcat, ConcatSplit
  <2> QED
    BY <2>2, <2>3 DEF Channel!vars
<1>6. CASE OnQueueServiceThread
  <2>1. PICK n \in Nat : buffer = <<n>>
    BY <1>6 DEF OnQueueServiceThread, IInv, ThreadInv
  <2>2. /\ open /\ open' = open /\ handled' = n /\ buffer' = << >> /\ store' = store
        /\ added' = added
    BY <1>6, <2>1 DEF OnQueueServiceThread, IInv, ThreadInv
  <2>3. pending # << >> /\ Head(pending) = n /\ Tail(pending) = store
    BY <1>1, <2>1, ConcatFront
  <2>4. pending' = store
    BY <1>1, <2>2, EmptyConcat
  <2> QED
    BY <2>2, <2>3, <2>4 DEF Channel!Handle, Channel!Next
<1>7. CASE ClosePort
  BY <1>7 DEF ClosePort, Channel!vars
<1>11. CASE StopService
  BY <1>11 DEF StopService, Channel!vars
<1>8. CASE StartService \/ ThreadConcluded
  <2>1. open' = ~open /\ UNCHANGED <<added, buffer, store, handled>>
    BY <1>8 DEF StartService, ThreadConcluded
  <2> QED
    BY <2>1 DEF Channel!Switch, Channel!Next
<1>9. CASE RemoveData
  <2>1. /\ ~open /\ ~open' /\ buffer = << >> /\ buffer' = << >> /\ store' = << >>
        /\ UNCHANGED <<added, handled>>
    BY <1>9 DEF RemoveData, IInv, ThreadInv
  <2>2. pending' = << >>
    BY <2>1
  <2> QED
    BY <2>1, <2>2 DEF Channel!DropAll, Channel!Next
<1>10. CASE UNCHANGED vars
  BY <1>10 DEF vars, Channel!vars
<1> QED
  BY <1>2, <1>3, <1>4, <1>5, <1>6, <1>7, <1>8, <1>9, <1>10, <1>11
     DEF Next, AddToQueue, RepetitionRun, Channel!Next

(* The queue is a channel: in order, once, only in service, none dropped   *)
(* while the thread lives.                                                 *)
THEOREM QueueImplementsChannel == Spec => ImplementsChannel
<1>1. Init => Channel!Init
  BY DEF Init, Channel!Init
<1>2. IInv /\ IInv' /\ [Next]_vars => [Channel!Next]_(Channel!vars)
  BY StepRefines
<1> QED
  BY <1>1, <1>2, InductiveInvariant, PTL DEF Spec, ImplementsChannel, Channel!Spec
=============================================================================
