---------------------------- MODULE QueueService ----------------------------
(***************************************************************************)
(* CQueueService (QueueService.cpp), the asynchronous call between the     *)
(* engines: AddToQueue stores an entry in m_DataQueue and posts a          *)
(* completion to the queue's port; the queue's thread takes a completion,  *)
(* then the entry at the front of m_DataQueue, and calls the sink with it. *)
(* A completion says that there is an entry, not which one.                *)
(*                                                                         *)
(* Callers are never waited for.  AddToQueue does not look at m_bService,  *)
(* the engines that add events stop after the attemper's queue, and nobody *)
(* joins the threads that call CServiceEngine::ControlService: a caller    *)
(* may be anywhere in AddToQueue while the queue is stopped and started.   *)
(*                                                                         *)
(* Data left out: identifiers and contents of entries, which are numbered  *)
(* as they are added.                                                      *)
(***************************************************************************)
EXTENDS Naturals, Sequences

CONSTANTS
  Producers, (* threads of other engines that add entries *)
  MaxAdded   (* bound: entries added in a behaviour       *)

ASSUME ConstantsAssumption == MaxAdded \in Nat

VARIABLES
  service,  (* where StartService and StopService are                      *)
  port,     (* data completions ahead of the quit marker, the marker, and  *)
            (* data completions behind it                                  *)
  store,    (* m_DataQueue                                                 *)
  lock,     (* who holds m_CriticalSection inside AddToQueue, and whether  *)
            (* the entry just stored is still there                        *)
  thread,   (* what the queue's thread is doing                            *)
  buffer,   (* its m_cbBuffer: the entry taken, until the sink returns     *)
  added,    (* the number of entries added so far                          *)
  handled,  (* history: the number of the last entry the sink was given    *)
  lost,     (* history: completions lost since the store was last cleared  *)
  stale     (* history: completions posted for entries RemoveData took     *)

vars == <<service, port, store, lock, thread, buffer, added, handled, lost, stale>>

EmptyPort == [data |-> 0, quit |-> FALSE, late |-> 0]

TypeOK ==
  /\ service \in {"stopped", "running", "stopping", "joined", "closed"}
  /\ port \in [data : Nat, quit : BOOLEAN, late : Nat]
  /\ store \in Seq(Nat)
  /\ lock \subseteq [holder : Producers, kept : BOOLEAN]
  /\ thread \in {"none", "waiting", "notified", "handling", "ended"}
  /\ buffer \in Seq(Nat)
  /\ added \in 0 .. MaxAdded
  /\ handled \in Nat
  /\ lost \in Nat
  /\ stale \in Nat

Init ==
  /\ service = "stopped"
  /\ port = EmptyPort
  /\ store = << >>
  /\ lock = {}
  /\ thread = "none"
  /\ buffer = << >>
  /\ added = 0
  /\ handled = 0
  /\ lost = 0
  /\ stale = 0

(* m_hCompletionPort is not NULL. *)
PortOpen == service \in {"running", "stopping", "joined"}

-----------------------------------------------------------------------------
(* AddToQueue, under the lock; nothing keeps StopService and StartService  *)
(* from running between its two statements.                                *)

InsertData(p) ==
  /\ lock = {}
  /\ added < MaxAdded
  /\ lock' = {[holder |-> p, kept |-> TRUE]}
  /\ added' = added + 1
  /\ store' = Append(store, added + 1)
  /\ UNCHANGED <<service, port, thread, buffer, handled, lost, stale>>

(* Fault: a completion is posted only for an entry that finds the store    *)
(* empty.                                                                  *)
PostCompletionIfFirst(p) ==
  \E h \in lock :
    /\ h.holder = p
    /\ lock' = {}
    /\ port' = IF ~PortOpen \/ Len(store) > 1 THEN port
               ELSE IF port.quit THEN [port EXCEPT !.late = @ + 1]
               ELSE [port EXCEPT !.data = @ + 1]
    /\ lost' = IF ~PortOpen /\ h.kept THEN lost + 1 ELSE lost
    /\ stale' = IF PortOpen /\ ~h.kept THEN stale + 1 ELSE stale
    /\ UNCHANGED <<service, store, thread, buffer, added, handled>>

(* Fault: a completion is posted twice. *)
PostCompletionTwice(p) ==
  \E h \in lock :
    /\ h.holder = p
    /\ lock' = {}
    /\ port' = IF ~PortOpen THEN port
               ELSE IF port.quit THEN [port EXCEPT !.late = @ + 2]
               ELSE [port EXCEPT !.data = @ + 2]
    /\ lost' = IF ~PortOpen /\ h.kept THEN lost + 1 ELSE lost
    /\ stale' = IF PortOpen /\ ~h.kept THEN stale + 1 ELSE stale
    /\ UNCHANGED <<service, store, thread, buffer, added, handled>>

(* Its result is ignored: without a port no completion will tell of the    *)
(* entry.  With a port opened since RemoveData took the entry, a           *)
(* completion tells of an entry that is gone.                              *)
PostCompletion(p) ==
  \E h \in lock :
    /\ h.holder = p
    /\ lock' = {}
    /\ port' = IF ~PortOpen THEN port
               ELSE IF port.quit THEN [port EXCEPT !.late = @ + 1]
               ELSE [port EXCEPT !.data = @ + 1]
    /\ lost' = IF ~PortOpen /\ h.kept THEN lost + 1 ELSE lost
    /\ stale' = IF PortOpen /\ ~h.kept THEN stale + 1 ELSE stale
    /\ UNCHANGED <<service, store, thread, buffer, added, handled>>

-----------------------------------------------------------------------------
(* CQueueServiceThread::RepetitionRun. *)

(* Fault: a completion is taken whether there is one or not. *)
GetCompletionUnchecked ==
  /\ thread = "waiting"
  /\ \/ /\ port' = [port EXCEPT !.data = @ - 1]
        /\ thread' = "notified"
     \/ /\ port.quit
        /\ port' = [port EXCEPT !.quit = FALSE]
        /\ thread' = "ended"
  /\ UNCHANGED <<service, store, lock, buffer, added, handled, lost, stale>>

GetCompletion ==
  /\ thread = "waiting"
  /\ \/ /\ port.data > 0
        /\ port' = [port EXCEPT !.data = @ - 1]
        /\ thread' = "notified"
     \/ /\ port.data = 0
        /\ port.quit
        /\ port' = [port EXCEPT !.quit = FALSE]
        /\ thread' = "ended"
  /\ UNCHANGED <<service, store, lock, buffer, added, handled, lost, stale>>

(* Fault: the newest entry is taken. *)
GetDataLast ==
  /\ thread = "notified"
  /\ lock = {}
  /\ IF store # << >>
     THEN /\ buffer' = <<store[Len(store)]>>
          /\ store' = SubSeq(store, 1, Len(store) - 1)
          /\ thread' = "handling"
          /\ UNCHANGED stale
     ELSE /\ thread' = "waiting"
          /\ stale' = stale - 1
          /\ UNCHANGED <<buffer, store>>
  /\ UNCHANGED <<service, port, lock, added, handled, lost>>

(* DistillData returns false when there is no entry: a stale completion    *)
(* has come to its end.                                                    *)
GetData ==
  /\ thread = "notified"
  /\ lock = {}
  /\ IF store # << >>
     THEN /\ buffer' = <<Head(store)>>
          /\ store' = Tail(store)
          /\ thread' = "handling"
          /\ UNCHANGED stale
     ELSE /\ thread' = "waiting"
          /\ stale' = stale - 1
          /\ UNCHANGED <<buffer, store>>
  /\ UNCHANGED <<service, port, lock, added, handled, lost>>

(* The sink returns. *)
OnQueueServiceThread ==
  /\ thread = "handling"
  /\ handled' = Head(buffer)
  /\ buffer' = << >>
  /\ thread' = "waiting"
  /\ UNCHANGED <<service, port, store, lock, added, lost, stale>>

-----------------------------------------------------------------------------
(* StartService and StopService.                                           *)

StartService ==
  /\ service = "stopped"
  /\ service' = "running"
  /\ port' = EmptyPort
  /\ thread' = "waiting"
  /\ UNCHANGED <<store, lock, buffer, added, handled, lost, stale>>

(* A queue that is stopped may be stopped again, after a start of another  *)
(* engine failed: it has no port and no thread, but its store is cleared.  *)
StopService ==
  /\ \/ /\ service = "running"
        /\ service' = "stopping"
        /\ port' = [port EXCEPT !.quit = TRUE]
     \/ /\ service = "stopped"
        /\ service' = "closed"
        /\ UNCHANGED port
  /\ UNCHANGED <<store, lock, thread, buffer, added, handled, lost, stale>>

ThreadConcluded ==
  /\ service = "stopping"
  /\ thread = "ended"
  /\ service' = "joined"
  /\ thread' = "none"
  /\ UNCHANGED <<port, store, lock, buffer, added, handled, lost, stale>>

(* The completions behind the quit marker go with the port. *)
ClosePort ==
  /\ service = "joined"
  /\ service' = "closed"
  /\ port' = EmptyPort
  /\ lost' = lost + port.data + port.late
  /\ UNCHANGED <<store, lock, thread, buffer, added, handled, stale>>

(* Fault: the store is cleared while the thread still runs. *)
RemoveDataFirst ==
  /\ service \in {"stopping", "closed"}
  /\ service' = IF service = "closed" THEN "stopped" ELSE service
  /\ store' = << >>
  /\ lost' = 0
  /\ stale' = 0
  /\ lock' = {[h EXCEPT !.kept = FALSE] : h \in lock}
  /\ UNCHANGED <<port, thread, buffer, added, handled>>

(* RemoveData, without the lock. *)
RemoveData ==
  /\ service = "closed"
  /\ service' = "stopped"
  /\ store' = << >>
  /\ lost' = 0
  /\ stale' = 0
  /\ lock' = {[h EXCEPT !.kept = FALSE] : h \in lock}
  /\ UNCHANGED <<port, thread, buffer, added, handled>>

-----------------------------------------------------------------------------
AddToQueue == \E p \in Producers : InsertData(p) \/ PostCompletion(p)

RepetitionRun == GetCompletion \/ GetData \/ OnQueueServiceThread

Next ==
  \/ AddToQueue
  \/ RepetitionRun
  \/ StartService \/ StopService \/ ThreadConcluded \/ ClosePort \/ RemoveData

Spec == Init /\ [][Next]_vars

-----------------------------------------------------------------------------
(* Properties. *)

(* The entry of the caller inside AddToQueue, if RemoveData left it there. *)
Kept == {h \in lock : h.kept}

(* What is in the store against the completions that will reach the        *)
(* thread: it lags behind by exactly the entries whose completion was      *)
(* lost, and is ahead by exactly the completions whose entry was cleared   *)
(* before they were posted.  Nothing else sets entries and completions     *)
(* apart, over any stops and starts.                                       *)
CompletionsMatchEntries ==
  Len(store) + stale = port.data + port.late
                         + (IF thread = "notified" THEN 1 ELSE 0)
                         + (IF Kept # {} THEN 1 ELSE 0)
                         + lost

(* The assert of RepetitionRun, ASSERT(bSuccess==true): a thread that took *)
(* a completion finds an entry.  It can only fail after a caller was       *)
(* between the two statements of AddToQueue while StopService cleared the  *)
(* store and StartService opened a new port.                               *)
CompletionHasEntry == thread = "notified" /\ stale = 0 => store # << >>

(* Entries are handled in order, none twice, none outside of the service,  *)
(* and none is dropped while the queue's thread lives.                     *)
Channel == INSTANCE EventChannel WITH
  open <- service \in {"running", "stopping"}, pending <- buffer \o store

ImplementsChannel == Channel!Spec

(* Fairness.  A thread inside AddToQueue leaves it; the queue's thread     *)
(* runs, gets the lock again and again while others compete for it, and    *)
(* the sink returns; StopService is carried through.  Nothing makes other  *)
(* engines add entries, or anyone start or stop the service.               *)
Fairness ==
  /\ \A p \in Producers : WF_vars(PostCompletion(p))
  /\ WF_vars(GetCompletion)
  /\ SF_vars(GetData)
  /\ WF_vars(OnQueueServiceThread)
  /\ WF_vars(ThreadConcluded \/ ClosePort \/ RemoveData)

FairSpec == Spec /\ Fairness

(* In service every entry is handled, unless the service is stopped        *)
(* before, but for the last ones: as many as completions were lost wait    *)
(* for the next entries to be added.                                       *)
EntriesHandled ==
  \A n \in 1 .. MaxAdded :
    service = "running" /\ (\E i \in DOMAIN store : store[i] = n /\ i + lost <= Len(store))
      ~> n <= handled \/ service # "running"
=============================================================================
