--------------------------- MODULE MCSocketEngine ---------------------------
(* SocketEngine for TLC.                                                   *)
EXTENDS SocketEngine, TLC

(* The slots are interchangeable. *)
Symmetry == Permutations(Items)

(* The instance with two slots: the service runs, requests go to all slots,*)
(* and callers close connections.  What concerns one slot alone (requests  *)
(* to one connection, the start and the end of the service) is left to the *)
(* instances with one slot.                                                *)
TwoSlotNext ==
  \/ AcceptThread \/ Kernel \/ Workers \/ SendThread \/ StartServiceDone
  \/ PostSendDataBatch \/ PostDetect
  \/ \E i \in Items : \/ TickPasses(i)
                      \/ EngineCloseSocket(i, item[i].wRountID)
                      \/ PostAllowBatchSend(i, item[i].wRountID)

TwoSlotSpec == Init /\ [][TwoSlotNext]_vars
=============================================================================
