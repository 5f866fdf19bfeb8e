# Formal models of the six_beauty kernel engine

The repository is a collection: one real system, the game-server kernel engine
in `src/6.6内核引擎/` (about 4000 lines of C++ for Windows), next to some
hundred independent exercises and vendored libraries.  This project models the
kernel engine: its TCP socket engine, the queue that connects the engines, its
timers, its asynchronism engine, the reconnection of its data base class, and
the service engine that starts and stops them all.  It also models the two
concurrent programs among the exercises that are complete: the thread class
`CServiceThread` and the Piggy IOCP server.  TLC checks the models on small
instances, and TLAPS proves the main safety properties for every value of the
constants.

| file | what it is |
| --- | --- |
| `SocketEngine.tla` | `CTCPSocketEngine` and its `CServerSocketItem` slots, all their threads |
| `MCSocketEngine.tla` | symmetry, and the next-state relation of the instance with two slots |
| `Connections.tla` | abstract: what the socket engine promises of each slot |
| `SocketEngineProofs.tla` | inductive invariant, types, seven safety theorems, refinement of `Connections` |
| `QueueService.tla` | `CQueueService` and its thread |
| `EventChannel.tla` | abstract: what the queue and the asynchronism engine promise |
| `QueueServiceProofs.tla` | inductive invariant, types, two safety theorems, refinement of `EventChannel` |
| `TimerItems.tla` | timers, items and DWORDs, for the next two |
| `TimerList.tla` | `CTimerEngine` with its array, the thread's loop one item a step |
| `TimerEngine.tla` | `CTimerEngine` with a set of timers, the loop in one step |
| `Timers.tla` | abstract: independent countdowns |
| `TimerEngineProofs.tla` | inductive invariant, types, one safety theorem, refinement of `Timers` |
| `TimerListProofs.tla` | inductive invariant, types, one safety theorem, refinement of `TimerEngine` and so of `Timers` |
| `ServiceEngine.tla` | `CServiceEngine` with the five engines, two queues and two sinks |
| `ServiceEngineProofs.tla` | inductive invariant, types, six safety theorems |
| `ServiceThread.tla` | `CServiceThread`: start, loop and stop of a thread |
| `AsynchronismEngine.tla` | `CAsynchronismEngine` on such a thread |
| `AsynchronismProofs.tla` | inductive invariant, types, four safety theorems, refinement of `ServiceThread` and `EventChannel` |
| `DataBase.tla` | `CDataBase`: commands and reconnection |
| `DataBaseProofs.tla` | inductive invariant, types, one safety theorem |
| `PiggyServer.tla` | `CIOCPModel`: workers, contexts, locks, stop |
| `PiggyServerProofs.tla` | inductive invariant, types, two safety theorems |
| `*.cfg` | the TLC instances, one per run |
| `PROJECT.json` | runs, mutants, the map from definitions to source lines, hazards, findings, theorems |

`PROJECT.json` gives, for each definition that models code, the lines it stands
for.  Some modules have operators with a comment "Fault": each is a mistake a
maintainer could make (a forgotten marker, an unchecked round, ...); replacing
the operator of the same name by it breaks a property, which shows that the
property depends on the code.

## 1. Inventory

### Components, state, operations

| component | state it keeps | operations | modelled |
| --- | --- | --- | --- |
| TCP socket engine (`SocketEngine.cpp`) | slots (`m_hSocket`, `m_wRountID`, `m_bNotify`, `m_bRecvIng`, send lists, ticks), free/active/storage lists, send queue, service flag | start, stop, accept, receive and send completions, `SendData`, `SendDataBatch`, `CloseSocket`, `ShutDownSocket`, `AllowBatchSend`, detection of dead connections | partly |
| Queue service (`QueueService.cpp`) | `CDataQueue`, completion port, thread, service flag | `AddToQueue`, start, stop, thread | modelled |
| Timer engine (`TimerEngine.cpp`) | active and free items, `m_dwTimePass`, `m_dwTimeLeave` | `SetTimer`, `KillTimer`, `KillAllTimer`, tick, start, stop | modelled |
| Service engine (`ServiceEngine.cpp`) | the engines, service flag | start and stop of all engines, control events | modelled |
| Asynchronism engine (`AsynchronismEngine.cpp`) | request store, window, sinks, thread | `InsertRequest`, registration, message thread, start, stop | modelled |
| Attemper engine (`AttemperEngine.cpp`) | queue, sink | dispatch of events to the sink, start, stop | modelled, in `ServiceEngine` |
| Data base engine (`DataBaseEngine.cpp`) | connection, recordset, reconnect counters; queue | `OpenConnection`, `TryConnectAgain`, `Execute`, `ExecuteCommand`, ...; start, stop, requests | partly: not the reading of fields |
| Event service, `QueueServiceEvent.h`, module entry, headers | none the others depend on | output, fill-a-structure-and-post, declarations | no |
| Piggy IOCP server (`poj/IOCP_WSASend`, with copies) | context list, receiver, locks, port | accept, receive, send, stop | partly: one successful start, one stop |
| HTTP session worker (`poj/HttpSession`) | thread handle, task queue | start/stop handshake, tasks through libcurl | partly: the thread |
| `代码1/IOCPserver`, exercises, puzzles | - | - | no: unfinished or without a common system |
| curl, tinyxml, jsoncpp, redisclient, Python headers | - | - | no: third party |

Not in the repository, and therefore modelled from how it is used ("external"
in the map): the overlapped operations and the completion port of Windows;
`CThreadLock`/`CCriticalSection`; `CDataQueue`; the message queue of a Windows
thread; ADO and its server; the sinks, which are a game's own code.  The
`CServiceThread` the engines derive from is not there either, but
`poj/HttpSession` has a copy of the class with the same names, which is the one
modelled.

### Interactions

```
 peers -> accept thread --Attach-->  slots  <--completions-- worker threads
              |                       ^  |                       |
              |                 send/close|  accept/read/close events
              v                       |  v                       v
         (free/active lists)     send queue           AddToQueue (attemper's queue)
                                      ^                          |
   other engines, detect thread ------+     timer events, -------+
                                            asynchronism results |
                                                                 v
                                    queue thread -> attemper's sink -> SendData,
                                                    SetTimer, CloseSocket, ...
```

* Engines never call each other's work directly.  They call
  `CQueueService::AddToQueue`, which stores an entry and posts a completion to
  a port; the queue's own thread takes a completion, then an entry, and calls
  the sink.
* The socket engine has a private queue of the same class for `SendData` and
  its relatives, so that these run on one thread.  `CloseSocket` does not go
  through it: it takes the slot's lock in the caller's thread.
* `CServiceEngine` starts timer, data base, asynchronism, attemper and socket
  engines in this order.  It stops all timers, attemper, data base, timer,
  socket and asynchronism in this one: the attemper's queue opens after, and
  closes before, engines that post to it.

### What is hard

* Sockets: four kinds of threads share the slots under two levels of locks.  A
  slot is recycled for the next connection as soon as the flags say the kernel
  is done with it; requests for the old connection may be in a queue; a copied
  list and a time stamp are used after the lock was left; a worker may end on an
  error; the service starts its threads before it sets its flag and drops events
  while the flag is down; the stop joins all threads without a limit.
* Queue: completion and entry are two things, stored by two statements.  Start,
  stop and other threads run in between, nobody waits for those that add
  entries, and the completion says that there is an entry, not which.
* Timers: one countdown stands for all timers, new timers arrive in the middle
  of it, items are removed from the array that is walked, in DWORD arithmetic.
* Service: each of some ten steps of a start may fail, nothing is undone, and
  the caller may start again or stop; engines that are still up post to queues
  that are closed.
* Asynchronism: a request and the message that names it are stored apart, the
  post may fail, the sink itself adds requests from inside of its call, sinks
  are registered without a lock while the thread walks their array, and the
  thread takes a parameter from the stack of the function that made it.
* Data base: whether a failure leads to an attempt to reconnect depends on a
  pause and on a counter that goes round; closing fails while the server is away.
* Piggy: a client's data may be handled, and the client be gone, on one worker
  while another is still accepting it; locks are left held on error paths; the
  window's thread waits for the workers, and they for it.

The properties that follow from this are below.  The full list of hazards, with
lines, and with the properties that cover each or the reason why none does, is
in `PROJECT.json`.

## 2. The socket engine

### Model and code

One step is one critical section of a slot's lock.  What a thread carries in
locals from one section to the next is a variable, so that other threads run in
between.

| model | code |
| --- | --- |
| `item[i]` | fields of `CServerSocketItem`; `sends` is `m_OverLappedSendActive`, each packet as the round its sender named; `ready` is "has received a packet" (`IsReadySend`); `fresh` is "`m_dwRecvTickCount` is younger than the break limit" |
| `free`, `active` | `m_FreeSocketItem`, `m_ActiveSocketItem`; a slot in neither does not exist yet |
| `op[<<i, k>>]` | the kernel's overlapped receive or send: `issued`, `completed`, `failed` (with an error other than `ERROR_NETNAME_DELETED`), `taken` by a worker, `lost` with a worker that ended, `clash` (used twice) |
| `accepting` | the accept thread between `ActiveSocketItem` and `Attach` |
| `sendQueue`, `sender`, `temp`, `probe` | `m_SendQueueService`, its thread, the copy of the active list and the tick read ahead of the lock |
| `phase`, `idleWorkers` | how far `StartService` and `StopService` are; workers waiting at the port |
| `told` | history: the events posted to the attemper for each slot |

`Accept`/`Attach` are the accept thread, `WorkerTake`/`WorkerHandle` a worker's
`RepetitionRun`, with `OnRecvCompleted` and `OnSendCompleted` down to
`CloseSocket`, `OnCloseCompleted`, `ResetSocketData` and `OnSocketCloseEvent` in
one step, as under the one lock.  `Handle...`, `SendBatchItem`,
`DetectReadTick`, `DetectItem` are `OnQueueServiceSink`.  `Post...` and
`EngineCloseSocket` are the calls of other engines: they name connections they
were told of.  `WSASend`, `WSARecv` and `recv` may fail wherever the code asks
whether they did.

Left out: addresses, buffers, the cipher and the layout of packets (a received
batch is "completes a packet", "brings a packet for the attemper", "is
malformed", in any combination the loop allows); the free list of overlapped
structures; `m_bCloseIng`, which is never set because `ShutDownSocket` returns
before the assignment; the association with the port, taken to succeed; the
failures inside `StartService`; a second `StartService`.

### Properties

* `OperationsMatch`: flags and send list agree with the kernel's operations,
  and no overlapped structure is used twice.
* `FreeSlotIsClean`: a recycled slot has nothing left of its last connection.
* `ClosingSlotHasOperation`: a closed connection has an operation outstanding
  whose completion will finish the close, so none is stranded.
* `SendsBelongToConnection`: no packet for an earlier connection of a slot gets
  into its send list, although requests may be queued across a reuse.
* `ImplementsConnections`: the engine implements `Connections`, in which a slot
  has one connection after the other.  A connection opens, has at most one
  receive and one send outstanding, sends the packets addressed to it in their
  order and only after it was heard from, closes at most once, and is over with
  the last of its operations; the attemper hears of its start and of its end, in
  service, exactly once.  There is no thread, lock, list or queue in
  `Connections`, and neither a kernel nor a completion.  A slot without a
  connection may skip a number (`Renumber`): the detect pass may close one that
  was freed since the pass began (finding 1), that was taken and not yet
  attached, or that a connection of the start has left in the active list.  The
  mapping reads a slot's use from its flags and the two lists, its operations
  from the kernel's, and forgets the operations that are left when the stop
  resets the slots.  `EventProtocol`, that accept, read and close events of a
  slot alternate whatever thread posts them, is the part of it that the attemper
  sees.
* `SlotOwnership`, `NoLeakInService`: the lists are disjoint, connections live
  in active slots, and in service no slot drops out of use.
* `ClosedSlotIsFreed`, `StopServiceReturns`: liveness.
* `CloseCompletesOnce` (of a slot of the free list) and `SafeCloseCloses` are
  asserted in the source and fail; see the findings.

A connection accepted before the service flag is set (1050) is never announced,
and its slot stays in the active list when it ends before that: `Connections`
has it as `unheard`, `EventProtocol` and `NoLeakInService` do not speak of it.

### Runs

| run | instance | states | shows |
| --- | --- | --- | --- |
| `SocketOneSlot` | 1 slot, rounds 0 and 1 (a reuse, then closed again), 2 workers, unexpected errors, queue of 2 | 1.3 million | the five state invariants, `Connections` |
| `SocketTwoSlots` | 2 slots, 2 workers, first connections, batches and detect passes | 1.5 million | the pool: no slot leaks or is owned twice |
| `SocketLiveness` | 1 slot, 2 workers, unexpected errors, queue of 1 | 96 thousand | closed slots come back, the stop returns |
| `SocketCloseAssert` | 1 slot, 1 worker | violation | finding 1 |
| `SocketSafeClose` | 1 slot, 1 worker | violation | finding 2 |

Bounds.  `MaxRound` 1 lets a slot be attached, closed, attached again and closed
again: requests, detect passes and completions of the first connection can meet
the second.  A third connection adds nothing, because only equality of rounds
matters, and the proofs cover it.  `MaxQueue` 2 lets a request wait behind
another.  `MaxSends` 1 stops new requests while a slot has one packet; the two
queued requests, and the detect packets, still make lists of two and more, so
that continued sends are reached.  Two workers take the receive and the send
of a slot at the same time.  With two slots, what concerns one slot alone is
left to the one-slot runs: `TwoSlotNext` omits the stop and requests that name
one connection to send to.  Rounds are unbounded numbers in the model; the wrap
of the 16-bit round is listed as an uncovered hazard.

Deadlock is not checked in these runs: after `StopService` the engine really
stops, and the bound on rounds ends accepting.

Fairness (`SocketLiveness`).  Threads run: weak fairness of `Attach`, of
handling a taken completion, of the send queue's thread and of the steps of
start and stop.  The port hands completions out in order, so that none is passed
over for ever: strong fairness of `WorkerTake` and `WorkerQuit`.  The kernel
ends the operations of a socket that was closed: weak fairness of `Complete`
while `hSocket` is false.  Nothing is assumed of peers, of callers or of time.
`ClosedSlotIsFreed` exempts a slot whose completion was taken by a worker that
ended on an unexpected error, and an engine whose last worker did: the code
gives these up (`SocketEngine.cpp:729`).

### Proof

`SocketEngineProofs` proves `Spec => []P` for `TypeOK`, the first four
properties, `EventProtocol` and `SlotOwnership`, then `NoLeakInService` and the
refinement of `Connections`, for any set of slots, any number of workers and any
bounds.  None of the invariants is inductive: that a freed slot is clean needs
flags that agree with the kernel, this needs used slots to be active and past
the accept thread, and this needs the order in which the stop joins the threads.
`IInv` says, for each slot, that without a connection it is exactly as
`ResetSocketData` leaves it with no operation (`EmptySlot`), and that with one,
flags, lists, kernel, pool and history agree (`UsedSlot`); `StopInv` says which
threads have ended in which phase.  After the stop only `StoppedInv` is left,
since `StopService` resets slots whose operations the kernel still has.  The
functions of a slot (`CloseSocket`, `RecvData`, `OnRecvCompleted`,
`OnSendCompleted`, `SendData`) have a lemma each; each action's proof applies
them to its slot, and `OtherSlots` covers the rest.  `NoLeakInService` follows
for each step from `IInv` in the state before it: who completes a close in
service holds a slot with a connection, and then the slot leaves the active list
in the same step.

`EngineImplementsConnections` needs no more than `IInv`.  For each function of a
slot a lemma says what it makes of the slot as `Connections` sees it
(`CloseSocketMaps`: `CloseSocket` is `Shut`, which ends the connection or waits
for its operations; `RecvDataMaps`, `OnRecvCompletedMaps`, `OnSendCompletedMaps`,
`SendDataMaps`, `CloseMaps`).  From these each action is one step of the slot it
works on, or none (`StepMaps`): `Attach` is `Open`, a handled completion is
`Receive` or `Sent`, every path to `SendData` is `Send`, the detect pass is
`Close`, `Renumber`, `Send` or nothing, `StopConnections` is `Finish`.  That
`Open` finds a slot with nothing outstanding, that `Sent` finds a packet, and
that a closing slot still has an operation are where `IInv` is needed.

## 3. The queue

### Model and code

`InsertData` and `PostCompletion` are the two statements of `AddToQueue`; `lock`
is held in between, but neither start nor stop takes it, so they interleave.
Nothing else restrains a caller: `AddToQueue` looks at no flag, and of those that
call it some, like the callers of `ControlService`, are threads nobody joins.  A
caller may be between the two statements while the queue is stopped and started
again.  `port` counts the completions ahead of and behind the quit marker, which
is posted once.  `GetCompletion`, `GetData`, `OnQueueServiceThread` are the
thread's `RepetitionRun`.  `StopService`, `ThreadConcluded`, `ClosePort`,
`RemoveData` are the parts of `StopService`, which `CServiceEngine` also calls on
a queue that is not started.  Entries are numbers in order of addition.  Two
history variables count what sets entries and completions apart: `lost` the
entries in the store whose completion went nowhere, `stale` the completions
posted after `RemoveData` had taken their entry.

### Properties, and what the run shows

`QueueService` (2 producers, 5 entries, restarts unbounded; 4411 states):

* `CompletionHasEntry` is the assert at `QueueService.cpp:66`: a completion finds
  an entry, unless a caller was between the two statements of `AddToQueue` while
  `StopService` cleared the store and `StartService` made a new port.  In that
  case the assert does fail, and a release build goes on.
* `CompletionsMatchEntries`: entries and completions are apart by exactly `lost`
  on the one side and `stale` on the other.  An entry added before the port
  exists (engines start before the queue) is never announced: each later
  completion then delivers the entry before its own, and the last one waits for
  the next.  This lag is made up by nothing but the next stop, or a stale
  completion.
* `ImplementsChannel`: the queue implements `EventChannel`: in order, at most
  once, only in service, nothing dropped while open, whatever callers do.
* `EntriesHandled`: an entry in the store of a running queue is handled, or the
  service is stopped, but for the last ones: as many as completions were lost.

Five entries are enough for two lost completions followed by two normal ones and
an entry in the gap of `AddToQueue`; two producers make one wait for the lock.
Deadlock is checked: the service can always be started again.

Fairness: a thread inside `AddToQueue` leaves it; the thread runs; the sink
returns; the stop goes on: weak.  `GetData` needs the lock, which producers take
again and again: strong.

### Proof

`QueueServiceProofs` proves `TypeOK`, the two invariants and `Spec =>
ImplementsChannel` for any producers, any number of entries and restarts.
`IInv` adds to the counting invariant which states of the thread and of the port
go with which stage of start and stop, and that one caller at most is inside
`AddToQueue`.  Nothing in it ties callers to the stage; what a stop does to the
caller inside is that its entry is no longer `kept`, which is how the sum stays
even.  The refinement maps `pending` to the buffer followed by the store: taking
an entry is a stutter, the sink's return is `Handle`.

Not modelled: `RemoveData` (171) runs without the lock, so that it may overlap
`InsertData` inside `CDataQueue`, which is not in the repository; each is one
step here.

## 4. Timers

### Model and code

The timers are described three times, each description implemented by the next:

* `Timers`: every timer counts down by itself.
* `TimerEngine`: the idea of the code, one countdown for all of them.  The list
  is a set of timer numbers, and a tick is `TickIdle`, `TickCounts` or
  `TickScans`, where one formula goes over all items.
* `TimerList`: the code.  `list` is `m_TimerItemActive` in its order, `index` and
  `least` are the loop's `i` and `dwTimeLeave`, and one iteration of the loop
  (`NotDue`, `Restart`, `Exhaust`) is one step.  `SetTimer` and `KillTimer`
  search the array for the first item with the number.  `posted` has the events
  in the order in which they were posted.

Every function takes the engine's lock, so each is one step, and none can happen
while `index` is not 0; `StopService` is three steps, since it waits for the
thread between its assignments, and it lowers the flag without the lock, in the
middle of the loop if it likes.  DWORDs count modulo `DwordSize`.

The mapping from `TimerList` to `TimerEngine` makes the loop take effect when it
ends: during the loop `TimerEngine`'s variables have the values that they had
when it started, kept in the history variable `before` (`Settled`), and
`LoopEnds` is `TickScans`.  A `StopService` in between is `StopService` there.

Callers: timers are set and killed by the attemper's sink and by the service
engine, between start and stop.  The functions themselves do not look at the
flag, and `StartService` does not clear the list (hazard at 219).

### Properties, and what the runs show

`TimerEngine` (module `TimerList`; 3 timers, times 20 and 45 ms, repetitions 0, 2
and for ever, a DWORD of 8 bits; 99,541 states):

* `TypeOK`: with it, no timer is in the array twice and no pass of the loop
  notifies one twice.
* `CountdownIsEarliest`: the countdown is off exactly without timers, else whole
  ticks and never later than a timer; within the loop, no item ahead is overdue
  and the minimum so far is whole ticks.  These are the asserts at 286, 291, 306
  and 338.
* `ImplementsEngine`: the loop visits each item once although it removes some
  while it walks, posts one event for each due timer, and finds the earliest
  next time, in whatever order the items are.
* `CountsEachTimer`: the engine implements `Timers`: every timer fires in its
  own tick and no other, as often as it should.  A timer's time is its item's
  time less the time counted since the last scan.
* `TimersKeepFiring`: a timer that stays set fires again and again, unless it is
  put off by setting it anew.  Fairness: the timer thread runs (weak).

20 is rounded to one tick and 45 to two, so that timers are set before and in the
middle of a countdown and one set later may come due with or after one set
earlier; three timers make an array where one is due, one is removed and one is
neither, in every order.  255 is both the "for ever" value and the "no time
left" marker of an 8-bit DWORD.  `Repeats` has 0, which `SetTimer` refuses.

`TimerZeroElapse` (module `TimerEngine`) is finding 3.

### Proof

`TimerEngineProofs` proves `TypeOK`, `CountdownIsEarliest` and `Spec =>
CountsEachTimer` of `TimerEngine` for any timers, times, repetitions and DWORD
size, under `ModestElapses`: every time is positive and less than half of a
DWORD, less the rounding.  This is what the callers keep to and what the code
does not check; without it finding 3, or a wrap of the sum at line 147, breaks
the properties.  `IInv` says that pass plus countdown stays below half of a
DWORD, so that no sum wraps, that both are whole ticks, and that each item's
time is at least their sum and at most its period plus the time passed.  The
last bound is what makes the reset of the countdown after a scan modest again.

`TimerListProofs` proves `TypeOK` and `Spec => ImplementsEngine` of `TimerList`
without `ModestElapses`: the array and its loop do what `TimerEngine` says even
when times wrap.  Its `IInv` has, for the time that the loop runs (`LoopInv`),
how the array is related to the one that the loop found: the items from `index`
on are the last items of the old array, untouched; those before it are the
visited ones that were not exhausted, each as the scan of `TimerEngine` leaves
it; `posted` holds exactly the visited items that were due; and `least` is the
earliest time of the items behind.
When `index` passes the end this is the formula of `TickScans`
(`LoopEndsRefines`).  The lemmas before it say what `Append`, the replacement of
an item and `RemoveAt` do to the set of numbers and to the items by number; they
rest on no number being in the array twice.

`CountsEachTimer` and `CountdownIsEarliest` of `TimerList` then follow from the
theorems of `TimerEngineProofs`, taken through the mapping, under
`ModestElapses`; the asserts inside the loop need in addition that the items
ahead are those of the state before the loop, where none is overdue.

## 5. The service engine

### Model and code

`control` is where the one thread is that calls `StartService` and
`StopService`: which engine, and which of the engine's own steps.
`StartOrder` and `StopOrder` are lines 134-138 and 156-160.  Inside, an engine
is its `m_bService` (`flags`), its threads (`live`), and what it adds to which
queue; its insides are in the modules of its own.  The two queues are
`queue[q]`: port, thread, quit completion, number of completions, store and the
entry at the sink.  Every step of a start may fail and ends the start where it
is.  The attemper's sink may set and kill timers and make data base requests
whenever it is called (`SinkCalls`), in its start and stop too; the data base
sink answers to the attemper's queue; the timer thread, a worker of the socket
engine and callers of `ControlService` add events, the last two after having
looked at a flag some time before.

An entry remembers the service it was added in and whether its queue had a port
then (`announced`).  Left out: what only the engines' own modules need (the gap
inside `AddToQueue`, the countdown's value), the exceptions of the queue's
`StartService` beyond ending the start, timers that are set from other threads
after a stop.

### Properties, and what the run shows

`ServiceEngine` (three calls of `StartService`, four entries, one timer, one
caller of `ControlService`, one worker; 35,684 states, deadlock checked):

* `RestBeforeStart`: whichever starts failed before, `StartService` reaches only
  engines, sinks and queues that are down, so that the asserts at
  `QueueService.cpp:134` hold.  What protects a retry is that the timer engine,
  the first to be started, refuses a second start; a mutant without this fails.
* `AttemperHasItsEngines`: while the queue's thread can call the attemper's
  sink, the engines the sink uses are in service.
* `SinkCallsInScope`: a sink is called by its queue between its start and stop.
* `StaleEventsUnannounced`: the attemper may be handed events of an earlier
  service, since the timer and socket engines stop after it and
  `ControlService` may be late; but only those that were added while its queue
  had no port.  Nothing the open queue had accepted is left over.
* `RequestsStayInService`: the same cannot happen to data base requests.
* `CountdownRuns`: the assert at `TimerEngine.cpp:286`.  `StartService` switches
  the countdown off without clearing the list (hazard at 219); the list is
  empty by then because the timer engine's own stop clears it, after the last
  call of the attemper's sink.
* `StopServiceReturns`: `StopService` returns from whatever a start has left,
  with one exception.  `AsynchronismEngine.cpp:149` joins the message thread
  without limit, and the thread is told nothing when `WM_QUIT` is refused by its
  full message queue (76): `ConcludeRefused` is this outcome, and a late message
  (`LateMessage`) may end it, but need not.  `CallsReturn` of section 6 has the
  same exception from the message queue's length.

Three services let a start fail, be tried again, be stopped and be started
once more; four entries are two in a closed queue, one behind and one answer.

Fairness: the steps of start and stop go on, the threads run and sinks return.
None is assumed of who calls `StartService` or `ControlService`.

### Proof

`ServiceEngineProofs` proves the six safety properties for any timers, callers
and bounds.  `DownInv`, the core of `IInv`, says for each engine at which places
of start and stop it is certainly down; in particular all are when nothing is
under way and the timer engine's flag is false, which is why asking the timer
engine is enough.  `ControlInv` says which engines are certainly up, `QueueInv`
how port, thread and quit completion go together, and the others which entries
and timers are left at which place.

## 6. The asynchronism engine and its thread

### Model and code

`ServiceThread` is `CServiceThread`: `owner` the place inside `StartThead` (sic)
and `StopThread`, `handle`, `run` and `param` its variables, `fn[t]` the place of
each thread of the operating system inside `ThreadFunction`.  The three virtual
functions are actions that `AsynchronismEngine` adds its own conjuncts to
(`OnMessageThreadStart`, `GetMessage`, `OnMessageThreadStop`).  The start and the
stop event walk the sink array one element a step (`CreateWindow`,
`DestroyWindow`, then `TellSink`), and each iteration reads element 0, as lines
239 and 262 do.  `RegisterAsynchronismEngineSink` and its inverse have no guard
but their own: any thread may call them at any time, also in the middle of a
walk.

`CheckService`, `InsertData`, `PostMessage` are `InsertRequest`: the flag is
read without the lock.  `GetAsynchronismEngine` (`ServiceEngine.cpp:57`) hands
the engine to anyone, so `StopService` waits for no caller: one may be between
its request and its message over a stop and a start.  `messages` is the thread's
message queue with its limit, `WM_QUIT` among the requests' numbers.
`DistillData` takes lock and request, `OnAsynchronismRequest` is the sink's
return; in between the sink may add requests, as the thread may enter its own
lock.  History variables: `told` the starts less the stops that each sink was
told, `grown` the sinks registered after the start event, `removed` that one was
unregistered, `lost` the requests in the store without a message, `stale` the
callers that `RemoveData` found between a request and its message, `refused` a
`WM_QUIT` that found the queue full.

### Properties, and what the run shows

`Asynchronism` (two threads of the operating system, one caller and the sink,
two sinks, two messages, three requests; 201,630 states):

* `RequestMatchesMessage`: the assert at 287, unless a message was lost or a
  caller passed a stop.  A post that fails (175) leaves the request in the store,
  and from then on each message takes the request before its own, as in the
  queue; a message posted after `RemoveData` took its request takes another's,
  or, from an empty store, the buffer's last.
* `StartsMatchStops`: when the thread has ended, after a failed start too, the
  first sink was stopped as often as it was started and once more for each sink
  registered after the start event, since every iteration of the two loops tells
  the first sink; the other sinks were told nothing.  A sink that is
  unregistered under a living thread breaks the balance, and nothing is said of
  it.
* `SingleThread`, `ParameterInScope`: no two threads in one object; the thread
  is done with the parameter on `StartThead`'s stack before that returns.
* `ImplementsChannel`: in order, none twice, none dropped while the thread lives.
* `RequestsHandled`, `CallsReturn`: liveness.  The second has two exemptions
  that are in the code: `StartThead` waits for ever when `_beginthreadex` failed
  (`ServiceThread.cpp:129`), and `WM_QUIT` is refused by a full message queue
  (`AsynchronismEngine.cpp:76`), after which the thread waits in `GetMessage`.
  Deadlock is not checked for the first one's sake.

Two messages are enough to fill the queue with a caller and the sink; three
requests are one lost or late and two behind it; two threads make a second start
possible.  A second caller adds only the wait for the lock, which caller and
sink already show, and the proofs cover any number.

Fairness: the message thread and callers inside `InsertRequest` go on, and so
do start and stop (weak); the lock is had by whoever waits (strong).

### Proof

`AsynchronismProofs` proves the four safety properties and both refinements, of
`ServiceThread` and `EventChannel`, for any callers, sinks and limits.  The
heart of `IInv` is `PairInv`: with nothing lost and nobody left over from before
a stop (`Sound`), each message up to `WM_QUIT` is for the request at its own
place in the store, behind the one being dispatched, and the store is longer
only by the request whose caller is between `InsertData` and `PostMessage`, of
which there is one since it holds the lock.  It speaks of the places of start
and stop at which the store and the messages are those of one service (`Open`).
`NoticeInv` says at each place of the two loops how often the first sink was told
more than it was told to stop (`Due`): the iterations done, less, once the start
event is over, those sinks that came later.  `Quiet` says that without a thread
there is neither window nor message, so that a new thread begins with an empty
queue.

## 7. The data base's reconnection

`DataBase` is `CDataBase`: `link` the connection, which may be dead while
`GetState` says open, `recordset`, `count` (`m_dwConnectCount`, with its width)
and `elapsed`, the time since `m_dwConnectErrorTime`.  `OpenConnection` waits for
the server between closing and opening.  `Execute` and `ExecuteCommand` end in
`TryConnectAgain` on whatever `IsConnectError` takes for a connection error.
`TryConnectAgain` attempts to reconnect when the last error is *recent* (164),
which is the inverse of a pause, or when there were more than 30.

`DataBase` (limit 3, pause 2, a counter of 3 bits; 446 states, deadlock
checked) shows `RefusalsBounded`: at most limit + 1 commands in a row are
refused without an attempt, over the wrap of the counter as well; and
`ConnectionResumes`: when the server stays, the connection is alive again and
again, however far apart the commands are.  Fairness: commands are made, and
`OpenConnection` returns.  Small numbers are enough because count and pause are
only compared; the counter's width lets it wrap several times.

`DataBaseProofs` proves `RefusalsBounded` for any limit, pause and width beyond
the limit.  `IInv` adds that `refused` is at most `count`: the counter only goes
round, or is reset, on an attempt, which ends the refusals.

Not modelled: the failure of `ActiveConnection=` after `Open` (111), and the
other commands' results.

## 8. The Piggy server

### Model and code

`pc[w]` is where each worker is, `item[w]` the completion it handles.  A
completion is an operation and a client; `port` is the completion port, first in
first out.  `context[c]` is whether the client's `PER_SOCKET_CONTEXT` was made
and deleted.  `_DoAccpet` (sic) is four steps, since other workers run between
them: the context and its association, the first receive, the list, the accept
posted anew; or, for the client that sends `RecvThread`, the receiver's pointer.
`_PostSend` enters `m_csLock`, and leaves by three returns without leaving it
(`left`).  `Shows`: a message is an item of the main window, so a worker can not
show it while that window's thread waits in `Stop`.

### Properties, and what the run shows

`Piggy` (two workers, two clients, two accepts; 238,975 states):

* `ContextsInUse`: no context that is listed, received into or in a worker's
  hands was deleted, although the first receive is posted (537) before the
  context is listed (545), so that another worker may find the client gone
  first.  `_RemoveContext` then finds nothing to delete, and the context is
  listed until the end.  The receiver's context is exempted once
  `_DoSendComplete` has deleted it behind `m_pRecvContext` (673).
* `AcceptsKept`: accepts posted, in the port, in hands and failed make
  `MAX_POST_ACCEPT`: each failure costs one for good (522, 540, 561, and a client
  that is gone before it is accepted), and nothing else does.
* `WorkersReturn`: a worker comes to the end of every completion it takes: to the
  head of its loop, or out of the loop after an error that `HandleError` does not
  know (868-869, and the `break` at 89-91), although the comment at 67 says that
  the loop goes on until it is told to shut down.  A worker that finds `m_csLock`
  left held by another waits at its entry for ever; the property says that it is
  held up nowhere else, and by nothing else, as long as `Stop` does not wait.
* `StopsWhenQuiet`: `Stop` returns when the workers are at the port and it holds
  nothing but exit completions.  It need not otherwise: see `Shows`.

Two workers make every pair of concurrent handlers, two clients a sender and a
receiver; with two accepts both may be lost.  Deadlock is not checked: the
server stops, and may hang in the two ways above.

Fairness: workers run and `select` returns (weak), a critical section that is
left over and over is entered by each that waits (strong), `Stop` goes on once
all workers have ended.

### Proof

`PiggyServerProofs` proves `ContextsInUse` for any workers, clients and accepts.
`IInv` says that each client has at most one accept and one receive, posted, in
the port, or in one worker's hands; that who has the receive may delete the
context only when it is listed, when the worker that accepted is done with it;
and that the receiver is never listed nor received from.

`AcceptsKept` is inductive together with it: `StepKeepsAccepts` shows for each
action that the accepts posted, in the port (positions of a sequence, counted by
a bijection when the head is taken), in hands and failed keep their sum.

## 9. Findings

1. `SocketEngine.cpp:1280`: the detect pass works on a copy of the active list
   and reads the tick before the lock.  When the connection ends in between and
   its slot is freed, the pass closes the slot a second time
   (`ASSERT(m_bNotify==false)` at 569).  The run `SocketCloseAssert` shows it
   with a pass that reads the old tick of a slot while its connection is being
   accepted: the first receive fails, the connection ends and frees the slot,
   and the pass closes the slot of the free list.  In the same way the pass
   closes a slot that is taken and not yet attached, and may close a slot's next
   connection for the silence of the last.  `FreeSlotIsClean` and
   `EventProtocol` still hold: the second close only raises the round.
2. `SocketEngine.cpp:368`: `ShutDownSocket` returns before it does anything, so
   the safe close of 1225 closes nothing (run `SocketSafeClose`).
3. `TimerEngine.cpp:102`: `SetTimer` accepts zero milliseconds; the countdown
   becomes zero, against the assert at 291, and wraps (run `TimerZeroElapse`).

Found while modelling and covered by exemptions in properties that hold, rather
than by a run that fails: the assert at `QueueService.cpp:66` and the one at
`AsynchronismEngine.cpp:287` for a caller that passes a stop and a start, the
lost post of 175, sinks registered under a running thread, the unchecked
`_beginthreadex` and `WM_QUIT`, the worker that ends against
`IOCPModel.cpp:67`, the reads of index 0 (189, 215, 239, 262), the inverse pause of
`DataBaseEngine.cpp:164`, the lock `_PostSend` leaves held, the receiver's
context, and the accepts that are lost.

## 10. What is proved and what is checked

Proved for all constants: the state invariants and action properties of the
components, but for those named below, and the refinements, listed in
`PROJECT.json`, from the named assumption on the constants of each module, which
TLC evaluates, and `ModestElapses`.

Only model-checked: the liveness properties (`ClosedSlotIsFreed`,
`StopServiceReturns` twice, `TimersKeepFiring`, `EntriesHandled`,
`RequestsHandled`, `CallsReturn`, `ConnectionResumes`, `WorkersReturn`,
`StopsWhenQuiet`), since liveness under fairness is out of the prover's reach.
No safety property of a passing run is only model-checked.

## 11. Not modelled, and plan

* A second start of the socket engine on slots whose operations the kernel has
  not completed when `StopService` resets them would be `SocketEngine` with a
  second `StartService`.  The wrap of the 16-bit round and a port that refuses a
  socket (810) are hazards no property covers.
* `CDataQueue` is not in the repository, so that `RemoveData` without the lock
  (`QueueService.cpp:171`) is one step here.
* The receive buffer of `OnRecvCompleted`: framing over partial reads, as a pure
  function against a reference definition.
* `CHttpSessionMaster` does not compile (`httpSessionMaster.h:90`); its tasks
  are libcurl calls.
* `CTcpSrv` is unfinished.  The event service, the entry points and the headers
  have no state that others depend on.
* The rest of the repository, 98 percent of its lines, is curl, redisclient,
  tinyxml, jsoncpp, Python headers and exercises of one file each without a
  common system.  They are third-party code or have no states; the share of the
  repository's lines that the models cover is small for this reason, and most of
  the kernel engine's own `.cpp` files are covered.
