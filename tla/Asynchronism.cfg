SPECIFICATION FairSpec
CONSTANTS
  Threads = {t1, t2}
  NoThread = NoThread
  Callers = {c1}
  Self = self
  Sinks = {s1, s2}
  MaxSinks = 2
  MaxMessages = 2
  MaxAdded = 3
INVARIANTS
  RequestMatchesMessage
  StartsMatchStops
  SingleThread
  ParameterInScope
PROPERTIES
  ImplementsChannel
  RequestsHandled
  CallsReturn
\* StartThead waits for ever for a thread that was not made.
CHECK_DEADLOCK FALSE
