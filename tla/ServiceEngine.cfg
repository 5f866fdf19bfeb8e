SPECIFICATION FairSpec
CONSTANTS
  Timers = {t1}
  Controllers = {c1}
  Worker = worker
  MaxServices = 3
  MaxAdded = 4
INVARIANTS
  RestBeforeStart
  AttemperHasItsEngines
  SinkCallsInScope
  StaleEventsUnannounced
  RequestsStayInService
  CountdownRuns
PROPERTIES
  StopServiceReturns
