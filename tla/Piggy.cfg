\* Two workers, so that one handles a client's data while the other lists it;
\* two clients, one of which may be the receiver; two accepts to be lost.
\* When Stop has returned, or cannot, there is no further step.
SPECIFICATION FairSpec
CONSTANTS
  Workers = {w1, w2}
  Clients = {c1, c2}
  None = None
  MaxAccepts = 2
  MaxSends = 1
INVARIANTS
  ContextsInUse
  AcceptsKept
PROPERTIES
  WorkersReturn
  StopsWhenQuiet
CHECK_DEADLOCK FALSE
