\* Three errors and two ticks of the clock make the difference here that
\* 30 errors and 30 seconds make in the code; the counter goes round at 8.
SPECIFICATION FairSpec
CONSTANTS
  ResumeConnectCount = 3
  ResumeConnectTime = 2
  Width = 8
INVARIANTS
  RefusalsBounded
PROPERTIES
  ConnectionResumes
