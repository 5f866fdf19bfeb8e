SPECIFICATION FairSpec
CONSTANTS
  Producers = {p1, p2}
  MaxAdded = 5
INVARIANTS
  TypeOK
  CompletionHasEntry
  CompletionsMatchEntries
PROPERTIES
  ImplementsChannel
  EntriesHandled
