SPECIFICATION FairCallSpec
CONSTANTS
  Stacks <- MCStacks
  Budget = 1
  Calls <- MCCalls
  MaxErrorBody = 2
  MaxChunk = 2
  Int32 = {}
  Int64 = {}
  Formatted = {}
  Base64Texts = {}
INVARIANTS OneEffect StreamsSentOnce SentAsRegistered ReadAsDocumented ArgumentsArrive
PROPERTY CallEnds
