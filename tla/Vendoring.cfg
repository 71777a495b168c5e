SPECIFICATION FairSpec
CONSTANTS
  Hosts = {"h", "g"}
  Names = {"a", "b"}
  Root = "a"
  Locals <- MCLocals
  Replies <- MCReplies
  Precedes <- MCPrecedes
  NoDoc = NoDoc
  Torn = Torn
  MaxRuns = 2
INVARIANTS BuildIsPinned WalksAgree UsableSurvives
PROPERTY WalksEnd
