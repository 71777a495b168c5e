SPECIFICATION FairSpec
CONSTANTS
  b1 = b1
  b2 = b2
  c1 = c1
  Builders = {b1}
  Caches = {c1}
  CacheOf <- SoloCache
  NoCache = NoCache
  NumFiles = 1
  Loads <- MCLoads
  Accepts <- MCAccepts
  Render <- MCRender
  Edited = Edited
  NoFile = NoFile
  Partial = Partial
  OutputFile = OutputFile
  Recurs = TRUE
  MaxVersion = 1
  MaxAttempt = 1
INVARIANTS TargetsWhole
PROPERTY CallReturns
