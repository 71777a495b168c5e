SPECIFICATION Spec
CONSTANTS
  b1 = b1
  b2 = b2
  c1 = c1
  Builders = {b1, b2}
  Caches = {c1}
  CacheOf <- SharedCache
  NoCache = NoCache
  NumFiles = 2
  Loads <- MCLoads
  Accepts <- MCAccepts
  Render <- MCRender
  Edited = Edited
  NoFile = NoFile
  Partial = Partial
  OutputFile = OutputFile
  Recurs = FALSE
  MaxVersion = 1
  MaxAttempt = 0
SYMMETRY Symmetry
INVARIANTS OneInstant TrueModule WarmCallIsCached
PROPERTY Implements
