SPECIFICATION FairStreamSpec
CONSTANTS
  NumEvents = 7
  Kind <- MCKind
  Numberings <- MCNumberings
  Limit = 2
  MaxFrame = 3
  ChunkLines = 3
  TornClose = FALSE
INVARIANTS InOrderOnce NoConcatenation AttemptsCountTheFruitless
PROPERTY StreamEnds
