SPECIFICATION Spec
CONSTANTS
  Bodies <- MCBodies
  MaxBody = 6
  MaxMarked = 3
  MaxChunk = 3
INVARIANTS ChunksAreInvisible
