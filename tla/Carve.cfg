SPECIFICATION Spec
CONSTANTS
    Unbounded = 1000
    Nodes <- MCNodes
    InRoot <- MCInRoot
    Kind <- MCKind
    Above <- MCAbove
    Refs <- MCRefs
    Text <- MCText
    Inputs <- MCInputs
    MaxRounds = 3
INVARIANTS OutputIsSound CarvedForCause RejectedForCause OrderIsInvisible
PROPERTY RunEnds
