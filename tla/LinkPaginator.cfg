\* Four pages behind two fragments each: cycles of every length up to four.
SPECIFICATION FairPaginatorSpec
CONSTANTS
  Pages = {"a", "b", "c", "d"}
  Fragments = {"f", "g"}
INVARIANTS NoPageTwice NoneMeansTheEnd
PROPERTY LoopEnds
