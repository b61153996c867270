SPECIFICATION FairSpec
CONSTANTS
  Trees <- MCTrees
  Outside <- MCOutside
  MaxDepth = 3
  MaxRuns = 2
INVARIANTS TypeOK LinksNotFollowed SuccessMeansBuilt AnnouncedIsWritten
PROPERTIES HandwrittenKept CheckWritesNothing Termination
CHECK_DEADLOCK FALSE
