SPECIFICATION FairSpec
CONSTANTS
  Asks <- TwoAsks
  MaxLoops = 13
  MaxLag = 2
INVARIANTS RestShowsOwn ScreenFollowsLog NothingLeftActive OneRunAtATime TimeoutIsOwn
PROPERTY EveryAskEnds
\* The reader may stop asking.
CHECK_DEADLOCK FALSE
