\* Nine events against queues of two, under fairness: several overflows and
\* recoveries, and the bound of the feed is reached.
CONSTANTS
  MaxCommitted = 9
  Capacity = 2
  ReplayPage = 2
  DrainLimit = 2
  MaxEvents = 8
SPECIFICATION FairSpec
INVARIANTS
  FeedIsWhole
PROPERTIES
  FeedCatchesUp
CHECK_DEADLOCK FALSE
