\* A streamed and a unary request, one place in the queue, a client that may
\* leave at any time and a server that is stopped at any time, under fairness.
CONSTANTS
  s1 = s1
  u1 = u1
  None = None
  Requests <- TwoRequests
  Streams <- StreamRequests
  MaxQueued = 1
  HttpThreads = 2
  MaxPieces = 1
SPECIFICATION FairSpec
INVARIANTS
  OneTrueEnding
  NothingUsesTheDestroyed
PROPERTIES
  EveryoneEnds
CHECK_DEADLOCK FALSE
