\* Two tasks that print messages of exactly one piece and of three pieces,
\* through a queue of two.
SPECIFICATION FairSpec
CONSTANTS
  Producers = {p, q}
  Lengths = {2, 5}
  MaxPiece = 2
  QueueLength = 2
  None = None
  MaxCalls = 2
INVARIANTS
  TypeOK
  OneOwner
PROPERTIES
  ImplementsStreams
  EveryTaskReturns
