\* Event task, detector, readers and a noisy line in every order, with fairness:
\* what may be lost, when the line is announced to be idle, and that it is.
SPECIFICATION FairSpec
CONSTANTS
  Modulus = 8
  Period = 3
  Sleeps <- SleepsOfTicks
  MaxLate = 1
  QueueLength = 2
  BufferSize = 2
  LineFaults = {"overflow", "noise"}
  MaxArrivals = 3
INVARIANTS
  TypeOK
  NothingLostElsewhere
PROPERTIES
  QuietWhenAnnounced
  WatchingEndsInCallback
