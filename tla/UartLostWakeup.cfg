\* Data whose event is handled while the callback runs is not announced.
SPECIFICATION FairSpec
CONSTANTS
  Modulus = 8
  Period = 3
  Sleeps <- SleepsOfOneTick
  MaxLate = 0
  QueueLength = 2
  BufferSize = 2
  LineFaults = {}
  MaxArrivals = 2
PROPERTIES
  DataIsAnnounced
