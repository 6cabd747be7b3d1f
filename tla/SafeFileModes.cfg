\* All modes on SPIFFSDriver, with fairness and every fault but a failing mount:
\* answers of single calls, and every call returns.  Name b contains a dot, name
\* c is too long.
SPECIFICATION FairSpec
CONSTANTS
  Absent = Absent
  Unreadable = Unreadable
  NoCall = NoCall
  Names = {a, b, c}
  Payloads = {x}
  Reformatted = {}
  TooLong = {c}
  Dotted = {b}
  Driver = "ARDUINO"
  Faults = {"open", "write", "flush", "read", "lookup", "list", "remove", "reset"}
  ListedNamesResolve = TRUE
  Modes = {"NORMAL", "MD5", "MD5_BACKUP"}
  MaxTries = 2
  MaxCalls = 3
PROPERTIES
  LostOnlyAtClose
  TrueMeansDeleted
  EveryCallReturns
