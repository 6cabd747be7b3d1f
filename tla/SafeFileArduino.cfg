\* MODE_USE_MD5 on SPIFFSDriver, with every fault after which the answers of
\* the manipulator can be trusted, and restarts.
SPECIFICATION Spec
CONSTANTS
  Absent = Absent
  Unreadable = Unreadable
  NoCall = NoCall
  Names = {a, b}
  Payloads = {x}
  Reformatted = {}
  TooLong = {}
  Dotted = {}
  Driver = "ARDUINO"
  Faults = {"open", "write", "read", "lookup", "list", "remove", "mount", "reset"}
  ListedNamesResolve = TRUE
  Modes = {"MD5"}
  MaxTries = 2
  MaxCalls = 3
INVARIANTS
  TypeOK
  LoopInvariant
PROPERTIES
  TrueMeansStored
  ImplementsCheckedStore
SYMMETRY NameSymmetry
