\* MODE_USE_MD5 on SPIFFS_IDFDriver: text x is altered by fprintf, the names
\* that filesList returns lead nowhere, name b is too long.
SPECIFICATION Spec
CONSTANTS
  Absent = Absent
  Unreadable = Unreadable
  NoCall = NoCall
  Names = {a, b}
  Payloads = {x, y}
  Reformatted = {x}
  TooLong = {b}
  Dotted = {}
  Driver = "IDF"
  Faults = {"open", "read", "lookup", "list", "remove", "mount", "reset"}
  ListedNamesResolve = FALSE
  Modes = {"MD5"}
  MaxTries = 3
  MaxCalls = 3
INVARIANTS
  LoopInvariant
PROPERTIES
  ImplementsCheckedStore
