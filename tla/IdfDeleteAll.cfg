\* SPIFFS_IDFDriver without any fault: names returned by filesList lack the
\* path of the mount point.
SPECIFICATION Spec
CONSTANTS
  Absent = Absent
  Unreadable = Unreadable
  NoCall = NoCall
  Names = {a}
  Payloads = {x}
  Reformatted = {}
  TooLong = {}
  Dotted = {}
  Driver = "IDF"
  Faults = {}
  ListedNamesResolve = FALSE
  Modes = {"MD5"}
  MaxTries = 3
  MaxCalls = 2
PROPERTIES
  TrueMeansAllDeleted
