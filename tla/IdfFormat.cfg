\* SPIFFS_IDFDriver without any fault, text x altered by fprintf.
SPECIFICATION Spec
CONSTANTS
  Absent = Absent
  Unreadable = Unreadable
  NoCall = NoCall
  Names = {a}
  Payloads = {x}
  Reformatted = {x}
  TooLong = {}
  Dotted = {}
  Driver = "IDF"
  Faults = {}
  ListedNamesResolve = TRUE
  Modes = {"NORMAL", "MD5"}
  MaxTries = 3
  MaxCalls = 2
PROPERTIES
  SavedVerbatim
