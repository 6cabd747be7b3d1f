\* A server with one handler and contents of one and two bytes.
SPECIFICATION ServerFairSpec
CONSTANTS
  Uris = {u}
  ErrorCodes = {}
  MaxUris = 1
  MaxHandlers = 1
  Lengths = {1, 2}
  ServerFaults = {}
  NoContent = NoContent
INVARIANTS
  ContentComplete
