\* A server of two handlers and an application with three; a client with two
\* requests and two redirections; URLs of seven tokens; directories of three
\* entries; voltages in place of 16 bits up to 9.  A behaviour ends when its inputs
\* have reached their bounds.
SPECIFICATION Spec
CONSTANTS
  Uris = {u, v, w}
  ErrorCodes = {e}
  MaxUris = 2
  MaxHandlers = 3
  Lengths = {1, 3}
  ServerFaults = {"start", "register"}
  NoContent = NoContent
  Requests = {r, s}
  NoRequest = NoRequest
  NoClient = NoClient
  NoResponse = NoResponse
  MaxRedirections = 2
  MaxParts = 2
  MaxCalls = 2
  Tokens = {"http", "a", ":", "/", " "}
  MaxTokens = 7
  Stems = {a, b}
  Extensions = {".d", ".m", ".c.d"}
  NoDot = NoDot
  MaxEntries = 3
  MaxVoltage = 9
INVARIANTS
  ServerTypeOK
  ClientTypeOK
  ServedOrReported
  ContentOfOnePart
  EventsReachTheCaller
  UrlAccepted
  UrlTakenApart
  ListingComplete
  CountsAgree
  ChargeRises
PROPERTIES
  StartCompletes
  ApplicationReturns
  TrueMeansAnswered
  StatusSettles
CHECK_DEADLOCK FALSE
