----------------------------- MODULE Webserver -----------------------------
(***************************************************************************)
(* Webserver: the handlers that an application registers, on a server that *)
(* it starts and stops, and the handler that reads the content of a        *)
(* request with getContent.  The application's calls come from one task;   *)
(* the server (esp_http_server, not part of the repository) runs requests  *)
(* in a task of its own, one at a time.                                    *)
(***************************************************************************)
EXTENDS Naturals, Sequences, FiniteSets, Functions

CONSTANTS
  Uris,
  ErrorCodes,
  MaxUris,      \* max_uri_handlers of the server's configuration
  MaxHandlers,  \* bound of the model: calls of setUriHandler
  Lengths,      \* content_len of the requests
  ServerFaults, \* subset of {"start", "register"}: the server lacks memory
  NoContent     \* getContent has returned nothing yet

ASSUME ServerAssumption ==
  /\ MaxUris \in Nat /\ MaxHandlers \in Nat
  /\ Lengths \subseteq Nat \ {0}
  /\ ServerFaults \subseteq {"start", "register"}
  /\ NoContent \notin Seq(Nat)

VARIABLES
  server,       \* _server: "none" at first, "live", "dead" after httpd_stop
  handlers,     \* _handlers
  errHandlers,  \* the codes in _errHandlers
  served,       \* the handlers that the live server knows
  errServed,    \* the error handlers that it knows
  app,          \* the application's call: "idle", "registering", "stopping"
  next,         \* the handler that start registers next
  returned,     \* what the last call returned: "none", "ok", "error"
  complete,     \* history: the start of the live server returned ESP_OK
  refused,      \* history: handlers refused since then
  wanted,       \* history: handlers given to setUriHandler
  handler,      \* the server's task: "waiting" or "receiving" in getContent
  ret,          \* getContent's string; byte i of the content is the number i
  received,     \* content_len - remaining
  parts,        \* history: the number of parts it came in
  peer,         \* the client of the request: "sending", "silent", "closed"
  content       \* what getContent returned last

registry == <<server, handlers, errHandlers, served, errServed>>
calling == <<app, next, returned, complete, refused, wanted>>
request == <<handler, ret, received, parts, peer, content>>
serverVars == <<registry, calling, request>>

ServerInit ==
  /\ server = "none"
  /\ handlers = <<>> /\ errHandlers = {}
  /\ served = {} /\ errServed = {}
  /\ app = "idle" /\ next = 0 /\ returned = "none"
  /\ complete = FALSE /\ refused = {} /\ wanted = {}
  /\ handler = "waiting" /\ ret = <<>> /\ received = 0 /\ parts = 0
  /\ peer = "closed" /\ content = NoContent

-----------------------------------------------------------------------------
(* start, stop and the registrations.                                      *)

\* What httpd_register_uri_handler may answer: nothing but an error without a
\* server, for a handler it has, and when it is full; anything on the handle of
\* a stopped server, which is freed memory.
RegisterResults(u) ==
  CASE server = "none" -> {"error"}
    [] server = "dead" -> {"ok", "error"}
    [] u \in served \/ Cardinality(served) = MaxUris -> {"error"}
    [] OTHER -> {"ok"} \cup (IF "register" \in ServerFaults THEN {"error"} ELSE {})

\* httpd_start: refused while a server of this object holds the port.
Start ==
  /\ app = "idle"
  /\ \/ /\ server # "live"
        /\ server' = "live"
        /\ app' = "registering"
        /\ next' = 1
        /\ returned' = "none"
        /\ complete' = FALSE
        /\ refused' = {}
     \/ /\ server = "live" \/ "start" \in ServerFaults
        /\ returned' = "error"
        /\ UNCHANGED <<server, app, next, complete, refused>>
  /\ UNCHANGED <<handlers, errHandlers, served, errServed, wanted, request>>

StartReturns(r) ==
  /\ app' = "idle"
  /\ next' = 0
  /\ returned' = r
  /\ complete' = (r = "ok")
  /\ UNCHANGED <<served, refused>>

\* Mutant: start goes on after a handler that could not be registered.
RegisterNextAnyway ==
  /\ app = "registering"
  /\ \/ next > Len(handlers) /\ StartReturns("ok")
     \/ /\ next <= Len(handlers)
        /\ served' = served \cup (IF "ok" \in RegisterResults(handlers[next])
                                  THEN {handlers[next]} ELSE {})
        /\ next' = next + 1
        /\ UNCHANGED <<app, returned, complete, refused>>
  /\ UNCHANGED <<server, handlers, errHandlers, errServed, wanted, request>>

\* The loop of start, which ends at the first error; requests are served
\* already, and a server of which the start failed goes on running.
RegisterNext ==
  /\ app = "registering"
  /\ \/ next > Len(handlers) /\ StartReturns("ok")
     \/ /\ next <= Len(handlers)
        /\ \/ /\ "ok" \in RegisterResults(handlers[next])
              /\ served' = served \cup {handlers[next]}
              /\ next' = next + 1
              /\ UNCHANGED <<app, returned, complete, refused>>
           \/ "error" \in RegisterResults(handlers[next]) /\ StartReturns("error")
  /\ UNCHANGED <<server, handlers, errHandlers, errServed, wanted, request>>

\* Mutant: a handler is remembered only when the server has taken it.
RememberServed(u, r) == handlers' = IF r = "ok" THEN Append(handlers, u) ELSE handlers

\* The handler is remembered whatever the server answers.
Remember(u, r) == handlers' = Append(handlers, u)

SetUriHandler(u) ==
  /\ app = "idle"
  /\ Len(handlers) < MaxHandlers
  /\ \E r \in RegisterResults(u) :
       /\ Remember(u, r)
       /\ returned' = r
       /\ served' = IF server = "live" /\ r = "ok" THEN served \cup {u} ELSE served
       /\ refused' = IF r = "error" THEN refused \cup {u} ELSE refused
       /\ wanted' = wanted \cup {u}
  /\ UNCHANGED <<server, errHandlers, errServed, app, next, complete, request>>

\* Error handlers are remembered too, but start does not register them.
SetErrorHandler(c) ==
  /\ app = "idle"
  /\ errHandlers' = errHandlers \cup {c}
  /\ \E r \in CASE server = "none" -> {"error"}
                [] server = "live" -> {"ok"}
                [] server = "dead" -> {"ok", "error"} :
       /\ returned' = r
       /\ errServed' = IF server = "live" THEN errServed \cup {c} ELSE errServed
  /\ UNCHANGED <<server, handlers, served, app, next, complete, refused, wanted, request>>

\* httpd_stop has its task end, and waits for it.  Without a server it fails;
\* on the handle of a stopped server anything may happen.
Stop ==
  /\ app = "idle"
  /\ \/ server = "live" /\ app' = "stopping" /\ UNCHANGED returned
     \/ server # "live" /\ returned' = "error" /\ UNCHANGED app
     \/ server = "dead" /\ returned' = "ok" /\ UNCHANGED app
  /\ UNCHANGED <<registry, next, complete, refused, wanted, request>>

\* _server keeps the handle.
StopReturns ==
  /\ app = "stopping"
  /\ handler = "waiting"
  /\ server' = "dead"
  /\ served' = {} /\ errServed' = {}
  /\ app' = "idle"
  /\ returned' = "ok"
  /\ UNCHANGED <<handlers, errHandlers, next, complete, refused, wanted, request>>

\* A call on a handle of freed memory may also crash the chip, which restarts.
Crash ==
  /\ server = "dead" /\ app = "idle"
  /\ server' = "none"
  /\ handlers' = <<>> /\ errHandlers' = {}
  /\ returned' = "none"
  /\ complete' = FALSE /\ refused' = {} /\ wanted' = {}
  /\ peer' = "closed" /\ content' = NoContent
  /\ UNCHANGED <<served, errServed, app, next, handler, ret, received, parts>>

-----------------------------------------------------------------------------
(* Requests.                                                               *)

\* A request with content arrives, and its handler calls getContent.
Request(u, length) ==
  /\ server = "live" /\ app # "stopping"
  /\ handler = "waiting"
  /\ u \in served
  /\ handler' = "receiving"
  /\ ret' = [i \in 1 .. length |-> 0]
  /\ received' = 0 /\ parts' = 0
  /\ peer' = "sending"
  /\ content' = NoContent
  /\ UNCHANGED <<registry, calling>>

\* The client pauses and goes on, or ends the connection.
PeerActs ==
  /\ handler = "receiving"
  /\ peer # "closed"
  /\ peer' \in {"sending", "silent", "closed"} \ {peer}
  /\ UNCHANGED <<registry, calling, handler, ret, received, parts, content>>

GetContentReturns(s) ==
  /\ content' = s
  /\ handler' = "waiting"

\* Mutant: an interrupted connection ends the loop like a complete content.
ReceiveUnchecked ==
  /\ handler = "receiving" /\ peer = "closed"
  /\ GetContentReturns(ret)
  /\ UNCHANGED <<registry, calling, ret, received, parts, peer>>

\* Mutant: the loop is repeated when nothing remains.
ReceiveOnceMore ==
  /\ handler = "receiving" /\ peer = "sending"
  /\ \E n \in 0 .. Len(ret) - received :
       /\ ret' = [i \in DOMAIN ret |-> IF i <= n THEN received + i ELSE ret[i]]
       /\ received' = received + n
  /\ parts' = parts + 1
  /\ UNCHANGED <<registry, calling, handler, content, peer>>

\* httpd_req_recv of n bytes to the start of the string.
Receive ==
  /\ handler = "receiving" /\ peer = "sending"
  /\ \E n \in 1 .. Len(ret) - received :
       /\ ret' = [i \in DOMAIN ret |-> IF i <= n THEN received + i ELSE ret[i]]
       /\ received' = received + n
  /\ parts' = parts + 1
  /\ \/ received' = Len(ret) /\ GetContentReturns(ret')
     \/ received' < Len(ret) /\ UNCHANGED <<handler, content>>
  /\ UNCHANGED <<registry, calling, peer>>

\* Mutant: every error is taken for a timeout.
ReceiveAgain ==
  handler = "receiving" /\ peer = "closed" /\ UNCHANGED serverVars

\* httpd_req_recv fails.  A timeout, while the client is silent, is no step:
\* the loop tries again and nothing has changed.
ReceiveFails ==
  /\ handler = "receiving" /\ peer = "closed"
  /\ GetContentReturns(<<>>)
  /\ UNCHANGED <<registry, calling, ret, received, parts, peer>>

-----------------------------------------------------------------------------
ServerNext ==
  \/ Start \/ RegisterNext \/ Stop \/ StopReturns \/ Crash
  \/ \E u \in Uris : SetUriHandler(u) \/ \E n \in Lengths : Request(u, n)
  \/ \E c \in ErrorCodes : SetErrorHandler(c)
  \/ PeerActs \/ Receive \/ ReceiveFails

\* The application's call and the server's task go on; clients need not.
ServerFairness == WF_serverVars(RegisterNext \/ StopReturns) /\ WF_serverVars(Receive \/ ReceiveFails)

ServerSpec == ServerInit /\ [][ServerNext]_serverVars
ServerFairSpec == ServerSpec /\ ServerFairness

-----------------------------------------------------------------------------
(* Properties.                                                             *)

\* The types of the variables; getContent has something left to receive.
ServerTypeOK ==
  /\ server \in {"none", "live", "dead"}
  /\ handlers \in Seq(Uris) /\ served \subseteq Uris /\ Cardinality(served) <= MaxUris
  /\ errHandlers \subseteq ErrorCodes /\ errServed \subseteq errHandlers
  /\ app \in {"idle", "registering", "stopping"}
  /\ next \in 0 .. Len(handlers) + 1
  /\ handler = "receiving" => server = "live" /\ received < Len(ret)
  /\ content \in Seq(Nat) \cup {NoContent}

\* After a start that returned ESP_OK, the live server serves each handler that
\* the application ever gave to setUriHandler, before the start, after it or to
\* an earlier server, save those it was told in the meantime that it refused.
ServedOrReported ==
  server = "live" /\ app = "idle" /\ complete => wanted \subseteq served \cup refused

\* A start completes only if no handler was given twice and all fit; when the
\* server has memory enough, then always.  (A handler that was refused once, as
\* a duplicate or for want of room, is remembered, and fails every later start.)
CompletesWhenFitting ==
  app = "registering" /\ app' = "idle" =>
    LET Fits == IsInjective(handlers) /\ Len(handlers) <= MaxUris IN
    /\ returned' = "ok" => Fits
    /\ Fits /\ "register" \notin ServerFaults => returned' = "ok"

StartCompletes == [][CompletesWhenFitting]_serverVars

\* getContent returns as many bytes as were announced, or none, when the client
\* went away; if they came in one part, they are the content.
ContentOfOnePart ==
  content # NoContent /\ content # <<>> =>
    /\ Len(content) = Len(ret) /\ received = Len(ret)
    /\ parts = 1 => content = [i \in DOMAIN content |-> i]

\* What a handler takes the result of getContent for: the content, or nothing.
ContentComplete ==
  content # NoContent /\ content # <<>> => content = [i \in DOMAIN content |-> i]

\* stop and start return; stop waits for the handler that is running, which
\* repeats a receive that timed out for as long as its client is silent.
ApplicationReturns == <>[](peer # "silent") => (app # "idle" ~> app = "idle")
=============================================================================
