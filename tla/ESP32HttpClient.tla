-------------------------- MODULE ESP32HttpClient --------------------------
(***************************************************************************)
(* ESP32HttpClient: a caller builds requests, has the one client perform   *)
(* them, one at a time, and destroys them.  The events of the library      *)
(* esp_http_client (not part of the repository) reach the request through  *)
(* user_data, a pointer that the library keeps after the call.             *)
(*                                                                         *)
(* A part of a body is <<call, exchange, number>>.  Whether a body arrives  *)
(* as a whole is up to the library: the client looks at the result of      *)
(* esp_http_client_perform alone, and only logs the content length.        *)
(***************************************************************************)
EXTENDS Naturals, Sequences
LOCAL INSTANCE SequencesExt

CONSTANTS
  Requests,         \* the HttpRequest objects, by address
  NoRequest,
  NoClient,
  NoResponse,
  MaxRedirections,  \* MAX_REDIRECTIONS and MAX_AUTH_TRIES
  MaxParts,         \* bound of the model: parts of one answer
  MaxCalls          \* bound of the model: calls of GET and POST

\* The codes that the client tells apart: none, 2xx, those that the library
\* answers with another exchange (301, 302, 307, 308 and 401), and the others.
eHttpCode == {"none", "ok", "again", "other"}

Bodies == Seq(Nat \X Nat \X Nat)
HttpResponses == [body : Bodies, code : eHttpCode]
HttpRequests == [status : {"IDDLE", "PENDING", "OK", "FAILED"},
                 response : HttpResponses \cup {NoResponse}, performed : Nat]
Clients == [userData : Requests, code : eHttpCode, length : 0 .. MaxParts,
            again : 0 .. MaxRedirections]

ASSUME ClientAssumption ==
  /\ NoRequest \notin Requests \cup HttpRequests
  /\ NoResponse \notin HttpResponses /\ NoClient \notin Clients
  /\ MaxRedirections \in Nat /\ MaxParts \in Nat /\ MaxCalls \in Nat

VARIABLES
  requests,  \* per address, the request, or NoRequest when there is none
  client,    \* _client with its configuration, or NoClient
  step,      \* "idle", or inside esp_http_client_perform: "connect", "body"
  current,   \* the argument req of the call in progress
  got,       \* history: the parts of the current exchange
  result,    \* what the last call returned: "none", "true", "false"
  httpCalls  \* number of calls, bounded by MaxCalls

clientVars == <<requests, client, step, current, got, result, httpCalls>>

\* "performed" is history.
NewRequest == [status |-> "IDDLE", response |-> NoResponse, performed |-> 0]

ClientInit ==
  /\ requests = [r \in Requests |-> NoRequest]
  /\ client = NoClient
  /\ step = "idle" /\ current = NoRequest /\ got = <<>>
  /\ result = "none" /\ httpCalls = 0

Construct(r) ==
  /\ step = "idle" /\ requests[r] = NoRequest
  /\ requests' = [requests EXCEPT ![r] = NewRequest]
  /\ UNCHANGED <<client, step, current, got, result, httpCalls>>

\* The client is not told.
Destroy(r) ==
  /\ step = "idle" /\ requests[r] # NoRequest
  /\ requests' = [requests EXCEPT ![r] = NoRequest]
  /\ UNCHANGED <<client, step, current, got, result, httpCalls>>

-----------------------------------------------------------------------------
(* performRequest.                                                         *)

\* Mutant: a client that exists is used again.
ClientKept(r) ==
  IF client # NoClient THEN client
  ELSE [userData |-> r, code |-> "none", length |-> 0, again |-> 0]

\* initClient: the old client is cleaned up, the new one knows the request.
\* Cleaning up may close a connection, an event that the handler only logs.
InitClient(r) == [userData |-> r, code |-> "none", length |-> 0, again |-> 0]

\* createResponse, when there is none yet.
ResponseFor(r) ==
  IF requests[r].response = NoResponse THEN [body |-> <<>>, code |-> "none"]
  ELSE requests[r].response

PerformRequest(r) ==
  /\ step = "idle" /\ requests[r] # NoRequest
  /\ httpCalls < MaxCalls /\ httpCalls' = httpCalls + 1
  /\ got' = <<>>
  /\ \/ /\ client' = InitClient(r)
        /\ requests' = [requests EXCEPT ![r] =
             [status |-> "PENDING", response |-> ResponseFor(r), performed |-> @.performed + 1]]
        /\ step' = "connect" /\ current' = r
        /\ UNCHANGED result
     \/ /\ client' = NoClient
        /\ requests' = [requests EXCEPT ![r].status = "FAILED", ![r].performed = @ + 1]
        /\ result' = "false"
        /\ UNCHANGED <<step, current>>

\* The body of a POST cannot be set: ESP_ERROR_CHECK restarts the chip.
Abort(r) ==
  /\ step = "idle" /\ requests[r] # NoRequest
  /\ httpCalls < MaxCalls /\ httpCalls' = httpCalls + 1
  /\ requests' = [q \in Requests |-> NoRequest]
  /\ client' = NoClient /\ result' = "none" /\ got' = <<>>
  /\ UNCHANGED <<step, current>>

\* Mutant: the result of esp_http_client_perform is not tested.
FinishUnchecked(ok, code) ==
  /\ requests' = [requests EXCEPT ![current].response.code = code, ![current].status = "OK"]
  /\ result' = "true"
  /\ step' = "idle" /\ current' = NoRequest
  /\ UNCHANGED httpCalls

\* Mutant: a failure is returned before the status is set.
FinishPending(ok, code) ==
  /\ requests' = [requests EXCEPT ![current].response.code = code,
                                  ![current].status = IF ok THEN "OK" ELSE @]
  /\ result' = IF ok THEN "true" ELSE "false"
  /\ step' = "idle" /\ current' = NoRequest
  /\ UNCHANGED httpCalls

\* The end of performRequest, when esp_http_client_perform has returned.
Finish(ok, code) ==
  /\ requests' = [requests EXCEPT ![current].response.code = code,
                                  ![current].status = IF ok THEN "OK" ELSE "FAILED"]
  /\ result' = IF ok THEN "true" ELSE "false"
  /\ step' = "idle" /\ current' = NoRequest
  /\ UNCHANGED httpCalls

-----------------------------------------------------------------------------
(* esp_http_client_perform and the events it dispatches.                   *)

\* The status line and the headers of an answer arrive.  (The handler puts the
\* headers into those of the request; what they say is not modelled.)
Answer ==
  /\ step = "connect"
  /\ \E code \in eHttpCode \ {"none"}, n \in 0 .. MaxParts :
       /\ client' = [client EXCEPT !.code = code, !.length = n]
       /\ got' = <<>>
       /\ \/ /\ code # "ok" /\ client.again = MaxRedirections
             /\ Finish(FALSE, code)
          \/ /\ code = "ok" \/ client.again < MaxRedirections
             /\ step' = "body"
             /\ UNCHANGED <<requests, current, result, httpCalls>>

\* Mutant: another event falls through to the case of the data.
OnDataFallsThrough ==
  /\ step = "body" /\ Len(got) <= client.length
  /\ got' = Append(got, <<httpCalls, client.again, Len(got) + 1>>)
  /\ requests' = [requests EXCEPT ![client.userData].response.body = Append(@, Last(got'))]
  /\ UNCHANGED <<client, step, current, result, httpCalls>>

\* HTTP_EVENT_ON_DATA: the handler appends to the body of its request.
OnData ==
  /\ step = "body" /\ Len(got) < client.length
  /\ got' = Append(got, <<httpCalls, client.again, Len(got) + 1>>)
  /\ requests' = [requests EXCEPT ![client.userData].response.body = Append(@, Last(got'))]
  /\ UNCHANGED <<client, step, current, result, httpCalls>>

\* The library stops reading the body, when it has all of it or when the
\* connection brings no more: a short body is no error, and may end in ESP_OK.
EndOfBody ==
  /\ step = "body"
  /\ \/ /\ client.code = "again"
        /\ step' = "connect"
        /\ client' = [client EXCEPT !.again = @ + 1]
        /\ UNCHANGED <<requests, current, result, httpCalls>>
     \/ /\ client.code # "again"
        /\ Finish(TRUE, client.code)
        /\ UNCHANGED client
  /\ UNCHANGED got

\* No connection, or one that fails in an answer, with an error of the library.
ConnectionFails ==
  /\ step \in {"connect", "body"}
  /\ Finish(FALSE, client.code)
  /\ UNCHANGED <<client, got>>

Perform == Answer \/ OnData \/ EndOfBody \/ ConnectionFails

-----------------------------------------------------------------------------
ClientNext ==
  \/ \E r \in Requests : Construct(r) \/ Destroy(r) \/ PerformRequest(r) \/ Abort(r)
  \/ Perform

\* The library waits for nothing longer than its timeout.
ClientFairness == WF_clientVars(Perform)

ClientSpec == ClientInit /\ [][ClientNext]_clientVars

-----------------------------------------------------------------------------
(* Properties.                                                             *)

\* The types of the variables.
ClientTypeOK ==
  /\ requests \in [Requests -> HttpRequests \cup {NoRequest}]
  /\ client \in Clients \cup {NoClient}
  /\ step \in {"idle", "connect", "body"}
  /\ current \in Requests \cup {NoRequest}
  /\ got \in Bodies /\ Len(got) <= MaxParts
  /\ result \in {"none", "true", "false"}
  /\ httpCalls \in 0 .. MaxCalls

\* While events can arrive, user_data points to the request of the call in
\* progress, which exists and has a response to append to, whatever requests
\* the client performed before and whether or not they still exist.
EventsReachTheCaller ==
  step # "idle" =>
    /\ client # NoClient /\ client.userData = current
    /\ current \in Requests /\ requests[current] # NoRequest
    /\ requests[current].status = "PENDING"
    /\ requests[current].response # NoResponse

\* When GET or POST answers true, the response holds the code of the last
\* exchange and, at the end of its body, exactly what the library delivered of
\* the answer of that exchange: its parts in order, from the first.  That these
\* are all its parts is not said: a short body is answered with true as well.
\* The body holds nothing else when the request was performed for the first
\* time and was not redirected; the response of a request is reused.
AnsweredWhenTrue ==
  step # "idle" /\ step' = "idle" /\ result' = "true" =>
    LET response == requests'[current].response IN
    /\ response.code = client.code /\ client.code # "none"
    /\ Len(got) <= client.length
    /\ \A i \in 1 .. Len(got) : got[i] = <<httpCalls, client.again, i>>
    /\ IsSuffix(got, response.body)
    /\ requests[current].performed = 1 /\ client.again = 0 => response.body = got

TrueMeansAnswered == [][AnsweredWhenTrue]_clientVars

\* A request that is pending settles or is destroyed: redirections end, and
\* each way out of performRequest sets the status.
StatusSettles ==
  \A r \in Requests : LET Pending == requests[r] # NoRequest /\ requests[r].status = "PENDING"
                      IN Pending ~> ~Pending
=============================================================================
