----------------------- MODULE ESP32HttpClientProofs -----------------------
(***************************************************************************)
(* Proofs about ESP32HttpClient, for any number of requests, calls, parts  *)
(* and redirections: the events reach the request of the call in progress, *)
(* and what GET or POST says of the response when it answers true.         *)
(*                                                                         *)
(* The response of a request is reused, so that its body only ends with    *)
(* the answer; that it holds nothing else is kept for the first exchange   *)
(* of a request that was never performed before.                           *)
(***************************************************************************)
EXTENDS ESP32HttpClient, SequenceTheorems, TLAPS
LOCAL INSTANCE SequencesExt

-----------------------------------------------------------------------------
(* The inductive invariant.                                                *)

EndsWith(body, s) ==
  /\ Len(s) <= Len(body)
  /\ \A i \in 1 .. Len(s) : s[i] = body[Len(body) - Len(s) + i]

\* A request that was never performed has no response yet.
Untouched ==
  \A r \in Requests : requests[r] # NoRequest /\ requests[r].performed = 0 =>
    requests[r].response = NoResponse

\* The parts of the exchange in progress arrive in order, from the first.
InOrder == \A i \in 1 .. Len(got) : got[i] = <<httpCalls, client.again, i>>

\* The exchange in progress: what it has brought is the end of the body, and
\* all of it in the first exchange of a request's first call.
Exchange ==
  /\ step = "body" =>
       /\ client.code # "none" /\ Len(got) <= client.length /\ InOrder
       /\ client.code = "again" => client.again < MaxRedirections
       /\ EndsWith(requests[current].response.body, got)
  /\ step # "idle" /\ client.again = 0 =>
       /\ step = "connect" => got = <<>>
       /\ requests[current].performed = 1 => requests[current].response.body = got
  /\ step # "idle" => requests[current].performed > 0

IInv == ClientTypeOK /\ EventsReachTheCaller /\ Untouched /\ Exchange

-----------------------------------------------------------------------------
(* Sequences and records.                                                  *)

LEMMA SuffixFact ==
  ASSUME NEW S, NEW body \in Seq(S), NEW s \in Seq(S), EndsWith(body, s)
  PROVE  IsSuffix(s, body)
<1>1. PICK m \in Nat, n \in Nat : m = Len(s) /\ n = Len(body) /\ m <= n
  BY DEF EndsWith
<1>2. /\ Reverse(s) = [i \in 1 .. m |-> s[(m - i) + 1]]
      /\ Reverse(body) = [i \in 1 .. n |-> body[(n - i) + 1]]
  BY <1>1 DEF Reverse
<1>3. /\ Reverse(s) \in [1 .. m -> S] /\ Reverse(body) \in [1 .. n -> S]
      /\ Len(Reverse(s)) = m /\ Len(Reverse(body)) = n
  <2>1. Reverse(s) \in [1 .. m -> S] /\ Len(Reverse(s)) = m
    BY <1>1, <1>2
  <2>2. Reverse(body) \in [1 .. n -> S] /\ Len(Reverse(body)) = n
    BY <1>1, <1>2
  <2>3. QED
    BY <2>1, <2>2
<1>4. \A i \in 1 .. m : Reverse(s)[i] = Reverse(body)[i]
  <2> SUFFICES ASSUME NEW i \in 1 .. m PROVE Reverse(s)[i] = Reverse(body)[i]
    OBVIOUS
  <2>1. (m - i) + 1 \in 1 .. m /\ n - m + ((m - i) + 1) = (n - i) + 1 /\ i \in 1 .. n
    BY <1>1
  <2>2. s[(m - i) + 1] = body[(n - i) + 1]
    BY <1>1, <2>1 DEF EndsWith
  <2>3. QED
    BY <1>2, <2>1, <2>2
<1>5. /\ Reverse(s) \in Seq(S) /\ Reverse(body) \in Seq(S)
  BY <1>3
<1>6. SubSeq(Reverse(s), 1, m) = SubSeq(Reverse(body), 1, m)
  <2>1. /\ SubSeq(Reverse(s), 1, m) = [i \in 1 .. m |-> Reverse(s)[i]]
        /\ SubSeq(Reverse(body), 1, m) = [i \in 1 .. m |-> Reverse(body)[i]]
    BY <1>1, <1>3, <1>5
  <2>2. QED
    BY <1>4, <2>1
<1>7. QED
  BY <1>1, <1>3, <1>6 DEF IsSuffix, IsPrefix

\* A part that is added to both stays at the end.
LEMMA BothAppended ==
  ASSUME NEW S, NEW body \in Seq(S), NEW s \in Seq(S), NEW x \in S, EndsWith(body, s)
  PROVE  EndsWith(Append(body, x), Append(s, x))
<1>1. PICK m \in Nat, n \in Nat : m = Len(s) /\ n = Len(body) /\ m <= n
  BY DEF EndsWith
<1>2. /\ Len(Append(s, x)) = m + 1 /\ Append(s, x)[m + 1] = x
      /\ \A i \in 1 .. m : Append(s, x)[i] = s[i]
      /\ Len(Append(body, x)) = n + 1 /\ Append(body, x)[n + 1] = x
      /\ \A i \in 1 .. n : Append(body, x)[i] = body[i]
  BY <1>1
<1>3. ASSUME NEW i \in 1 .. m + 1
      PROVE  Append(s, x)[i] = Append(body, x)[(n + 1) - (m + 1) + i]
  <2>1. CASE i = m + 1
    <3>1. (n + 1) - (m + 1) + i = n + 1
      BY <1>1, <2>1
    <3>2. QED
      BY <1>2, <2>1, <3>1
  <2>2. CASE i \in 1 .. m
    <3>1. (n + 1) - (m + 1) + i = n - m + i /\ n - m + i \in 1 .. n
      BY <1>1, <2>2
    <3>2. s[i] = body[n - m + i]
      BY <1>1, <2>2 DEF EndsWith
    <3>3. QED
      BY <1>2, <2>2, <3>1, <3>2
  <2>3. i = m + 1 \/ i \in 1 .. m
    BY <1>1
  <2>4. QED
    BY <2>1, <2>2, <2>3
<1>4. m + 1 <= n + 1
  BY <1>1
<1> DEFINE b == Append(body, x)
           t == Append(s, x)
<1>5. Len(t) <= Len(b) /\ \A i \in 1 .. Len(t) : t[i] = b[Len(b) - Len(t) + i]
  <2>1. Len(t) = m + 1 /\ Len(b) = n + 1
    BY <1>2
  <2>2. \A i \in 1 .. m + 1 : t[i] = b[(n + 1) - (m + 1) + i]
    BY <1>3
  <2> HIDE DEF b, t
  <2>3. QED
    BY <1>4, <2>1, <2>2
<1>6. QED
  BY <1>5 DEF EndsWith

\* A request that fails before it is performed.
LEMMA FailedRequest ==
  ASSUME NEW q \in HttpRequests, NEW n \in Nat
  PROVE  LET new == [q EXCEPT !.status = "FAILED", !.performed = n + 1] IN
         new \in HttpRequests /\ new.performed # 0
<1> DEFINE half == [q EXCEPT !.status = "FAILED"]
           new == [half EXCEPT !.performed = n + 1]
<1>1. half \in HttpRequests
  BY DEF HttpRequests
<1>2. new \in HttpRequests /\ new.performed = n + 1
  <2> HIDE DEF half
  <2>1. QED
    BY <1>1 DEF HttpRequests
<1>3. new = [q EXCEPT !.status = "FAILED", !.performed = n + 1]
  BY DEF HttpRequests
<1>4. n + 1 # 0
  OBVIOUS
<1> HIDE DEF new
<1>5. QED
  BY <1>2, <1>3, <1>4

\* The request of the call in progress.
LEMMA CallerFacts ==
  ASSUME IInv, step # "idle"
  PROVE  /\ client \in Clients /\ client.userData = current
         /\ current \in Requests /\ requests[current] \in HttpRequests
         /\ requests[current].response \in HttpResponses
         /\ requests[current].response.body \in Bodies
         /\ requests[current].status = "PENDING"
         /\ requests[current].performed \in Nat
BY DEF IInv, ClientTypeOK, EventsReachTheCaller, HttpRequests, HttpResponses

\* What setting the code and the status leaves of the requests.
LEMMA Settled ==
  ASSUME IInv, step # "idle", NEW ok \in BOOLEAN, NEW code \in eHttpCode,
         Finish(ok, code)
  PROVE  /\ requests' \in [Requests -> HttpRequests \cup {NoRequest}]
         /\ requests'[current].response.code = code
         /\ requests'[current].response.body = requests[current].response.body
         /\ requests'[current].performed = requests[current].performed
         /\ \A r \in Requests : r # current => requests'[r] = requests[r]
         /\ step' = "idle" /\ current' = NoRequest /\ result' \in {"true", "false"}
         /\ (result' = "true") = ok
<1> DEFINE old == requests[current]
           new == [old EXCEPT !.response.code = code, !.status = IF ok THEN "OK" ELSE "FAILED"]
<1>1. /\ current \in Requests /\ old \in HttpRequests /\ old.response \in HttpResponses
  BY CallerFacts
<1>2. requests' = [requests EXCEPT ![current] = new]
  BY DEF Finish
<1>3. /\ new \in HttpRequests /\ new.response.code = code
      /\ new.response.body = old.response.body /\ new.performed = old.performed
  BY <1>1 DEF HttpRequests, HttpResponses
<1>4. QED
  BY <1>1, <1>2, <1>3 DEF Finish, IInv, ClientTypeOK

-----------------------------------------------------------------------------
(* Steps.                                                                  *)

LEMMA InitIInv == ClientInit => IInv
BY ClientAssumption DEF ClientInit, IInv, ClientTypeOK, EventsReachTheCaller, Untouched, Exchange, Bodies

LEMMA ConstructIInv ==
  ASSUME IInv, NEW r \in Requests, Construct(r)
  PROVE  IInv'
<1>1. NewRequest \in HttpRequests /\ NewRequest.response = NoResponse
  BY DEF NewRequest, HttpRequests
<1>2. /\ requests' = [requests EXCEPT ![r] = NewRequest] /\ step = "idle"
      /\ UNCHANGED <<client, step, current, got, result, httpCalls>>
  BY DEF Construct
<1>3. ClientTypeOK'
  BY <1>1, <1>2 DEF IInv, ClientTypeOK
<1>4. Untouched'
  BY <1>1, <1>2 DEF IInv, ClientTypeOK, Untouched
<1>5. QED
  BY <1>2, <1>3, <1>4 DEF IInv, EventsReachTheCaller, Exchange

LEMMA DestroyIInv ==
  ASSUME IInv, NEW r \in Requests, Destroy(r)
  PROVE  IInv'
<1>1. /\ requests' = [requests EXCEPT ![r] = NoRequest] /\ step = "idle"
      /\ UNCHANGED <<client, step, current, got, result, httpCalls>>
  BY DEF Destroy
<1>2. ClientTypeOK'
  BY <1>1 DEF IInv, ClientTypeOK
<1>3. Untouched'
  BY <1>1 DEF IInv, ClientTypeOK, Untouched
<1>4. QED
  BY <1>1, <1>2, <1>3 DEF IInv, EventsReachTheCaller, Exchange

LEMMA PerformRequestIInv ==
  ASSUME IInv, NEW r \in Requests, PerformRequest(r)
  PROVE  IInv'
<1>0. /\ step = "idle" /\ requests[r] # NoRequest /\ requests[r] \in HttpRequests
      /\ got' = <<>> /\ got' \in Bodies /\ Len(got') <= MaxParts
      /\ httpCalls' \in 0 .. MaxCalls
  BY ClientAssumption DEF PerformRequest, IInv, ClientTypeOK, Bodies
<1>1. CASE /\ client' = InitClient(r)
           /\ requests' = [requests EXCEPT ![r] =
                [status |-> "PENDING", response |-> ResponseFor(r), performed |-> @.performed + 1]]
           /\ step' = "connect" /\ current' = r
           /\ UNCHANGED result
  <2> DEFINE new == [status |-> "PENDING", response |-> ResponseFor(r),
                     performed |-> requests[r].performed + 1]
  <2>1. /\ ResponseFor(r) \in HttpResponses
        /\ requests[r].performed = 0 => ResponseFor(r).body = <<>>
    BY <1>0 DEF ResponseFor, HttpRequests, HttpResponses, Bodies, eHttpCode, IInv, Untouched
  <2>2. requests[r].performed \in Nat
    BY <1>0 DEF HttpRequests
  <2>3. new \in HttpRequests /\ new # NoRequest /\ new.response # NoResponse /\ new.performed > 0
    BY <2>1, <2>2, ClientAssumption DEF HttpRequests
  <2>4. requests' = [requests EXCEPT ![r] = new]
    BY <1>1
  <2>5. /\ requests'[r] = new /\ \A q \in Requests : q # r => requests'[q] = requests[q]
        /\ requests' \in [Requests -> HttpRequests \cup {NoRequest}]
    BY <2>3, <2>4 DEF IInv, ClientTypeOK
  <2>6. InitClient(r) \in Clients /\ InitClient(r) # NoClient
    BY ClientAssumption DEF InitClient, Clients, eHttpCode
  <2>7. ClientTypeOK'
    BY <1>0, <1>1, <2>5, <2>6 DEF IInv, ClientTypeOK
  <2>8. EventsReachTheCaller'
    BY <1>1, <2>3, <2>5, <2>6 DEF EventsReachTheCaller, InitClient
  <2>9. Untouched'
    BY <2>3, <2>5 DEF IInv, Untouched
  <2>10. Exchange'
    <3>1. new.performed = 1 => requests[r].performed = 0
      BY <2>2
    <3>2. QED
      BY <1>0, <1>1, <2>1, <2>3, <2>5, <3>1 DEF Exchange
  <2>11. QED
    BY <2>7, <2>8, <2>9, <2>10 DEF IInv
<1>2. CASE /\ client' = NoClient
           /\ requests' = [requests EXCEPT ![r].status = "FAILED", ![r].performed = @ + 1]
           /\ result' = "false"
           /\ UNCHANGED <<step, current>>
  <2> DEFINE new == [requests[r] EXCEPT !.status = "FAILED", !.performed = @ + 1]
  <2>1. new \in HttpRequests /\ new.performed # 0
    <3>1. requests[r].performed \in Nat /\ new.performed = requests[r].performed + 1
      BY <1>0 DEF HttpRequests
    <3>2. QED
      BY <1>0, <3>1, FailedRequest
  <2>2. requests' = [requests EXCEPT ![r] = new]
    BY <1>2
  <2>3. /\ requests'[r] = new /\ \A q \in Requests : q # r => requests'[q] = requests[q]
        /\ requests' \in [Requests -> HttpRequests \cup {NoRequest}]
    BY <2>1, <2>2 DEF IInv, ClientTypeOK
  <2> HIDE DEF new
  <2>4. ClientTypeOK'
    BY <1>0, <1>2, <2>3 DEF IInv, ClientTypeOK
  <2>5. Untouched'
    BY <2>1, <2>3 DEF IInv, Untouched
  <2>6. QED
    BY <1>0, <1>2, <2>4, <2>5 DEF IInv, EventsReachTheCaller, Exchange
<1>3. QED
  BY <1>1, <1>2 DEF PerformRequest

LEMMA AbortIInv ==
  ASSUME IInv, NEW r \in Requests, Abort(r)
  PROVE  IInv'
BY ClientAssumption DEF Abort, IInv, ClientTypeOK, EventsReachTheCaller, Untouched, Exchange, Bodies

\* The call ends, and no exchange is in progress.
LEMMA FinishIInv ==
  ASSUME IInv, step # "idle", NEW ok \in BOOLEAN, NEW code \in eHttpCode,
         Finish(ok, code), client' \in Clients, got' \in Bodies, Len(got') <= MaxParts
  PROVE  IInv'
<1>1. ClientTypeOK'
  BY Settled DEF IInv, ClientTypeOK, Finish
<1>2. requests[current].performed > 0
  BY DEF IInv, Exchange
<1>3. Untouched'
  BY <1>2, Settled DEF IInv, Untouched
<1>4. QED
  BY <1>1, <1>3, Settled DEF IInv, EventsReachTheCaller, Exchange

LEMMA AnswerIInv ==
  ASSUME IInv, Answer
  PROVE  IInv'
<1>1. PICK code \in eHttpCode \ {"none"}, n \in 0 .. MaxParts :
         /\ client' = [client EXCEPT !.code = code, !.length = n]
         /\ got' = <<>>
         /\ \/ /\ code # "ok" /\ client.again = MaxRedirections
               /\ Finish(FALSE, code)
            \/ /\ code = "ok" \/ client.again < MaxRedirections
               /\ step' = "body"
               /\ UNCHANGED <<requests, current, result, httpCalls>>
  BY DEF Answer
<1>2. /\ step = "connect" /\ client \in Clients /\ MaxParts \in Nat
  BY CallerFacts, ClientAssumption DEF Answer
<1>3. /\ client' \in Clients /\ client'.code = code /\ client'.length = n
      /\ client'.userData = client.userData /\ client'.again = client.again
  BY <1>1, <1>2 DEF Clients
<1>4. got' \in Bodies /\ Len(got') = 0 /\ 0 <= MaxParts /\ n \in Nat
  BY <1>1, <1>2 DEF Bodies
<1>5. CASE Finish(FALSE, code)
  BY <1>2, <1>3, <1>4, <1>5, FinishIInv
<1>6. CASE /\ code = "ok" \/ client.again < MaxRedirections
           /\ step' = "body"
           /\ UNCHANGED <<requests, current, result, httpCalls>>
  <2>1. ClientTypeOK' /\ Untouched'
    BY <1>3, <1>4, <1>6 DEF IInv, ClientTypeOK, Untouched
  <2>2. EventsReachTheCaller'
    BY <1>2, <1>3, <1>6, CallerFacts, ClientAssumption DEF IInv, EventsReachTheCaller
  <2>3. Exchange'
    <3>1. EndsWith(requests[current].response.body, <<>>)
      BY <1>2, CallerFacts DEF EndsWith, Bodies
    <3>2. /\ client.again = 0 /\ requests[current].performed = 1
             => requests[current].response.body = <<>>
          /\ requests[current].performed > 0
      BY <1>2 DEF IInv, Exchange
    <3>3. QED
      BY <1>1, <1>3, <1>4, <1>6, <3>1, <3>2 DEF Exchange, InOrder
  <2>4. QED
    BY <2>1, <2>2, <2>3 DEF IInv
<1>7. QED
  BY <1>1, <1>5, <1>6

LEMMA OnDataIInv ==
  ASSUME IInv, OnData
  PROVE  IInv'
<1> DEFINE S == Nat \X Nat \X Nat
           part == <<httpCalls, client.again, Len(got) + 1>>
           old == requests[current]
           body == old.response.body
           new == [old EXCEPT !.response.body = Append(body, part)]
<1>1. /\ step = "body" /\ Len(got) < client.length
      /\ UNCHANGED <<client, step, current, result, httpCalls>>
  BY DEF OnData
<1>2. /\ client \in Clients /\ client.userData = current /\ current \in Requests
      /\ old \in HttpRequests /\ old.response \in HttpResponses /\ body \in Seq(S)
      /\ old.status = "PENDING"
  BY <1>1, CallerFacts DEF Bodies
<1>3. part \in S /\ got \in Seq(S)
  BY <1>2, ClientAssumption DEF IInv, ClientTypeOK, Bodies, Clients
<1>4. got' = Append(got, part) /\ got' \in Seq(S) /\ Len(got') = Len(got) + 1
      /\ Last(got') = part
  BY <1>3 DEF OnData, Last
<1>5. requests' = [requests EXCEPT ![current] = new]
  BY <1>2, <1>4 DEF OnData
<1>6. /\ new \in HttpRequests /\ new.response \in HttpResponses
      /\ new.response.body = Append(body, part)
      /\ new.status = old.status /\ new.performed = old.performed
  <2> DEFINE response == [old.response EXCEPT !.body = Append(body, part)]
  <2>1. Append(body, part) \in Bodies
    BY <1>2, <1>3 DEF Bodies
  <2>2. response \in HttpResponses /\ response.body = Append(body, part)
    BY <1>2, <2>1 DEF HttpResponses
  <2>3. new = [old EXCEPT !.response = response]
    OBVIOUS
  <2> HIDE DEF response
  <2>4. QED
    BY <1>2, <2>2, <2>3 DEF HttpRequests
<1>7. /\ requests'[current] = new /\ \A r \in Requests : r # current => requests'[r] = requests[r]
      /\ requests' \in [Requests -> HttpRequests \cup {NoRequest}]
  BY <1>2, <1>5, <1>6 DEF IInv, ClientTypeOK
<1>8. ClientTypeOK'
  <2>1. Len(got') <= client.length /\ client.length \in 0 .. MaxParts /\ MaxParts \in Nat
    BY <1>1, <1>2, <1>3, <1>4, ClientAssumption DEF Clients
  <2>2. QED
    BY <1>1, <1>3, <1>4, <1>7, <2>1 DEF IInv, ClientTypeOK, Bodies
<1>9. EventsReachTheCaller'
  BY <1>1, <1>2, <1>6, <1>7, ClientAssumption DEF IInv, EventsReachTheCaller
<1>10. Untouched'
  <2>1. old.performed # 0
    BY <1>1 DEF IInv, Exchange
  <2>2. QED
    <3>1. old.performed # 0 /\ new.performed = old.performed /\ Untouched
      BY <1>6, <2>1 DEF IInv
    <3>2. \A r \in Requests : r = current \/ requests'[r] = requests[r]
      BY <1>7
    <3> HIDE DEF old, new
    <3>3. requests'[current].performed # 0
      BY <1>7, <3>1
    <3>4. QED
      BY <3>1, <3>2, <3>3 DEF Untouched
<1>11. Exchange'
  <2>1. EndsWith(body, got)
    BY <1>1 DEF IInv, Exchange
  <2>2. EndsWith(new.response.body, got')
    BY <1>2, <1>3, <1>4, <1>6, <2>1, BothAppended
  <2>3. client.again = 0 /\ old.performed = 1 => new.response.body = got'
    BY <1>1, <1>4, <1>6 DEF IInv, Exchange
  <2>4. Len(got') <= client.length
    BY <1>1, <1>2, <1>3, <1>4 DEF Clients
  <2>5. InOrder'
    <3>1. \A i \in 1 .. Len(got) : got'[i] = got[i]
      BY <1>3, <1>4
    <3>2. got'[Len(got) + 1] = part
      BY <1>3, <1>4
    <3>3. \A i \in 1 .. Len(got) : got[i] = <<httpCalls, client.again, i>>
      BY <1>1 DEF IInv, Exchange, InOrder
    <3>4. \A i \in 1 .. Len(got') : i \in 1 .. Len(got) \/ i = Len(got) + 1
      BY <1>3, <1>4
    <3>5. QED
      BY <1>1, <3>1, <3>2, <3>3, <3>4 DEF InOrder
  <2>6. QED
    BY <1>1, <1>6, <1>7, <2>2, <2>3, <2>4, <2>5 DEF IInv, Exchange
<1>12. QED
  BY <1>8, <1>9, <1>10, <1>11 DEF IInv

LEMMA EndOfBodyIInv ==
  ASSUME IInv, EndOfBody
  PROVE  IInv'
<1>1. /\ step = "body" /\ UNCHANGED got /\ client \in Clients
      /\ got \in Bodies /\ Len(got) <= MaxParts
  BY CallerFacts DEF EndOfBody, IInv, ClientTypeOK
<1>2. CASE /\ client.code = "again"
           /\ step' = "connect"
           /\ client' = [client EXCEPT !.again = @ + 1]
           /\ UNCHANGED <<requests, current, result, httpCalls>>
  <2>1. client.again < MaxRedirections
    BY <1>1, <1>2 DEF IInv, Exchange
  <2>2. /\ client' \in Clients /\ client'.userData = client.userData /\ client'.again > 0
    BY <1>1, <1>2, <2>1, ClientAssumption DEF Clients
  <2>3. ClientTypeOK' /\ Untouched'
    BY <1>1, <1>2, <2>2 DEF IInv, ClientTypeOK, Untouched
  <2>4. EventsReachTheCaller'
    BY <1>1, <1>2, <2>2, ClientAssumption DEF IInv, EventsReachTheCaller
  <2>5. Exchange'
    BY <1>1, <1>2, <2>2 DEF IInv, Exchange
  <2>6. QED
    BY <2>3, <2>4, <2>5 DEF IInv
<1>3. CASE client.code # "again" /\ Finish(TRUE, client.code) /\ UNCHANGED client
  BY <1>1, <1>3, FinishIInv DEF Clients
<1>4. QED
  BY <1>2, <1>3 DEF EndOfBody

LEMMA ConnectionFailsIInv ==
  ASSUME IInv, ConnectionFails
  PROVE  IInv'
<1>1. /\ step # "idle" /\ Finish(FALSE, client.code) /\ UNCHANGED <<client, got>>
  BY DEF ConnectionFails
<1>2. client \in Clients /\ client.code \in eHttpCode /\ got \in Bodies /\ Len(got) <= MaxParts
  BY <1>1, CallerFacts DEF IInv, ClientTypeOK, Clients
<1>3. QED
  BY <1>1, <1>2, FinishIInv

LEMMA StepAnswered ==
  ASSUME IInv, [ClientNext]_clientVars
  PROVE  AnsweredWhenTrue
<1> SUFFICES ASSUME step # "idle", step' = "idle", result' = "true" PROVE AnsweredWhenTrue
  BY DEF AnsweredWhenTrue
<1>1. EndOfBody /\ client.code # "again" /\ Finish(TRUE, client.code)
  <2>1. Perform
    BY DEF ClientNext, Construct, Destroy, PerformRequest, Abort, clientVars
  <2>2. ~OnData
    BY DEF OnData
  <2>3. \A ok, code : Finish(ok, code) => ok
    BY DEF Finish
  <2>4. QED
    BY <2>1, <2>2, <2>3 DEF Perform, Answer, ConnectionFails, EndOfBody
<1>2. step = "body" /\ Len(got) <= client.length /\ InOrder
  BY <1>1 DEF EndOfBody, IInv, Exchange
<1>3. client.code \in eHttpCode /\ client.code # "none"
  BY <1>2, CallerFacts DEF IInv, Exchange, Clients
<1>4. /\ requests'[current].response.code = client.code
      /\ requests'[current].response.body = requests[current].response.body
  BY <1>1, <1>3, Settled
<1>5. IsSuffix(got, requests[current].response.body)
  <2>1. requests[current].response.body \in Bodies /\ got \in Bodies
    BY CallerFacts DEF IInv, ClientTypeOK
  <2>2. EndsWith(requests[current].response.body, got)
    BY <1>2 DEF IInv, Exchange
  <2>3. QED
    BY <2>1, <2>2, SuffixFact DEF Bodies
<1>6. requests[current].performed = 1 /\ client.again = 0 => requests[current].response.body = got
  BY DEF IInv, Exchange
<1>7. QED
  BY <1>2, <1>3, <1>4, <1>5, <1>6 DEF AnsweredWhenTrue, InOrder

-----------------------------------------------------------------------------
(* Theorems.                                                               *)

LEMMA IInvHolds == ClientSpec => []IInv
<1>1. ClientInit => IInv
  BY InitIInv
<1>2. IInv /\ [ClientNext]_clientVars => IInv'
  <2> SUFFICES ASSUME IInv, [ClientNext]_clientVars PROVE IInv'
    OBVIOUS
  <2>1. CASE UNCHANGED clientVars
    BY <2>1 DEF clientVars, IInv, ClientTypeOK, EventsReachTheCaller, Untouched, Exchange, InOrder
  <2>2. QED
    BY <2>1, ConstructIInv, DestroyIInv, PerformRequestIInv, AbortIInv, AnswerIInv, OnDataIInv,
       EndOfBodyIInv, ConnectionFailsIInv DEF ClientNext, Perform
<1>3. QED
  BY <1>1, <1>2, PTL DEF ClientSpec

\* The types of the requests and of the client; redirections keep to their limit.
THEOREM TypeCorrect == ClientSpec => []ClientTypeOK
<1>1. IInv => ClientTypeOK
  BY DEF IInv
<1>2. QED
  BY <1>1, IInvHolds, PTL

\* Whatever requests the client performed before, and whether they still exist,
\* an event finds the request of the call in progress, pending and with a
\* response to append to.
THEOREM CallerReached == ClientSpec => []EventsReachTheCaller
<1>1. IInv => EventsReachTheCaller
  BY DEF IInv
<1>2. QED
  BY <1>1, IInvHolds, PTL

\* A call that answers true leaves a response that ends with exactly what
\* arrived of the last exchange, which may be less than the whole answer, and
\* holds nothing else when the request is new and was not redirected.
THEOREM Answered == ClientSpec => TrueMeansAnswered
<1>1. IInv /\ [ClientNext]_clientVars => [AnsweredWhenTrue]_clientVars
  BY StepAnswered
<1>2. QED
  BY <1>1, IInvHolds, PTL DEF ClientSpec, TrueMeansAnswered
=============================================================================
