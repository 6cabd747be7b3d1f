-------------------------- MODULE WebserverProofs --------------------------
(***************************************************************************)
(* Proofs about Webserver, for any number of handlers, starts and stops    *)
(* and any content: what a start that completes says of the handlers, and  *)
(* what getContent returns of a content that came in one part.             *)
(*                                                                         *)
(* The loop of start keeps count: a server that has taken the handlers     *)
(* before the next one serves those and no others, and took each once.     *)
(***************************************************************************)
EXTENDS Webserver, FiniteSetTheorems, SequenceTheorems, TLAPS

Remembered == {handlers[i] : i \in 1 .. Len(handlers)}

\* The application's calls and what the loop of start has done so far.
Registered ==
  /\ wanted = Remembered
  /\ refused \subseteq Uris
  /\ IsFiniteSet(served)
  /\ server # "live" => served = {} /\ errServed = {}
  /\ app # "idle" => server = "live"
  /\ app # "registering" => next = 0
  /\ app = "registering" =>
       /\ next \in 1 .. Len(handlers) + 1
       /\ ~complete
       /\ \A i, j \in 1 .. next - 1 : handlers[i] = handlers[j] => i = j
       /\ served = {handlers[i] : i \in 1 .. next - 1}
       /\ Cardinality(served) = next - 1

\* The loop of getContent.
Received ==
  /\ ret \in Seq(Nat) /\ received \in 0 .. Len(ret) /\ parts \in Nat
  /\ parts = 0 => received = 0
  /\ handler \in {"waiting", "receiving"}
  /\ handler = "receiving" => content = NoContent

IInv == ServerTypeOK /\ Registered /\ Received /\ ServedOrReported /\ ContentOfOnePart

-----------------------------------------------------------------------------
(* Steps.                                                                  *)

\* A handler that the live server takes is new to it, and there was room.
LEMMA Taken ==
  ASSUME ServerTypeOK, Registered, server = "live",
         NEW u \in Uris, "ok" \in RegisterResults(u)
  PROVE  /\ u \notin served
         /\ IsFiniteSet(served \cup {u})
         /\ Cardinality(served \cup {u}) = Cardinality(served) + 1
         /\ Cardinality(served \cup {u}) <= MaxUris
<1>1. Cardinality(served) \in Nat /\ Cardinality(served) <= MaxUris /\ IsFiniteSet(served)
  BY FS_CardinalityType DEF ServerTypeOK, Registered
<1>2. u \notin served /\ Cardinality(served) # MaxUris
  BY DEF RegisterResults
<1>3. IsFiniteSet(served \cup {u}) /\ Cardinality(served \cup {u}) = Cardinality(served) + 1
  BY <1>1, <1>2, FS_AddElement
<1>4. QED
  BY <1>1, <1>2, <1>3, ServerAssumption

\* Why a live server with memory enough refuses a handler.
LEMMA Refused ==
  ASSUME server = "live", NEW u \in Uris, "error" \in RegisterResults(u),
         "register" \notin ServerFaults
  PROVE  u \in served \/ Cardinality(served) = MaxUris
BY DEF RegisterResults

LEMMA InitIInv == ServerInit => IInv
<1> SUFFICES ASSUME ServerInit PROVE IInv
  OBVIOUS
<1>1. ServerTypeOK
  BY FS_EmptySet, ServerAssumption DEF ServerInit, ServerTypeOK
<1>2. Registered
  BY FS_EmptySet DEF ServerInit, Registered, Remembered
<1>3. Received /\ ServedOrReported /\ ContentOfOnePart
  BY DEF ServerInit, Received, ServedOrReported, ContentOfOnePart
<1>4. QED
  BY <1>1, <1>2, <1>3 DEF IInv

\* A part that arrives leaves the length of the content as it was announced.
LEMMA PartFacts ==
  ASSUME Received, Receive
  PROVE  ret' \in Seq(Nat) /\ Len(ret') = Len(ret) /\ DOMAIN ret' = 1 .. Len(ret)
<1>1. PICK m \in Nat : m = Len(ret)
  BY DEF Received
<1>2. PICK n \in 1 .. m - received :
        ret' = [i \in DOMAIN ret |-> IF i <= n THEN received + i ELSE ret[i]]
  BY <1>1 DEF Receive
<1>3. ret \in [1 .. m -> Nat] /\ received \in Nat
  BY <1>1 DEF Received
<1>4. ret' \in [1 .. m -> Nat]
  BY <1>2, <1>3
<1>5. QED
  BY <1>1, <1>4

LEMMA TypeNext ==
  ASSUME IInv, [ServerNext]_serverVars
  PROVE  ServerTypeOK'
<1> USE DEF IInv, ServerTypeOK
<1>1. CASE Start
  BY <1>1 DEF Start, Registered, request
<1>2. CASE RegisterNext
  <2>1. CASE StartReturns("ok") \/ StartReturns("error")
    BY <1>2, <2>1 DEF RegisterNext, StartReturns, Registered, request
  <2>2. CASE /\ next <= Len(handlers) /\ "ok" \in RegisterResults(handlers[next])
             /\ served' = served \cup {handlers[next]}
             /\ next' = next + 1
             /\ UNCHANGED <<app, returned, complete, refused>>
    <3>1. server = "live" /\ handlers[next] \in Uris /\ next' \in 0 .. Len(handlers) + 1
      BY <1>2, <2>2 DEF RegisterNext, Registered
    <3>2. served' \subseteq Uris /\ Cardinality(served') <= MaxUris
      BY <2>2, <3>1, Taken
    <3>3. QED
      BY <1>2, <2>2, <3>1, <3>2 DEF RegisterNext, request
  <2>3. QED
    BY <1>2, <2>1, <2>2 DEF RegisterNext
<1>3. CASE Stop
  BY <1>3 DEF Stop, registry, request
<1>4. CASE StopReturns
  BY <1>4, FS_EmptySet, ServerAssumption DEF StopReturns, request
<1>5. CASE Crash
  <2>1. /\ Cardinality(served) <= MaxUris /\ handlers' = <<>> /\ next' = 0
        /\ errHandlers' = {} /\ errServed' = {} /\ server' = "none"
        /\ content' = NoContent /\ UNCHANGED <<served, app, handler, ret, received>>
    BY <1>5 DEF Crash, Registered
  <2>2. Len(handlers') = 0 /\ handlers' \in Seq(Uris)
    BY <2>1
  <2>3. QED
    BY <1>5, <2>1, <2>2 DEF Crash
<1>6. ASSUME NEW u \in Uris, SetUriHandler(u) PROVE ServerTypeOK'
  <2>1. handlers' \in Seq(Uris) /\ next \in 0 .. Len(handlers') + 1
    BY <1>6 DEF SetUriHandler, Remember
  <2>2. served' \subseteq Uris /\ Cardinality(served') <= MaxUris
    BY <1>6, Taken DEF SetUriHandler
  <2>3. QED
    BY <1>6, <2>1, <2>2 DEF SetUriHandler, request
<1>7. ASSUME NEW c \in ErrorCodes, SetErrorHandler(c) PROVE ServerTypeOK'
  BY <1>7 DEF SetErrorHandler, request
<1>8. ASSUME NEW u \in Uris, NEW n \in Lengths, Request(u, n) PROVE ServerTypeOK'
  <2>1. n \in Nat \ {0}
    BY ServerAssumption
  <2>2. Len(ret') = n
    BY <1>8, <2>1 DEF Request
  <2>3. QED
    BY <1>8, <2>1, <2>2 DEF Request, registry, calling
<1>9. CASE PeerActs
  BY <1>9 DEF PeerActs, registry, calling
<1>10. CASE Receive
  <2>3. Len(ret') = Len(ret)
    BY <1>10, PartFacts
  <2>4. CASE received' = Len(ret) /\ GetContentReturns(ret')
    BY <1>10, <2>3, <2>4, PartFacts DEF Receive, GetContentReturns, registry, calling
  <2>5. CASE received' < Len(ret) /\ UNCHANGED <<handler, content>>
    BY <1>10, <2>3, <2>5 DEF Receive, registry, calling
  <2>6. QED
    BY <1>10, <2>4, <2>5 DEF Receive
<1>11. CASE ReceiveFails
  BY <1>11 DEF ReceiveFails, GetContentReturns, registry, calling
<1>12. CASE UNCHANGED serverVars
  BY <1>12 DEF serverVars, registry, calling, request
<1>13. QED
  BY <1>1, <1>2, <1>3, <1>4, <1>5, <1>6, <1>7, <1>8, <1>9, <1>10, <1>11, <1>12 DEF ServerNext

\* The requests leave alone what the application's calls work on.
LEMMA RequestsApart ==
  ASSUME \/ \E u \in Uris, n \in Lengths : Request(u, n)
         \/ PeerActs \/ Receive \/ ReceiveFails \/ UNCHANGED serverVars
  PROVE  UNCHANGED <<registry, calling>>
BY DEF Request, PeerActs, Receive, ReceiveFails, serverVars

LEMMA RegisteredNext ==
  ASSUME IInv, [ServerNext]_serverVars
  PROVE  Registered' /\ ServedOrReported'
<1> USE DEF IInv
<1>0. handlers \in Seq(Uris) /\ Len(handlers) \in Nat /\ next \in Nat
  BY DEF ServerTypeOK
<1>1. CASE Start
  <2>1. CASE /\ server # "live" /\ server' = "live" /\ app' = "registering"
             /\ next' = 1 /\ complete' = FALSE /\ refused' = {}
    <3>1. /\ UNCHANGED <<handlers, served, wanted>> /\ served = {}
          /\ 1 .. next' - 1 = {} /\ next' \in 1 .. Len(handlers) + 1
      BY <1>0, <1>1, <2>1 DEF Start, Registered
    <3>2. Remembered' = Remembered
      BY <3>1 DEF Remembered
    <3>3. QED
      BY <2>1, <3>1, <3>2, FS_EmptySet DEF Registered, ServedOrReported
  <2>2. CASE UNCHANGED <<server, app, next, complete, refused>>
    BY <1>1, <2>2 DEF Start, Registered, Remembered, ServedOrReported
  <2>3. QED
    BY <1>1, <2>1, <2>2 DEF Start
<1>2. CASE RegisterNext
  <2>0. /\ server = "live" /\ app = "registering" /\ next \in 1 .. Len(handlers) + 1
        /\ UNCHANGED <<server, handlers, wanted>>
    BY <1>2 DEF RegisterNext, Registered
  <2>1. CASE next > Len(handlers) /\ StartReturns("ok")
    <3>1. next - 1 = Len(handlers)
      BY <1>0, <2>0, <2>1
    <3>2. served = Remembered /\ Remembered' = Remembered
      BY <2>0, <3>1 DEF Registered, Remembered
    <3>3. QED
      BY <2>0, <2>1, <3>2 DEF StartReturns, Registered, ServedOrReported
  <2>2. CASE StartReturns("error")
    <3>1. Remembered' = Remembered
      BY <2>0 DEF Remembered
    <3>2. QED
      BY <2>0, <2>2, <3>1 DEF StartReturns, Registered, ServedOrReported
  <2>3. CASE /\ next <= Len(handlers) /\ "ok" \in RegisterResults(handlers[next])
             /\ served' = served \cup {handlers[next]}
             /\ next' = next + 1
             /\ UNCHANGED <<app, returned, complete, refused>>
    <3>1. handlers[next] \in Uris /\ next' \in 1 .. Len(handlers) + 1 /\ next' - 1 = next
      BY <1>0, <2>0, <2>3
    <3>2. /\ handlers[next] \notin served /\ IsFiniteSet(served')
          /\ Cardinality(served') = Cardinality(served) + 1
      BY <2>0, <2>3, <3>1, Taken
    <3>3. 1 .. next = (1 .. next - 1) \cup {next}
      BY <1>0, <2>0
    <3>4. \A i, j \in 1 .. next : handlers[i] = handlers[j] => i = j
      BY <2>0, <3>2, <3>3 DEF Registered
    <3>5. served' = {handlers[i] : i \in 1 .. next}
      BY <2>0, <2>3, <3>3 DEF Registered
    <3>6. Cardinality(served') = next' - 1
      BY <1>0, <2>0, <2>3, <3>1, <3>2 DEF Registered
    <3>7. Remembered' = Remembered
      BY <2>0 DEF Remembered
    <3>8. QED
      BY <2>0, <2>3, <3>1, <3>2, <3>4, <3>5, <3>6, <3>7 DEF Registered, ServedOrReported
  <2>4. QED
    BY <1>2, <2>1, <2>2, <2>3 DEF RegisterNext
<1>3. CASE Stop
  BY <1>3 DEF Stop, registry, Registered, Remembered, ServedOrReported
<1>4. CASE StopReturns
  BY <1>4, FS_EmptySet DEF StopReturns, Registered, Remembered, ServedOrReported
<1>5. CASE Crash
  <2>1. Remembered' = {}
    BY <1>5 DEF Crash, Remembered
  <2>2. QED
    BY <1>5, <2>1 DEF Crash, Registered, ServedOrReported
<1>6. ASSUME NEW u \in Uris, SetUriHandler(u) PROVE Registered' /\ ServedOrReported'
  <2>1. PICK r \in RegisterResults(u) :
           /\ handlers' = Append(handlers, u)
           /\ served' = IF server = "live" /\ r = "ok" THEN served \cup {u} ELSE served
           /\ refused' = IF r = "error" THEN refused \cup {u} ELSE refused
           /\ wanted' = wanted \cup {u}
    BY <1>6 DEF SetUriHandler, Remember
  <2>2. app = "idle" /\ UNCHANGED <<server, errServed, app, next, complete>>
    BY <1>6 DEF SetUriHandler
  <2>3. r \in {"ok", "error"}
    BY DEF RegisterResults
  <2>4. Remembered' = Remembered \cup {u}
    <3>1. /\ Len(handlers') = Len(handlers) + 1 /\ handlers'[Len(handlers) + 1] = u
          /\ \A i \in 1 .. Len(handlers) : handlers'[i] = handlers[i]
          /\ 1 .. (Len(handlers) + 1) = (1 .. Len(handlers)) \cup {Len(handlers) + 1}
      BY <1>0, <2>1
    <3>2. QED
      BY <3>1 DEF Remembered
  <2>5. IsFiniteSet(served') /\ (server # "live" => served' = {})
    BY <2>1, Taken DEF Registered
  <2>6. QED
    BY <2>1, <2>2, <2>3, <2>4, <2>5 DEF Registered, ServedOrReported
<1>7. ASSUME NEW c \in ErrorCodes, SetErrorHandler(c) PROVE Registered' /\ ServedOrReported'
  BY <1>7 DEF SetErrorHandler, Registered, Remembered, ServedOrReported
<1>8. ASSUME UNCHANGED <<registry, calling>> PROVE Registered' /\ ServedOrReported'
  BY <1>8 DEF registry, calling, Registered, Remembered, ServedOrReported
<1>9. QED
  BY <1>1, <1>2, <1>3, <1>4, <1>5, <1>6, <1>7, <1>8, RequestsApart DEF ServerNext

LEMMA ReceivedNext ==
  ASSUME IInv, [ServerNext]_serverVars
  PROVE  Received' /\ ContentOfOnePart'
<1> USE DEF IInv
<1>1. ASSUME NEW u \in Uris, NEW n \in Lengths, Request(u, n)
      PROVE  Received' /\ ContentOfOnePart'
  <2>1. n \in Nat
    BY ServerAssumption
  <2>2. ret' \in Seq(Nat) /\ Len(ret') = n
    <3>1. ret' \in [1 .. n -> Nat]
      BY <1>1 DEF Request
    <3>2. QED
      BY <2>1, <3>1
  <2>3. QED
    BY <1>1, <2>1, <2>2 DEF Request, Received, ContentOfOnePart
<1>2. CASE Receive
  <2>1. PICK n \in 1 .. Len(ret) - received :
           /\ ret' = [i \in DOMAIN ret |-> IF i <= n THEN received + i ELSE ret[i]]
           /\ received' = received + n
    BY <1>2 DEF Receive
  <2>2. /\ received \in Nat /\ n \in Nat
        /\ DOMAIN ret = 1 .. Len(ret) /\ Len(ret) \in Nat /\ parts \in Nat
    BY <2>1 DEF Received
  <2>3. ret' \in Seq(Nat) /\ Len(ret') = Len(ret) /\ DOMAIN ret' = 1 .. Len(ret)
    BY <1>2, PartFacts
  <2>4. received' \in 0 .. Len(ret') /\ parts' \in Nat /\ parts' > 0
    <3>1. parts' = parts + 1
      BY <1>2 DEF Receive
    <3>2. QED
      BY <2>1, <2>2, <2>3, <3>1
  <2>5. CASE received' = Len(ret) /\ GetContentReturns(ret')
    <3>1. Received'
      BY <2>3, <2>4, <2>5 DEF GetContentReturns, Received
    <3>2. parts' = 1 => ret' = [i \in DOMAIN ret' |-> i]
      <4>1. SUFFICES ASSUME parts' = 1 PROVE \A i \in 1 .. Len(ret) : ret'[i] = i
        BY <2>1, <2>2, <2>3
      <4>2. parts = 0 /\ received = 0
        <5>1. parts' = parts + 1
          BY <1>2 DEF Receive
        <5>2. QED
          BY <2>2, <4>1, <5>1 DEF Received
      <4>3. n = Len(ret)
        <5>1. received' = Len(ret) /\ received' = received + n
          BY <2>1, <2>5
        <5>2. QED
          BY <2>2, <4>2, <5>1
      <4>4. QED
        BY <2>1, <2>2, <4>2, <4>3
    <3>3. QED
      BY <2>3, <2>5, <3>1, <3>2 DEF GetContentReturns, ContentOfOnePart
  <2>6. CASE received' < Len(ret) /\ UNCHANGED <<handler, content>>
    BY <1>2, <2>3, <2>4, <2>6 DEF Receive, Received, ContentOfOnePart
  <2>7. QED
    BY <1>2, <2>5, <2>6 DEF Receive
<1>3. CASE ReceiveFails
  BY <1>3 DEF ReceiveFails, GetContentReturns, Received, ContentOfOnePart
<1>4. CASE PeerActs
  BY <1>4 DEF PeerActs, Received, ContentOfOnePart
<1>5. CASE Crash
  BY <1>5 DEF Crash, Received, ContentOfOnePart
<1>6. ASSUME UNCHANGED request PROVE Received' /\ ContentOfOnePart'
  BY <1>6 DEF request, Received, ContentOfOnePart
<1>7. \/ UNCHANGED request
      \/ \E u \in Uris, n \in Lengths : Request(u, n)
      \/ Receive \/ ReceiveFails \/ PeerActs \/ Crash
  BY DEF ServerNext, Start, RegisterNext, Stop, StopReturns, SetUriHandler, SetErrorHandler, serverVars,
         request
<1>8. QED
  BY <1>1, <1>2, <1>3, <1>4, <1>5, <1>6, <1>7

LEMMA Completes ==
  ASSUME IInv, [ServerNext]_serverVars
  PROVE  CompletesWhenFitting
<1> SUFFICES ASSUME app = "registering", app' = "idle" PROVE CompletesWhenFitting
  BY DEF CompletesWhenFitting
<1>1. RegisterNext
  BY RequestsApart DEF ServerNext, Start, Stop, StopReturns, Crash, SetUriHandler, SetErrorHandler,
     calling
<1>2. /\ server = "live" /\ handlers \in Seq(Uris) /\ next \in 1 .. Len(handlers) + 1
      /\ Len(handlers) \in Nat /\ DOMAIN handlers = 1 .. Len(handlers) /\ MaxUris \in Nat
  BY <1>1, ServerAssumption DEF IInv, ServerTypeOK, Registered, RegisterNext
<1>3. CASE next > Len(handlers) /\ StartReturns("ok")
  <2>1. next - 1 = Len(handlers)
    BY <1>2, <1>3
  <2>2. IsInjective(handlers)
    BY <1>2, <2>1 DEF IInv, Registered, IsInjective
  <2>3. Len(handlers) <= MaxUris
    BY <1>2, <2>1 DEF IInv, Registered, ServerTypeOK
  <2>4. returned' = "ok"
    BY <1>3 DEF StartReturns
  <2>5. QED
    BY <2>2, <2>3, <2>4 DEF CompletesWhenFitting, IsInjective
<1>4. CASE next <= Len(handlers) /\ "error" \in RegisterResults(handlers[next])
           /\ StartReturns("error")
  <2>1. SUFFICES ASSUME IsInjective(handlers), Len(handlers) <= MaxUris,
                        "register" \notin ServerFaults
                 PROVE  FALSE
    BY <1>4 DEF CompletesWhenFitting, StartReturns, IsInjective
  <2>2. handlers[next] \in Uris /\ next \in 1 .. Len(handlers)
    BY <1>2, <1>4
  <2>3. handlers[next] \in served \/ Cardinality(served) = MaxUris
    BY <1>2, <1>4, <2>1, <2>2, Refused
  <2>4. handlers[next] \notin served
    <3>1. \A i \in 1 .. next - 1 : i \in 1 .. Len(handlers) /\ i # next
      BY <1>2, <1>4
    <3>2. \A i \in 1 .. next - 1 : handlers[i] # handlers[next]
      BY <1>2, <2>1, <2>2, <3>1 DEF IsInjective
    <3>3. QED
      BY <3>2 DEF IInv, Registered
  <2>5. Cardinality(served) = next - 1
    BY DEF IInv, Registered
  <2>6. QED
    BY <1>2, <1>4, <2>1, <2>3, <2>4, <2>5
<1>5. QED
  BY <1>1, <1>3, <1>4 DEF RegisterNext

-----------------------------------------------------------------------------
(* Theorems.                                                               *)

LEMMA IInvHolds == ServerSpec => []IInv
<1>1. ServerInit => IInv
  BY InitIInv
<1>2. IInv /\ [ServerNext]_serverVars => IInv'
  BY TypeNext, RegisteredNext, ReceivedNext DEF IInv
<1>3. QED
  BY <1>1, <1>2, PTL DEF ServerSpec

\* The server never takes more handlers than it has room for, and getContent
\* never asks for more than the rest of the content.
THEOREM TypeCorrect == ServerSpec => []ServerTypeOK
<1>1. IInv => ServerTypeOK
  BY DEF IInv
<1>2. QED
  BY <1>1, IInvHolds, PTL

\* A server of which the start completed serves every handler that it was ever
\* given, or the application was told that it does not.
THEOREM NoneLost == ServerSpec => []ServedOrReported
<1>1. IInv => ServedOrReported
  BY DEF IInv
<1>2. QED
  BY <1>1, IInvHolds, PTL

\* getContent returns as much as was announced or nothing, and a content that
\* came in one part as it was sent.
THEOREM ContentCorrect == ServerSpec => []ContentOfOnePart
<1>1. IInv => ContentOfOnePart
  BY DEF IInv
<1>2. QED
  BY <1>1, IInvHolds, PTL

\* A start completes if, and when memory suffices only if, the handlers fit.
THEOREM StartCorrect == ServerSpec => StartCompletes
<1>1. IInv /\ [ServerNext]_serverVars => [CompletesWhenFitting]_serverVars
  BY Completes
<1>2. QED
  BY <1>1, IInvHolds, PTL DEF ServerSpec, StartCompletes
=============================================================================
