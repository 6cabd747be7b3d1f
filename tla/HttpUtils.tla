----------------------------- MODULE HttpUtils -----------------------------
(***************************************************************************)
(* HttpUtils: what the functions on URLs compute.  A URL is a sequence of  *)
(* tokens: ":" , "/" and " ", the words "http" and "https" in any case,    *)
(* and other words.  Positions count from 0, as in std::string.            *)
(***************************************************************************)
EXTENDS Integers, Sequences
LOCAL INSTANCE SequencesExt

CONSTANTS
  Tokens,
  MaxTokens   \* bound of the model: tokens of the URL

VARIABLE url  \* the argument of the functions

UrlInit == url = <<>>
AddToken == Len(url) < MaxTokens /\ \E t \in Tokens : url' = Append(url, t)
UrlSpec == UrlInit /\ [][AddToken]_url

-----------------------------------------------------------------------------
npos == -1
Marker == <<":", "/", "/">>
Refused == <<"false">>

\* std::string::find of pattern in s, from position "from" on.
Find(s, pattern, from) ==
  LET Here(i) == SubSeq(s, i + 1, i + Len(pattern)) = pattern
      found == {i \in from .. Len(s) - Len(pattern) : Here(i)}
  IN IF found = {} THEN npos ELSE CHOOSE i \in found : \A j \in found : i <= j

Substr(s, from, length) == SubSeq(s, from + 1, from + length)
SubstrFrom(s, from) == SubSeq(s, from + 1, Len(s))

GetProtocolIndex == Find(url, Marker, 0)
HostIndex == GetProtocolIndex + Len(Marker)
SlashIndex == Find(url, <<"/">>, HostIndex)

IsProtocolValid(protocol) == protocol \in {<<"http">>, <<"https">>}

\* Mutant: the protocol may stand anywhere before the marker.
ProtocolEndsValid ==
  GetProtocolIndex > 0 /\ IsProtocolValid(<<url[GetProtocolIndex]>>)

\* The tests of isUrlCorrect on the protocol.
HasValidProtocol ==
  GetProtocolIndex >= 0 /\ IsProtocolValid(Substr(url, 0, GetProtocolIndex))

IsUrlCorrect ==
  /\ Len(url) # 0
  /\ ~ Contains(url, " ")
  /\ HasValidProtocol
  /\ (IF SlashIndex > 0 THEN SlashIndex ELSE Len(url)) - HostIndex > 0

TrimHostFromUrl ==
  IF ~ IsUrlCorrect THEN Refused
  ELSE IF SlashIndex = npos THEN <<"/">> ELSE SubstrFrom(url, SlashIndex)

\* Mutant: the host ends where the string has its first slash after the protocol.
HostBeforeFirstSlash ==
  IF ~ IsUrlCorrect THEN Refused
  ELSE Substr(url, HostIndex, Find(url, <<"/">>, GetProtocolIndex) - HostIndex)

GetHostFromUrl ==
  IF ~ IsUrlCorrect THEN Refused
  ELSE IF SlashIndex >= 0
       THEN Substr(url, HostIndex, SlashIndex - HostIndex)
       ELSE SubstrFrom(url, HostIndex)

GetProtocolFromUrl ==
  IF GetProtocolIndex = npos THEN Refused ELSE Substr(url, 0, GetProtocolIndex)

\* HttpRequest::isValid
IsValid == GetProtocolFromUrl # Refused /\ IsProtocolValid(GetProtocolFromUrl)

-----------------------------------------------------------------------------
(* Properties.                                                             *)

\* url reads protocol://host, or protocol://host followed by a path.
IsUrl(protocol, host, path) ==
  /\ protocol \in {<<"http">>, <<"https">>}
  /\ host # <<>> /\ ~ Contains(host, "/")
  /\ path = <<>> \/ path[1] = "/"
  /\ url = protocol \o Marker \o host \o path

\* isUrlCorrect accepts exactly the URLs of that form without spaces, and
\* isValid of a request accepts them all.
UrlAccepted ==
  /\ IsUrlCorrect <=>
       /\ ~ Contains(url, " ")
       /\ \E i, j, k \in 0 .. Len(url) :
            /\ i <= j /\ j <= k
            /\ IsUrl(SubSeq(url, 1, i), SubSeq(url, j + 1, k), SubstrFrom(url, k))
  /\ IsUrlCorrect => IsValid

\* The functions take a correct URL apart and lose nothing of it; the path of a
\* URL without one is "/".
UrlTakenApart ==
  LET Parts(path) == IsUrl(GetProtocolFromUrl, GetHostFromUrl, path) IN
  IF IsUrlCorrect
  THEN Parts(TrimHostFromUrl) \/ (Parts(<<>>) /\ TrimHostFromUrl = <<"/">>)
  ELSE GetHostFromUrl = Refused /\ TrimHostFromUrl = Refused
=============================================================================
