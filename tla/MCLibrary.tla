----------------------------- MODULE MCLibrary -----------------------------
(***************************************************************************)
(* The parts of the library that are small and meet no other part, in one  *)
(* instance for TLC.  A behaviour is a behaviour of one part, "side"; the  *)
(* state of the others stays as it was.  The inputs of the parts without   *)
(* state grow step by step: a URL by a token, a directory by an entry, the *)
(* voltage by one.                                                         *)
(***************************************************************************)
EXTENDS Webserver, ESP32HttpClient, HttpUtils, DirListing, BatteryMeter

VARIABLE side

vars == <<side, serverVars, clientVars, url, listingVars, meterVars>>

Init ==
  /\ side \in {"server", "client", "url", "directory", "meter"}
  /\ ServerInit
  /\ ClientInit
  /\ UrlInit
  /\ ListingInit
  /\ MeterInit
  /\ side # "meter" => dischargedVoltage = 0 /\ fullVoltage = 0

Next ==
  \/ /\ side = "server" /\ ServerNext
     /\ UNCHANGED <<side, clientVars, url, listingVars, meterVars>>
  \/ /\ side = "client" /\ ClientNext
     /\ UNCHANGED <<side, serverVars, url, listingVars, meterVars>>
  \/ /\ side = "url" /\ AddToken
     /\ UNCHANGED <<side, serverVars, clientVars, listingVars, meterVars>>
  \/ /\ side = "directory" /\ ListingNext
     /\ UNCHANGED <<side, serverVars, clientVars, url, meterVars>>
  \/ /\ side = "meter" /\ Charge
     /\ UNCHANGED <<side, serverVars, clientVars, url, listingVars>>

\* Where another part runs, the server and the client are idle for ever.
Spec == Init /\ [][Next]_vars /\ ServerFairness /\ ClientFairness
=============================================================================
