---------------------------- MODULE CheckedStore ----------------------------
(***************************************************************************)
(* What MODE_USE_MD5 promises to its callers: a store whose files are      *)
(* either what some call asked for, or unreadable.  A call may spoil the   *)
(* files it is about at any moment until it answers, and a restart may cut *)
(* it off; whatever happens, a file comes back with nothing but contents   *)
(* that were certified for it before or that the call in progress asks for.*)
(* A delete that answers true leaves only the files that it missed.        *)
(***************************************************************************)
EXTENDS Naturals

CONSTANTS
  Names,
  Texts,
  Dotted,              \* names that no list of files shows
  ListedNamesResolve,  \* a listed name leads back to its file
  MayMisread,          \* a read may fail
  MayMiss,             \* a file that is there may not be found or not be listed
  MayMishash,          \* an accepted write may lack the digest of its contents
  Unreadable,
  NoCall,
  Fulfils(_, _)        \* Fulfils(r, s): s is what the save or append r asks for

VARIABLES
  store,    \* per name, what loading it yields
  last,     \* per name, the contents that its digest certifies
  online,   \* the file system is mounted
  request,  \* the call in progress
  missed,   \* the names that the last delete or deleteAll did not find
  answer

vars == <<store, last, online, request, missed, answer>>

Nothing == [n \in Names |-> Unreadable]
Answer(kind) == [kind |-> kind, text |-> <<>>]

Init ==
  /\ store = Nothing
  /\ last = Nothing
  /\ online = FALSE
  /\ request = NoCall
  /\ missed = {}
  /\ answer = Answer("none")

Writes(r) == r.kind \in {"save", "append"}
IsAbout(r, n) == r.kind = "deleteAll" \/ r.name = n

\* What may become of the files while the call r is in progress.
Spoil(r) ==
  \A n \in Names :
    IF ~IsAbout(r, n) THEN store'[n] = store[n] /\ last'[n] = last[n]
    ELSE IF Writes(r)
         THEN /\ last'[n] \in {last[n], Unreadable} \/ Fulfils(r, last'[n])
              /\ store'[n] \in {last'[n], Unreadable}
         ELSE /\ last'[n] \in {last[n], Unreadable}
              /\ store'[n] \in {store[n], Unreadable}

\* The names that r may miss.
MayBeMissed(r) ==
  IF ~Writes(r) /\ (MayMiss \/ (r.kind = "deleteAll" /\ ~ListedNamesResolve))
  THEN {n \in Names : IsAbout(r, n)} ELSE {}

GoneOrMissed(n) == store'[n] = Unreadable \/ n \in missed'

\* What the answer "true" to r means.
Kept(r) ==
  CASE Writes(r) ->
         online /\ (Fulfils(r, store'[r.name]) \/ (MayMishash /\ last'[r.name] = Unreadable))
    [] r.kind = "delete" -> online => GoneOrMissed(r.name)
    [] r.kind = "deleteAll" -> online => \A n \in Names \ Dotted : GoneOrMissed(n)

\* The file system is mounted, or fails to; it may have been formatted.
Boot ==
  /\ request = NoCall
  /\ ~online
  /\ online' \in BOOLEAN
  /\ \/ UNCHANGED <<store, last>>
     \/ store' = Nothing /\ last' = Nothing
  /\ UNCHANGED <<request, missed, answer>>

Ask ==
  /\ request = NoCall
  /\ \/ \E kind \in {"save", "append"}, n \in Names, t \in Texts :
          request' = [kind |-> kind, name |-> n, text |-> t, seen |-> store[n]]
     \/ \E n \in Names : request' = [kind |-> "delete", name |-> n]
     \/ request' = [kind |-> "deleteAll"]
  /\ missed' = {}
  /\ answer' = Answer("pending")
  /\ UNCHANGED <<store, last, online>>

Work ==
  /\ request # NoCall
  /\ Spoil(request)
  /\ missed' \subseteq MayBeMissed(request)
  /\ UNCHANGED <<online, request, answer>>

Reply ==
  /\ request # NoCall
  /\ Spoil(request)
  /\ missed' \subseteq MayBeMissed(request)
  /\ \/ answer' = Answer("true") /\ Kept(request)
     \/ answer' = Answer("false")
  /\ request' = NoCall
  /\ UNCHANGED online

Load(n) ==
  /\ request = NoCall
  /\ \/ online /\ store[n] # Unreadable /\ answer' = [kind |-> "loaded", text |-> store[n]]
     \/ (~online \/ store[n] = Unreadable \/ MayMisread) /\ answer' = Answer("false")
  /\ UNCHANGED <<store, last, online, request, missed>>

Restart ==
  /\ IF request = NoCall THEN UNCHANGED <<store, last>> ELSE Spoil(request)
  /\ online' = FALSE
  /\ request' = NoCall
  /\ missed' = {}
  /\ answer' = Answer("reset")

\* Formatting leaves nothing, or fails, and then the file system is off.
Format ==
  /\ request = NoCall
  /\ \/ online' = online /\ store' = Nothing /\ last' = Nothing /\ answer' = Answer("true")
     \/ /\ online' = FALSE
        /\ UNCHANGED <<store, last>> \/ (store' = Nothing /\ last' = Nothing)
        /\ answer' = Answer("false")
  /\ UNCHANGED <<request, missed>>

Next ==
  \/ Boot \/ Ask \/ Work \/ Reply \/ Restart
  \/ \E n \in Names : Load(n)
  \/ Format

Spec == Init /\ [][Next]_vars
=============================================================================
