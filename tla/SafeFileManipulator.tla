------------------------ MODULE SafeFileManipulator ------------------------
(***************************************************************************)
(* SafeFileManipulator on a file system driver: saving, appending, loading *)
(* and deleting files in the modes of eSafeFileSaverMode, one action per   *)
(* driver call, with restarts of the chip between any two of them.         *)
(*                                                                         *)
(* The class takes no lock; its callers serialise their calls, so that at  *)
(* most one call is in progress.                                           *)
(***************************************************************************)
EXTENDS FileDriver, FiniteSets

CONSTANTS
  Modes,               \* the modes of the manipulator that are considered
  Dotted,              \* names that contain a '.' themselves
  ListedNamesResolve,  \* the driver finds a file by the name filesList gave it
  MaxTries,            \* maxSaveTriesInNormalMode and maxSaveTriesInMd5Mode
  MaxCalls,            \* bound of the model: calls that change files
  Unreadable,          \* "no contents": what loading such a file reports
  NoCall               \* no call in progress

ASSUME ManipulatorAssumption ==
  /\ IsFiniteSet(Names)
  /\ Modes \subseteq {"NORMAL", "MD5", "MD5_BACKUP"}
  /\ Dotted \subseteq Names
  /\ ListedNamesResolve \in BOOLEAN
  /\ MaxTries \in Nat \ {0}
  /\ MaxCalls \in Nat
  /\ Unreadable \notin Seq(DataPiece)

VARIABLES
  mode,     \* _mode, chosen by the constructor
  data,     \* per name, the file itself: "<name>.d", or "<name>" in NORMAL mode
  sum,      \* per name, the file "<name>.m"
  mounted,  \* the partition is registered with the VFS
  ready,    \* _isReady
  pc,       \* the next driver call of the call in progress
  call,     \* the call in progress, or NoCall
  try,      \* currentTry
  md5,      \* mainFileMd5, <<>> when it is the empty string
  todo,     \* names that deleteFile or deleteAllFiles has still to remove
  missed,   \* history: names of which the last delete saw no part that is there
  answer,   \* what the last call returned to its caller
  calls     \* number of calls so far, bounded by MaxCalls

files == <<data, sum>>
disk == <<mounted, ready>>
vars == <<mode, data, sum, mounted, ready, pc, call, try, md5, todo, missed, answer, calls>>

Answer(kind) == [kind |-> kind, text |-> <<>>]
Loaded(s) == [kind |-> "loaded", text |-> s]

\* A file as the driver sees it: nothing exists on an unmounted partition, nor
\* under a name that is too long.
View(file, n) == IF mounted /\ n \notin TooLong THEN file[n] ELSE Absent

\* The contents that loading n yields when every read succeeds.  This is what
\* the caller may rely on, mounted or not.
Store(n) ==
  CASE mode = "NORMAL" /\ CanRead(data[n]) -> data[n]
    [] mode = "MD5" /\ CanRead(data[n]) /\ sum[n] = <<Md5(data[n])>> -> data[n]
    [] OTHER -> Unreadable

Contents == [n \in Names |-> Store(n)]

\* The contents to which the digest in the ".m" file of n belongs; two texts
\* with the same MD5 are not considered.
Certified(n) ==
  IF sum[n] # Absent /\ Len(sum[n]) = 1 /\ sum[n][1] \in Digest
  THEN sum[n][1].md5 ELSE Unreadable

Certificates == [n \in Names |-> Certified(n)]

Busy == pc \notin {"boot", "idle"}

WriteCalls ==
  [kind : {"save", "append"}, name : Names, text : Texts,
   seen : Seq(DataPiece) \cup {Unreadable}]
RemoveCalls == [kind : {"delete"}, name : Names] \cup [kind : {"deleteAll"}]
Calls == WriteCalls \cup RemoveCalls

ASSUME CallAssumption == NoCall \notin Calls

Init ==
  /\ mode \in Modes
  /\ data = [n \in Names |-> Absent]
  /\ sum = [n \in Names |-> Absent]
  /\ mounted = FALSE
  /\ ready = FALSE
  /\ pc = "boot"
  /\ call = NoCall
  /\ try = 0
  /\ md5 = <<>>
  /\ todo = <<>>
  /\ missed = {}
  /\ answer = Answer("none")
  /\ calls = 0

-----------------------------------------------------------------------------
(* Construction of the driver at boot: initialize().                       *)

Mount(isMounted, isReady) ==
  /\ mounted' = isMounted
  /\ ready' = isReady

Formatted ==
  /\ data' = [n \in Names |-> Absent]
  /\ sum' = [n \in Names |-> Absent]

\* esp_vfs_spiffs_register mounts, or formats and mounts; esp_spiffs_check may
\* then still fail, and leaves the partition mounted but the driver not ready.
IdfInitialize ==
  \/ Mount(TRUE, TRUE) /\ UNCHANGED files
  \/ /\ "mount" \in Faults
     /\ \/ Mount(TRUE, TRUE) /\ Formatted
        \/ Mount(TRUE, FALSE) /\ (UNCHANGED files \/ Formatted)
        \/ Mount(FALSE, FALSE) /\ (UNCHANGED files \/ Formatted)

\* SPIFFS.begin, and when that fails SPIFFS.format and SPIFFS.begin again.
ArduinoInitialize ==
  \/ Mount(TRUE, TRUE) /\ UNCHANGED files
  \/ /\ "mount" \in Faults
     /\ \/ Mount(TRUE, TRUE) /\ Formatted
        \/ Mount(FALSE, FALSE) /\ (UNCHANGED files \/ Formatted)

Boot ==
  /\ pc = "boot"
  /\ IF Driver = "IDF" THEN IdfInitialize ELSE ArduinoInitialize
  /\ pc' = "idle"
  /\ UNCHANGED <<mode, call, try, md5, todo, missed, answer, calls>>

\* format() of the driver, which the application calls: esp_spiffs_format
\* unmounts, formats and mounts again, and stops where it fails; _isReady stays.
Format ==
  /\ pc = "idle"
  /\ \/ Formatted /\ UNCHANGED mounted /\ answer' = Answer("true")
     \/ /\ "mount" \in Faults
        /\ Formatted \/ UNCHANGED files
        /\ mounted' = FALSE
        /\ answer' = Answer("false")
  /\ UNCHANGED <<mode, ready, pc, call, try, md5, todo, missed, calls>>

-----------------------------------------------------------------------------
(* Calls and returns.                                                      *)

Accept(c, first) ==
  /\ pc = "idle"
  /\ calls < MaxCalls
  /\ calls' = calls + 1
  /\ call' = c
  /\ pc' = first
  /\ missed' = {}
  /\ answer' = Answer("pending")

Return(kind) ==
  /\ pc' = "idle"
  /\ call' = NoCall
  /\ try' = 0
  /\ md5' = <<>>
  /\ todo' = <<>>
  /\ answer' = Answer(kind)
  /\ UNCHANGED <<mode, disk, calls>>

Goto(label) ==
  /\ pc' = label
  /\ UNCHANGED <<mode, disk, call, todo, answer, calls>>

\* A call that answers without touching the driver or any file.
AnswerAtOnce(a) ==
  /\ pc = "idle"
  /\ answer' = a
  /\ UNCHANGED <<mode, files, disk, pc, call, try, md5, todo, missed, calls>>

\* saveContentToFile and appendContentToFile, and the first turn of the loop of
\* saveInNormalMode and saveInMd5Mode.  "seen" records what the file held.
Write(kind, n, t) ==
  /\ mode # "MD5_BACKUP"
  /\ Accept([kind |-> kind, name |-> n, text |-> t, seen |-> Store(n)], "openMain")
  /\ try' = 1
  /\ UNCHANGED <<mode, files, disk, md5, todo>>

SaveContentToFile(n, t) == Write("save", n, t)
AppendContentToFile(n, t) == Write("append", n, t)

\* saveInMd5BackupMode is not implemented.
SaveInMd5BackupMode == mode = "MD5_BACKUP" /\ AnswerAtOnce(Answer("false"))

\* Mutant: currentTry is compared with <=.
NextTryOnceMore ==
  \/ try <= MaxTries /\ try' = try + 1 /\ md5' = <<>> /\ Goto("openMain")
  \/ try > MaxTries /\ Return("false")

\* Mutant: currentTry is not incremented.
NextTryUncounted ==
  \/ try < MaxTries /\ md5' = <<>> /\ Goto("openMain") /\ UNCHANGED try
  \/ try >= MaxTries /\ Return("false")

\* The end of a failed turn: the loop's condition is tested again.
NextTry ==
  \/ try < MaxTries /\ try' = try + 1 /\ md5' = <<>> /\ Goto("openMain")
  \/ try >= MaxTries /\ Return("false")

-----------------------------------------------------------------------------
(* The loop of saveInNormalMode and saveInMd5Mode.                         *)

\* Mutant: every file is opened with "a".
OpenedKeeping(file, flag) == IF file # Absent THEN file ELSE <<>>

\* What fopen leaves of the file: "w" empties it, "a" creates it if missing.
Opened(file, flag) == IF flag = "a" /\ file # Absent THEN file ELSE <<>>

CanOpen(n) == mounted /\ n \notin TooLong
MayFailToOpen(n) == ~CanOpen(n) \/ "open" \in Faults

\* Mutant: the append flag is not passed on, the file is opened with "w".
OpenMainTruncating ==
  /\ pc = "openMain"
  /\ \/ /\ CanOpen(call.name)
        /\ data' = [data EXCEPT ![call.name] = <<>>]
        /\ Goto("writeMain")
        /\ UNCHANGED <<sum, try, md5>>
     \/ /\ MayFailToOpen(call.name)
        /\ NextTry
        /\ UNCHANGED files
  /\ UNCHANGED missed

OpenMain ==
  /\ pc = "openMain"
  /\ \/ /\ CanOpen(call.name)
        /\ data' = [data EXCEPT ![call.name] = Opened(@, IF call.kind = "append" THEN "a" ELSE "w")]
        /\ Goto("writeMain")
        /\ UNCHANGED <<sum, try, md5>>
     \/ /\ MayFailToOpen(call.name)
        /\ NextTry
        /\ UNCHANGED files
  /\ UNCHANGED missed

WriteMain ==
  /\ pc = "writeMain"
  /\ \E o \in WriteOutcomes(data[call.name], Printed(call.text)) :
       /\ data' = [data EXCEPT ![call.name] = o.file]
       /\ \/ o.ok /\ mode = "NORMAL" /\ Return("true")
          \/ o.ok /\ mode = "MD5" /\ Goto("hashMain") /\ UNCHANGED <<try, md5>>
          \/ ~o.ok /\ NextTry
  /\ UNCHANGED <<sum, missed>>

HashMain ==
  /\ pc = "hashMain"
  /\ md5' \in Md5Outcomes(View(data, call.name))
  /\ Goto("openMd5")
  /\ UNCHANGED <<files, try, missed>>

OpenMd5 ==
  /\ pc = "openMd5"
  /\ \/ /\ CanOpen(call.name)
        /\ sum' = [sum EXCEPT ![call.name] = Opened(@, "w")]
        /\ Goto("writeMd5")
        /\ UNCHANGED <<data, try, md5>>
     \/ /\ MayFailToOpen(call.name)
        /\ NextTry
        /\ UNCHANGED files
  /\ UNCHANGED missed

\* Mutant: the result of writing the digest is not tested.
WriteMd5Unchecked ==
  /\ pc = "writeMd5"
  /\ \E o \in WriteOutcomes(sum[call.name], md5) : sum' = [sum EXCEPT ![call.name] = o.file]
  /\ Goto("verifyMd5")
  /\ UNCHANGED <<data, try, md5, missed>>

WriteMd5 ==
  /\ pc = "writeMd5"
  /\ \E o \in WriteOutcomes(sum[call.name], md5) :
       /\ sum' = [sum EXCEPT ![call.name] = o.file]
       /\ \/ o.ok /\ Goto("verifyMd5") /\ UNCHANGED <<try, md5>>
          \/ ~o.ok /\ NextTry
  /\ UNCHANGED <<data, missed>>

\* The digest is read back and compared with the one computed.
VerifyMd5 ==
  /\ pc = "verifyMd5"
  /\ \E r \in ReadOutcomes(View(sum, call.name)) :
       \/ r.ok /\ r.text = md5 /\ Return("true")
       \/ ~(r.ok /\ r.text = md5) /\ NextTry
  /\ UNCHANGED <<files, missed>>

-----------------------------------------------------------------------------
(* Loading.                                                                *)

DoesFileExist(n) ==
  \/ mode = "NORMAL" /\ View(data, n) # Absent
  \/ mode = "MD5" /\ View(data, n) # Absent /\ View(sum, n) # Absent

LoadInNormalMode(n) ==
  {IF r.ok THEN Loaded(r.text) ELSE Answer("false") : r \in ReadOutcomes(View(data, n))}

\* Mutant: the digest is not compared.
LoadWithoutDigest(n) ==
  {IF m.ok /\ r.ok THEN Loaded(r.text) ELSE Answer("false") :
     m \in ReadOutcomes(View(sum, n)), r \in ReadOutcomes(View(data, n))}

LoadInMd5Mode(n) ==
  {IF m.ok /\ r.ok /\ <<Md5(r.text)>> = m.text THEN Loaded(r.text) ELSE Answer("false") :
     m \in ReadOutcomes(View(sum, n)), r \in ReadOutcomes(View(data, n))}

\* loadContentFromFile: no step of it changes anything, so it is one action.
LoadContentFromFile(n) ==
  \/ DoesFileExist(n) /\ mode = "NORMAL" /\ \E a \in LoadInNormalMode(n) : AnswerAtOnce(a)
  \/ DoesFileExist(n) /\ mode = "MD5" /\ \E a \in LoadInMd5Mode(n) : AnswerAtOnce(a)
  \/ (~DoesFileExist(n) \/ "lookup" \in Faults) /\ AnswerAtOnce(Answer("false"))

-----------------------------------------------------------------------------
(* Deleting.                                                               *)

\* What dataFilesList shows of a directory that is read to its end: in MD5 mode
\* a file counts when both its parts are listed; the extension is what follows
\* the first '.', which hides the dotted names.
DataFiles ==
  CASE mode = "NORMAL" -> {n \in Names : DoesFileExist(n)}
    [] mode = "MD5" -> {n \in Names \ Dotted : DoesFileExist(n)}
    [] OTHER -> {}

\* The lists that dataFilesList may return: filesList is empty when the
\* directory does not open, and stops at the first entry that cannot be read.
DataFilesLists == IF "list" \in Faults THEN SUBSET DataFiles ELSE {DataFiles}

\* The orders in which a directory may list a set of files.
Orders(S) ==
  {s \in [1 .. Cardinality(S) -> S] : \A i, j \in DOMAIN s : s[i] = s[j] => i = j}

DeleteFile(n) ==
  \/ /\ mode = "MD5_BACKUP"
     /\ AnswerAtOnce(Answer("true"))
  \/ /\ mode # "MD5_BACKUP"
     /\ Accept([kind |-> "delete", name |-> n], "removeMain")
     /\ todo' = <<n>>
     /\ UNCHANGED <<mode, files, disk, try, md5>>

DeleteAllFiles ==
  /\ Accept([kind |-> "deleteAll"], "listFiles")
  /\ UNCHANGED <<mode, files, disk, try, md5, todo>>

\* deleteAllFiles removes what the list shows; with an empty one it is done.
ListFiles ==
  /\ pc = "listFiles"
  /\ \E S \in DataFilesLists :
       /\ missed' = DataFiles \ S
       /\ \/ S = {} /\ Return("true")
          \/ /\ S # {}
             /\ todo' \in Orders(S)
             /\ pc' = "removeMain"
             /\ UNCHANGED <<mode, disk, call, try, md5, answer, calls>>
  /\ UNCHANGED files

\* deleteFile of the driver, by a name that deleteAllFiles got from filesList
\* or that the caller of deleteFile gave.
Removals(file, n) ==
  IF call.kind = "deleteAll" /\ ~ListedNamesResolve THEN {Removal(file[n], TRUE, TRUE)}
  ELSE IF RefusesToRemove(n) THEN {Removal(file[n], FALSE, FALSE)}
  ELSE IF View(file, n) = Absent THEN {Removal(file[n], TRUE, FALSE)}
  ELSE RemoveOutcomes(file[n])

\* The loop of deleteAllFiles; a single deleteFile is a loop of one turn.
NextRemoval ==
  \/ Tail(todo) = <<>> /\ Return("true")
  \/ /\ Tail(todo) # <<>>
     /\ todo' = Tail(todo)
     /\ pc' = "removeMain"
     /\ UNCHANGED <<mode, disk, call, try, md5, answer, calls>>

RemoveMain ==
  /\ pc = "removeMain"
  /\ \E o \in Removals(data, Head(todo)) :
       /\ data' = [data EXCEPT ![Head(todo)] = o.file]
       /\ missed' = IF o.missed THEN missed \cup {Head(todo)} ELSE missed
       /\ \/ o.ok /\ mode = "MD5" /\ Goto("removeMd5") /\ UNCHANGED <<try, md5>>
          \/ o.ok /\ mode = "NORMAL" /\ NextRemoval
          \/ ~o.ok /\ Return("false")
  /\ UNCHANGED sum

RemoveMd5 ==
  /\ pc = "removeMd5"
  /\ \E o \in Removals(sum, Head(todo)) :
       /\ sum' = [sum EXCEPT ![Head(todo)] = o.file]
       /\ missed' = IF o.missed THEN missed ELSE missed \ {Head(todo)}
       /\ \/ o.ok /\ NextRemoval
          \/ ~o.ok /\ Return("false")
  /\ UNCHANGED data

-----------------------------------------------------------------------------
(* A restart: RAM is lost, and a write in progress is cut off anywhere.     *)

Reset ==
  /\ "reset" \in Faults
  /\ pc # "boot"
  /\ \/ /\ pc = "writeMain"
        /\ \E s \in CutOff(data[call.name], Printed(call.text)) :
             data' = [data EXCEPT ![call.name] = s]
        /\ UNCHANGED sum
     \/ /\ pc = "writeMd5"
        /\ \E s \in CutOff(sum[call.name], md5) : sum' = [sum EXCEPT ![call.name] = s]
        /\ UNCHANGED data
     \/ /\ pc \notin {"writeMain", "writeMd5"}
        /\ UNCHANGED files
  /\ mounted' = FALSE
  /\ ready' = FALSE
  /\ pc' = "boot"
  /\ call' = NoCall
  /\ try' = 0
  /\ md5' = <<>>
  /\ todo' = <<>>
  /\ missed' = {}
  /\ answer' = Answer("reset")
  /\ UNCHANGED <<mode, calls>>

-----------------------------------------------------------------------------
Step ==
  \/ Boot
  \/ OpenMain \/ WriteMain \/ HashMain \/ OpenMd5 \/ WriteMd5 \/ VerifyMd5
  \/ ListFiles \/ RemoveMain \/ RemoveMd5

Request ==
  \/ \E n \in Names, t \in Texts : SaveContentToFile(n, t) \/ AppendContentToFile(n, t)
  \/ \E n \in Names : LoadContentFromFile(n) \/ DeleteFile(n)
  \/ DeleteAllFiles
  \/ SaveInMd5BackupMode
  \/ Format

Next == Step \/ Request \/ Reset

\* The task that made a call keeps running until the call returns.
Fairness == WF_vars(Step)

Spec == Init /\ [][Next]_vars
FairSpec == Spec /\ Fairness

-----------------------------------------------------------------------------
(* Properties.                                                             *)

Labels == {"boot", "idle", "openMain", "writeMain", "hashMain", "openMd5",
           "writeMd5", "verifyMd5", "listFiles", "removeMain", "removeMd5"}

Answers == [kind : {"none", "pending", "reset", "true", "false"}, text : {<<>>}]
           \cup [kind : {"loaded"}, text : Seq(DataPiece)]

\* The types of the variables.
TypeOK ==
  /\ mode \in Modes
  /\ data \in [Names -> DataFile]
  /\ sum \in [Names -> DigestFile]
  /\ mounted \in BOOLEAN
  /\ ready \in BOOLEAN
  /\ pc \in Labels
  /\ call \in Calls \cup {NoCall}
  /\ try \in 0 .. MaxTries
  /\ md5 \in Seq(Digest) /\ Len(md5) <= 1
  /\ todo \in Seq(Names)
  /\ missed \in SUBSET Names
  /\ answer \in Answers
  /\ calls \in 0 .. MaxCalls

\* The faults that the driver reports.  SPIFFS_IDFDriver takes the negative
\* count of a failed fprintf for success, and neither driver learns of bytes
\* lost when a file is closed.
Trustworthy ==
  /\ "flush" \notin Faults
  /\ Driver = "IDF" => "write" \notin Faults

\* The MD5 of a file that could not be read is "", which SPIFFSDriver stores,
\* and reads back, as a digest; SPIFFS_IDFDriver cannot write an empty text.
MayMishash == Driver = "ARDUINO" /\ MayMisread

\* s is the earlier contents base followed by t, perhaps several times or torn:
\* the residue of the failed turns of the retry loop.  After contents that
\* could not be read, only the end of s is known.
Extends(base, t, s) ==
  /\ t # <<>> => s # <<>> /\ s[Len(s)] = t[1]
  /\ base # Unreadable =>
       /\ Len(base) <= Len(s) /\ Len(s) <= Len(base) + MaxTries
       /\ \A i \in 1 .. Len(base) : s[i] = base[i]
       /\ \A i \in Len(base) + 1 .. Len(s) : t # <<>> /\ s[i] \in {t[1], Torn(t[1])}

\* What the caller may conclude about the contents s from an accepted save or
\* append c.
Fulfils(c, s) ==
  \/ c.kind = "save" /\ s = Printed(c.text)
  \/ c.kind = "append" /\ s # Unreadable /\ Extends(c.seen, Printed(c.text), s)

\* The contents f of the file before turn k of the loop of an append to
\* contents that could be read: those contents, then the residue of the turns.
Residue(c, k, f) ==
  c.kind = "append" /\ c.seen # Unreadable =>
    /\ f # Absent
    /\ Len(c.seen) <= Len(f) /\ Len(f) < Len(c.seen) + k
    /\ \A i \in 1 .. Len(c.seen) : f[i] = c.seen[i]
    /\ \A i \in Len(c.seen) + 1 .. Len(f) :
         c.text # <<>> /\ f[i] \in {Printed(c.text)[1], Torn(Printed(c.text)[1])}

\* What saveInMd5Mode relies on between its driver calls, restarts and failed
\* turns included: from the hash of the main file to the end of the turn the
\* file holds what the call asked for, the digest in RAM is the digest of
\* that file, and the digest file holds it when it is read back.
LoopInvariant ==
  Trustworthy =>
    /\ pc \in {"openMain", "writeMain"} => Residue(call, try, data[call.name])
    /\ pc = "writeMain" =>
         data[call.name] # Absent /\ (call.kind = "save" => data[call.name] = <<>>)
    /\ pc \in {"hashMain", "openMd5", "writeMd5", "verifyMd5"} =>
         CanRead(data[call.name]) /\ Fulfils(call, data[call.name])
         /\ Residue(call, try + 1, data[call.name])
    /\ pc \in {"openMd5", "writeMd5"} =>
         md5 = <<Md5(data[call.name])>> \/ (MayMisread /\ md5 = <<>>)
    /\ pc = "writeMd5" => sum[call.name] = <<>>
    /\ pc = "verifyMd5" =>
         /\ md5 = <<Md5(data[call.name])>> \/ (MayMishash /\ md5 = <<>>)
         /\ sum[call.name] = md5

\* When saveContentToFile or appendContentToFile answers true on a trustworthy
\* driver, the file can be loaded and holds what was asked for, however many
\* turns of the loop failed before (saveInNormalMode and saveInMd5Mode), unless
\* SPIFFSDriver failed to hash the file in just the turn that ended the loop.
StoredWhenTrue ==
  Trustworthy /\ call # NoCall /\ answer'.kind = "true" /\ call.kind \in {"save", "append"}
    => Fulfils(call, Contents'[call.name]) \/ (MayMishash /\ mode = "MD5" /\ md5 = <<>>)
TrueMeansStored == [][StoredWhenTrue]_vars

\* Whether a driver may answer true for a write that was cut short.
MayTear == "flush" \in Faults \/ (Driver = "IDF" /\ "write" \in Faults)

\* The main file f and the digest file g that the answer true to c may leave.
MayLeave(c, f, g) ==
  LET t == Printed(c.text) IN
  /\ \/ Fulfils(c, f)
     \/ /\ MayTear
        /\ c.kind = "save" => f \in {<<>>} \cup {<<Torn(t[i])>> : i \in DOMAIN t}
        /\ Residue(c, MaxTries + 1, f)
  /\ mode = "MD5" => g = <<Md5(f)>> \/ (MayMishash /\ g = <<>>)

\* The same on a driver that is not trustworthy: the file may have lost the end
\* of the text, never what an append could have loaded, and nothing else follows;
\* and the digest file certifies just this file, unless the file could not be
\* read, in which case it is empty and loading fails.
LeftWhenTrue ==
  call # NoCall /\ answer'.kind = "true" /\ call.kind \in {"save", "append"}
    => MayLeave(call, data'[call.name], sum'[call.name])
LostOnlyAtClose == [][LeftWhenTrue]_vars

\* A delete that answers true while the partition is mounted leaves nothing to
\* load, whatever earlier calls left of the two parts of the file, but files
\* that it missed in this very call: the directory was not read to its end, or
\* every lookup of a part of the file that is there failed.  For deleteFile and
\* deleteAllFiles take a file that they do not find for one that is deleted.
GoneOrMissed(n) == Contents'[n] = Unreadable \/ n \in missed'

DeletedWhenTrue ==
  call # NoCall /\ answer'.kind = "true" /\ mounted
    => /\ call.kind = "delete" => GoneOrMissed(call.name)
       /\ call.kind = "deleteAll" => \A n \in Names \ Dotted : GoneOrMissed(n)
TrueMeansDeleted == [][DeletedWhenTrue]_vars

\* What a caller takes a true answer for: the text it saved can be loaded.
\* The drivers do not deliver this in every case (see the findings).
SavedVerbatim ==
  [][call # NoCall /\ answer'.kind = "true" /\ call.kind = "save"
     => Contents'[call.name] = call.text]_vars

\* deleteAllFiles that answers true while the partition is mounted leaves none
\* of the files that it listed.  False on SPIFFS_IDFDriver (see the findings).
TrueMeansAllDeleted ==
  [][call # NoCall /\ answer'.kind = "true" /\ call.kind = "deleteAll" /\ mounted
     => \A n \in Names \ Dotted : Contents'[n] = Unreadable]_vars

\* Every call returns to its caller, or the chip restarts: the loop of
\* saveInMd5Mode and the loop of deleteAllFiles end whatever the driver answers.
EveryCallReturns == Busy ~> ~Busy

\* On a trustworthy driver MODE_USE_MD5 is the store that CheckedStore
\* describes: what a file can be loaded with only ever changes to what a call
\* asked for or to nothing, and every answer is true of the store.
Promise == INSTANCE CheckedStore WITH
  store <- Contents, last <- Certificates, online <- mounted, request <- call,
  MayMiss <- Faults \cap {"lookup", "list"} # {}

ImplementsCheckedStore == Promise!Spec
=============================================================================
