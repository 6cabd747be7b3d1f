---------------------------- MODULE FileDriver ----------------------------
(***************************************************************************)
(* The two implementations of IFileSystemDriver, as operators on the       *)
(* contents of one file: SPIFFS_IDFDriver (Driver = "IDF"), over the C     *)
(* stream calls of ESP-IDF, and SPIFFSDriver (Driver = "ARDUINO"), over    *)
(* the Arduino File class.  A call that can fail is the set of its         *)
(* possible outcomes; CONSTANT Faults says which failures the flash and    *)
(* the C library below the driver may show.                                *)
(*                                                                         *)
(* A text handed to a driver is a sequence of at most one piece: <<>> is   *)
(* the empty string.  A file is the sequence of the pieces written to it,  *)
(* or Absent.  A write cut short leaves a torn piece.                      *)
(***************************************************************************)
EXTENDS Naturals, Sequences

CONSTANTS
  Names,        \* file names, without extension
  Payloads,     \* the non-empty texts that callers store
  Reformatted,  \* those that fprintf, given them as its format, alters
  TooLong,      \* names that exceed the file system's limit of 31 characters
  Driver,       \* which implementation
  Faults,       \* the failures that may occur
  Absent        \* a file that is not there

(***************************************************************************)
(* "open"   fopen or SPIFFS.open of a file to be written fails             *)
(* "write"  fprintf fails, or Stream.write stores fewer bytes              *)
(* "flush"  bytes still buffered are lost at close, which no caller tests  *)
(* "read"   opening a file to be read, or reading it, fails                *)
(* "lookup" stat or SPIFFS.exists fails for a file that is there           *)
(* "list"   the directory does not open, or its reading ends early         *)
(* "remove" unlink or SPIFFS.remove fails                                  *)
(* "mount"  the partition does not mount, or its check fails               *)
(* "reset"  the chip restarts between two steps                            *)
(***************************************************************************)
FaultKinds ==
  {"open", "write", "flush", "read", "lookup", "list", "remove", "mount", "reset"}

Mangled(p) == [mangled |-> p]
Torn(x) == [torn |-> x]
Md5(s) == [md5 |-> s]

\* A piece that one driver call stored from its first to its last byte.
WholePiece == Payloads \cup [mangled : Payloads]
DataPiece == WholePiece \cup [torn : WholePiece]
Digest == [md5 : Seq(DataPiece)]
DigestPiece == Digest \cup [torn : Digest]

Texts == {<<>>} \cup {<<p>> : p \in Payloads}
DataFile == Seq(DataPiece) \cup {Absent}
DigestFile == Seq(DigestPiece) \cup {Absent}

ASSUME DriverAssumption ==
  /\ Driver \in {"IDF", "ARDUINO"}
  /\ Faults \subseteq FaultKinds
  /\ Reformatted \subseteq Payloads
  /\ TooLong \subseteq Names

ASSUME ContentAssumption ==
  /\ Absent \notin Seq(DataPiece)
  /\ Absent \notin Seq(DigestPiece)
  /\ WholePiece \cap [torn : WholePiece] = {}

-----------------------------------------------------------------------------
(* Writing.                                                                *)

\* What a driver stores of text t when nothing fails: SPIFFS_IDFDriver hands
\* the text to fprintf as the format string, SPIFFSDriver copies its bytes.
Printed(t) ==
  IF Driver = "IDF"
  THEN [i \in DOMAIN t |-> IF t[i] \in Reformatted THEN Mangled(t[i]) ELSE t[i]]
  ELSE t

\* What an incomplete write of t leaves of a file whose contents were f.
Partial(f, t) == {f} \cup {Append(f, Torn(t[i])) : i \in DOMAIN t}

Stored(s, r) == [file |-> s, ok |-> r]

\* doWriteContentToFile after fopen: fprintf and fclose.  Only a count of zero
\* is a failure; a negative count, fprintf's error, is not zero.
IdfWrite(f, t) ==
  {Stored(f \o t, t # <<>>)}
  \cup {Stored(s, TRUE) : s \in IF t # <<>> /\ Faults \cap {"write", "flush"} # {}
                                THEN Partial(f, t) ELSE {}}

\* Mutant: the result of printContentToStream is not returned.
ArduinoWriteUnchecked(f, t) ==
  {Stored(s, TRUE) : s \in {f \o t} \cup (IF "write" \in Faults THEN Partial(f, t) ELSE {})}

\* printContentToStream compares the count with the length; file.close()
\* returns nothing.
ArduinoWrite(f, t) ==
  {Stored(f \o t, TRUE)}
  \cup {Stored(s, FALSE) : s \in IF t # <<>> /\ "write" \in Faults
                                 THEN Partial(f, t) ELSE {}}
  \cup {Stored(s, TRUE) : s \in IF t # <<>> /\ "flush" \in Faults
                                THEN Partial(f, t) ELSE {}}

\* The outcomes of writing the (printed) text t to an open file.
WriteOutcomes(f, t) == IF Driver = "IDF" THEN IdfWrite(f, t) ELSE ArduinoWrite(f, t)

\* The contents found after a restart that interrupted the write.
CutOff(f, t) == {f \o t} \cup Partial(f, t)

-----------------------------------------------------------------------------
(* Reading and removing.                                                   *)

NotRead == [ok |-> FALSE, text |-> <<>>]
GotText(s) == [ok |-> TRUE, text |-> s]

\* fread of one block of length zero returns zero: SPIFFS_IDFDriver cannot
\* read an empty file.
IdfCanRead(f) == f # Absent /\ f # <<>>
ArduinoCanRead(f) == f # Absent
CanRead(f) == IF Driver = "IDF" THEN IdfCanRead(f) ELSE ArduinoCanRead(f)

\* A file that is there may not be read: it is looked up, opened and read.
MayMisread == Faults \cap {"lookup", "read"} # {}

\* readEntireFileToString on a file with contents f.
ReadOutcomes(f) ==
  (IF CanRead(f) THEN {GotText(f)} ELSE {})
  \cup (IF ~CanRead(f) \/ MayMisread THEN {NotRead} ELSE {})

\* AbstractFileSystemDriver::getFileMd5: the empty string when the file is not
\* found or cannot be read.
Md5Outcomes(f) == {IF r.ok THEN <<Md5(r.text)>> ELSE <<>> : r \in ReadOutcomes(f)}

\* What deleteFile leaves and answers; "missed" when its lookup did not show it
\* the file, which the driver does not tell from a file that is not there.
Removal(s, r, m) == [file |-> s, ok |-> r, missed |-> m]

\* Mutant: the result of unlink or SPIFFS.remove is not tested.
RemoveUnchecked(f) ==
  {Removal(Absent, TRUE, FALSE)}
  \cup (IF f # Absent /\ "remove" \in Faults THEN {Removal(f, TRUE, FALSE)} ELSE {})
  \cup (IF f # Absent /\ "lookup" \in Faults THEN {Removal(f, TRUE, TRUE)} ELSE {})

\* deleteFile of a file with contents f; a file that the lookup does not find
\* counts as deleted.
RemoveOutcomes(f) ==
  {Removal(Absent, TRUE, FALSE)}
  \cup (IF f # Absent /\ "remove" \in Faults THEN {Removal(f, FALSE, FALSE)} ELSE {})
  \cup (IF f # Absent /\ "lookup" \in Faults THEN {Removal(f, TRUE, TRUE)} ELSE {})

\* SPIFFSDriver refuses a long name before it looks for the file.
RefusesToRemove(n) == Driver = "ARDUINO" /\ n \in TooLong

=============================================================================
