--------------------------- MODULE SafeFileProofs ---------------------------
(***************************************************************************)
(* Proofs about SafeFileManipulator, for every value of its constants.     *)
(*                                                                         *)
(* TypeOK is not inductive: what a driver call does to a file depends on   *)
(* the call in progress, which is a write in the loop of saveInNormalMode  *)
(* and saveInMd5Mode and a delete in the loop of deleteAllFiles.           *)
(* ControlInvariant says so, and IInv adds it to TypeOK.                   *)
(***************************************************************************)
EXTENDS SafeFileManipulator, TLAPS, SequenceTheorems, FiniteSetTheorems

LoopLabels == {"openMain", "writeMain", "hashMain", "openMd5", "writeMd5", "verifyMd5"}
RemoveLabels == {"removeMain", "removeMd5"}

\* What the program counter says of the call in progress and of its files.
ControlInvariant ==
  /\ pc \in {"boot", "idle"} => call = NoCall
  /\ pc \in LoopLabels \cup RemoveLabels =>
       answer = Answer("pending") /\ mode \in {"NORMAL", "MD5"}
  /\ pc \in LoopLabels => call \in WriteCalls /\ try \in 1 .. MaxTries
  /\ pc = "listFiles" => answer = Answer("pending") /\ call = [kind |-> "deleteAll"]
  /\ pc \in RemoveLabels => call \in RemoveCalls /\ todo # <<>>
  /\ pc \in {"hashMain", "openMd5", "writeMd5", "verifyMd5", "removeMd5"} => mode = "MD5"
  /\ pc \in LoopLabels \ {"openMain"} =>
       mounted /\ call.name \notin TooLong /\ data[call.name] # Absent
  /\ pc \in {"writeMd5", "verifyMd5"} => sum[call.name] # Absent

IInv == TypeOK /\ ControlInvariant

-----------------------------------------------------------------------------
(* The operators of FileDriver.                                            *)

\* What a driver stores of a text is one whole piece, or nothing of nothing.
LEMMA PrintedType ==
  ASSUME NEW t \in Texts
  PROVE  /\ Printed(t) \in Seq(WholePiece)
         /\ Printed(t) = <<>> <=> t = <<>>
         /\ t # <<>> => Len(Printed(t)) = 1
<1>1. CASE t = <<>>
  BY <1>1 DEF Printed, WholePiece
<1>2. CASE t # <<>>
  <2>1. PICK p \in Payloads : t = <<p>>
    BY <1>2 DEF Texts
  <2>2. Printed(t) = <<IF Driver = "IDF" /\ p \in Reformatted THEN Mangled(p) ELSE p>>
    BY <2>1 DEF Printed
  <2>3. PICK q \in WholePiece : Printed(t) = <<q>>
    BY <2>2 DEF WholePiece, Mangled
  <2>4. Len(<<q>>) = 1 /\ <<q>> # <<>> /\ <<q>> \in Seq(WholePiece)
    OBVIOUS
  <2>5. QED
    BY <1>2, <2>3, <2>4
<1>3. QED
  BY <1>1, <1>2

\* A write, complete, failed or cut off, leaves pieces of the right kind.
LEMMA PartialType ==
  ASSUME NEW W, NEW P, W \subseteq P, \A w \in W : Torn(w) \in P,
         NEW f \in Seq(P), NEW t \in Seq(W), NEW s \in Partial(f, t) \cup {f \o t}
  PROVE  s \in Seq(P)
<1>1. t \in Seq(P)
  BY SeqMonotonic
<1>2. f \o t \in Seq(P)
  BY <1>1
<1>3. ASSUME s \in Partial(f, t) PROVE s \in Seq(P)
  BY <1>3 DEF Partial
<1>4. QED
  BY <1>2, <1>3

LEMMA WriteOutcomesType ==
  ASSUME NEW W, NEW P, W \subseteq P, \A w \in W : Torn(w) \in P,
         NEW f \in Seq(P), NEW t \in Seq(W), NEW o \in WriteOutcomes(f, t)
  PROVE  o.file \in Seq(P) /\ o.ok \in BOOLEAN
<1>1. \/ o \in {Stored(f \o t, t # <<>>), Stored(f \o t, TRUE)}
      \/ \E s \in Partial(f, t), b \in BOOLEAN : o = Stored(s, b)
  BY DEF WriteOutcomes, IdfWrite, ArduinoWrite
<1>2. ASSUME NEW s, NEW b \in BOOLEAN
      PROVE  Stored(s, b).file = s /\ Stored(s, b).ok \in BOOLEAN
  BY DEF Stored
<1>3. f \o t \in Seq(P) /\ \A s \in Partial(f, t) : s \in Seq(P)
  BY PartialType
<1>4. CASE \E s \in Partial(f, t), b \in BOOLEAN : o = Stored(s, b)
  BY <1>2, <1>3, <1>4
<1>5. (t # <<>>) \in BOOLEAN
  OBVIOUS
<1>6. CASE o \in {Stored(f \o t, t # <<>>), Stored(f \o t, TRUE)}
  <2>1. o.file = f \o t /\ o.ok \in BOOLEAN
    BY <1>2, <1>5, <1>6, Zenon
  <2>2. QED
    BY <1>3, <2>1
<1>7. QED
  BY <1>1, <1>4, <1>6

LEMMA CutOffType ==
  ASSUME NEW W, NEW P, W \subseteq P, \A w \in W : Torn(w) \in P,
         NEW f \in Seq(P), NEW t \in Seq(W), NEW s \in CutOff(f, t)
  PROVE  s \in Seq(P)
BY PartialType DEF CutOff

LEMMA PieceTypes ==
  /\ WholePiece \subseteq DataPiece /\ \A w \in WholePiece : Torn(w) \in DataPiece
  /\ Digest \subseteq DigestPiece /\ \A w \in Digest : Torn(w) \in DigestPiece
  /\ \A s \in Seq(DataPiece) : Md5(s) \in Digest
BY DEF DataPiece, DigestPiece, Digest, Torn, Md5

\* Reading a file yields its contents, or nothing.
LEMMA ReadOutcomesType ==
  ASSUME NEW f, NEW r \in ReadOutcomes(f)
  PROVE  /\ r = NotRead \/ (r = GotText(f) /\ f # Absent)
         /\ r.ok \in BOOLEAN
         /\ r.ok => r.text = f /\ CanRead(f)
<1>1. r = NotRead \/ (r = GotText(f) /\ CanRead(f))
  BY Zenon DEF ReadOutcomes
<1>2. ~NotRead.ok /\ NotRead.ok \in BOOLEAN
  BY DEF NotRead
<1>3. GotText(f).ok /\ GotText(f).ok \in BOOLEAN /\ GotText(f).text = f
  BY DEF GotText
<1>4. CanRead(f) => f # Absent
  BY DEF CanRead, IdfCanRead, ArduinoCanRead
<1>5. QED
  BY <1>1, <1>2, <1>3, <1>4

LEMMA Md5OutcomesType ==
  ASSUME NEW f \in DataFile, NEW m \in Md5Outcomes(f)
  PROVE  m \in Seq(Digest) /\ Len(m) <= 1
<1>1. PICK r \in ReadOutcomes(f) : m = IF r.ok THEN <<Md5(r.text)>> ELSE <<>>
  BY DEF Md5Outcomes
<1>2. CASE r.ok
  <2>1. f \in Seq(DataPiece) /\ r.text = f
    BY <1>2, ReadOutcomesType DEF NotRead, DataFile
  <2>2. QED
    BY <1>1, <1>2, <2>1, PieceTypes
<1>3. CASE ~r.ok
  BY <1>1, <1>3
<1>4. QED
  BY <1>2, <1>3

-----------------------------------------------------------------------------
(* Every step keeps IInv.  How a call ends, or goes on, comes first.       *)

\* A call that returns leaves files of the right type behind.
LEMMA ReturnKeeps ==
  ASSUME IInv, NEW kind \in {"true", "false"}, Return(kind),
         data' \in [Names -> DataFile], sum' \in [Names -> DigestFile], missed' \in SUBSET Names
  PROVE  IInv'
<1>1. TypeOK'
  <2>1. answer' \in Answers
    BY DEF Return, Answer, Answers
  <2>2. try' \in 0 .. MaxTries /\ pc' \in Labels /\ call' \in Calls \cup {NoCall}
    BY ManipulatorAssumption DEF Return, Labels
  <2>3. todo' \in Seq(Names) /\ md5' \in Seq(Digest) /\ Len(md5') <= 1
    BY DEF Return
  <2>4. QED
    BY <2>1, <2>2, <2>3 DEF IInv, TypeOK, Return, disk
<1>2. ControlInvariant'
  BY DEF ControlInvariant, Return, LoopLabels, RemoveLabels
<1>3. QED
  BY <1>1, <1>2 DEF IInv

\* A failed turn is repeated, from openMain, or is the last one.
LEMMA NextTryKeeps ==
  ASSUME IInv, pc \in LoopLabels, NextTry,
         data' \in [Names -> DataFile], sum' \in [Names -> DigestFile], missed' \in SUBSET Names
  PROVE  IInv'
<1>1. CASE Return("false")
  BY <1>1, ReturnKeeps
<1>2. CASE try < MaxTries /\ try' = try + 1 /\ md5' = <<>> /\ Goto("openMain")
  <2>1. TypeOK'
    BY <1>2, ManipulatorAssumption DEF IInv, TypeOK, Goto, disk, Labels
  <2>2. ControlInvariant'
    BY <1>2, ManipulatorAssumption DEF IInv, TypeOK, ControlInvariant, Goto, disk, LoopLabels,
       RemoveLabels
  <2>3. QED
    BY <2>1, <2>2 DEF IInv
<1>3. QED
  BY <1>1, <1>2 DEF NextTry

\* A turn goes on at a label of the loop.
LEMMA GotoKeepsType ==
  ASSUME IInv, NEW label \in Labels, Goto(label), UNCHANGED try,
         md5' \in Seq(Digest), Len(md5') <= 1,
         data' \in [Names -> DataFile], sum' \in [Names -> DigestFile], missed' \in SUBSET Names
  PROVE  TypeOK'
BY DEF IInv, TypeOK, Goto, disk

\* The call in progress in the loop.
LEMMA WriteCallType ==
  ASSUME IInv, pc \in LoopLabels
  PROVE  /\ call \in WriteCalls
         /\ call.name \in Names
         /\ call.text \in Texts
         /\ call.kind \in {"save", "append"}
BY DEF IInv, ControlInvariant, WriteCalls

\* What fopen leaves of an existing or missing file is a file.
LEMMA OpenedType ==
  ASSUME NEW P, Absent \notin Seq(P), NEW f \in Seq(P) \cup {Absent}, NEW flag
  PROVE  Opened(f, flag) \in Seq(P)
<1>1. <<>> \in Seq(P)
  OBVIOUS
<1>2. QED
  BY <1>1 DEF Opened

LEMMA OpenMainKeeps ==
  ASSUME IInv, OpenMain
  PROVE  IInv'
<1>1. pc = "openMain" /\ pc \in LoopLabels /\ call.name \in Names
  BY WriteCallType DEF OpenMain, LoopLabels
<1>2. /\ data \in [Names -> DataFile] /\ sum \in [Names -> DigestFile]
      /\ missed' \in SUBSET Names
  BY DEF IInv, TypeOK, OpenMain
<1>3. CASE NextTry /\ UNCHANGED files
  BY <1>1, <1>2, <1>3, NextTryKeeps DEF files
<1>4. CASE /\ CanOpen(call.name)
           /\ data' = [data EXCEPT ![call.name] = Opened(@, IF call.kind = "append" THEN "a" ELSE "w")]
           /\ Goto("writeMain")
           /\ UNCHANGED <<sum, try, md5>>
  <2>1. \A flag : Opened(data[call.name], flag) \in DataFile \ {Absent}
    BY <1>1, <1>2, ContentAssumption, OpenedType DEF DataFile
  <2>2. data' \in [Names -> DataFile] /\ data'[call.name] # Absent
    BY <1>1, <1>2, <1>4, <2>1
  <2>3. TypeOK'
    BY <1>2, <1>4, <2>2, GotoKeepsType DEF IInv, TypeOK, Labels
  <2>4. call' = call /\ pc' = "writeMain" /\ mounted /\ UNCHANGED <<mode, mounted, try, answer>>
    BY <1>4 DEF Goto, disk, CanOpen
  <2>5. ControlInvariant'
    BY <1>1, <1>4, <2>2, <2>4 DEF IInv, ControlInvariant, LoopLabels, RemoveLabels, CanOpen
  <2>6. QED
    BY <2>3, <2>5 DEF IInv
<1>5. QED
  BY <1>3, <1>4 DEF OpenMain

LEMMA WriteMainKeeps ==
  ASSUME IInv, WriteMain
  PROVE  IInv'
<1>1. pc = "writeMain" /\ pc \in LoopLabels /\ call.name \in Names /\ call.text \in Texts
  BY WriteCallType DEF WriteMain, LoopLabels
<1>2. /\ data \in [Names -> DataFile] /\ sum \in [Names -> DigestFile] /\ sum' = sum
      /\ missed' \in SUBSET Names
  BY DEF IInv, TypeOK, WriteMain
<1>3. PICK o \in WriteOutcomes(data[call.name], Printed(call.text)) :
        /\ data' = [data EXCEPT ![call.name] = o.file]
        /\ \/ o.ok /\ mode = "NORMAL" /\ Return("true")
           \/ o.ok /\ mode = "MD5" /\ Goto("hashMain") /\ UNCHANGED <<try, md5>>
           \/ ~o.ok /\ NextTry
  BY DEF WriteMain
<1>4. data[call.name] \in Seq(DataPiece)
  BY <1>1, <1>2 DEF IInv, ControlInvariant, LoopLabels, DataFile
<1>5. o.file \in Seq(DataPiece)
  BY <1>1, <1>4, PrintedType, PieceTypes, WriteOutcomesType
<1>6. data' \in [Names -> DataFile] /\ data'[call.name] # Absent
  BY <1>1, <1>2, <1>3, <1>5, ContentAssumption DEF DataFile
<1>7. CASE Return("true")
  BY <1>2, <1>6, <1>7, ReturnKeeps
<1>8. CASE NextTry
  BY <1>1, <1>2, <1>6, <1>8, NextTryKeeps
<1>9. CASE mode = "MD5" /\ Goto("hashMain") /\ UNCHANGED <<try, md5>>
  <2>1. TypeOK'
    BY <1>2, <1>6, <1>9, GotoKeepsType DEF IInv, TypeOK, Labels
  <2>2. ControlInvariant'
    BY <1>1, <1>6, <1>9 DEF IInv, ControlInvariant, Goto, disk, LoopLabels, RemoveLabels
  <2>3. QED
    BY <2>1, <2>2 DEF IInv
<1>10. QED
  BY <1>3, <1>7, <1>8, <1>9

LEMMA HashMainKeeps ==
  ASSUME IInv, HashMain
  PROVE  IInv'
<1>1. pc = "hashMain" /\ pc \in LoopLabels /\ call.name \in Names
  BY WriteCallType DEF HashMain, LoopLabels
<1>2. /\ data \in [Names -> DataFile] /\ sum \in [Names -> DigestFile]
      /\ data' = data /\ sum' = sum /\ missed' \in SUBSET Names
  BY DEF IInv, TypeOK, HashMain, files
<1>3. View(data, call.name) \in DataFile
  BY <1>1, <1>2 DEF View, DataFile
<1>4. md5' \in Seq(Digest) /\ Len(md5') <= 1
  BY <1>3, Md5OutcomesType DEF HashMain
<1>5. Goto("openMd5") /\ UNCHANGED try
  BY DEF HashMain
<1>6. TypeOK'
  BY <1>2, <1>4, <1>5, GotoKeepsType DEF Labels
<1>7. ControlInvariant'
  BY <1>1, <1>2, <1>5 DEF IInv, ControlInvariant, Goto, disk, LoopLabels, RemoveLabels
<1>8. QED
  BY <1>6, <1>7 DEF IInv

LEMMA OpenMd5Keeps ==
  ASSUME IInv, OpenMd5
  PROVE  IInv'
<1>1. pc = "openMd5" /\ pc \in LoopLabels /\ call.name \in Names
  BY WriteCallType DEF OpenMd5, LoopLabels
<1>2. /\ data \in [Names -> DataFile] /\ sum \in [Names -> DigestFile]
      /\ missed' \in SUBSET Names
  BY DEF IInv, TypeOK, OpenMd5
<1>3. CASE NextTry /\ UNCHANGED files
  BY <1>1, <1>2, <1>3, NextTryKeeps DEF files
<1>4. CASE /\ sum' = [sum EXCEPT ![call.name] = Opened(@, "w")]
           /\ Goto("writeMd5")
           /\ UNCHANGED <<data, try, md5>>
  <2>1. Opened(sum[call.name], "w") \in DigestFile \ {Absent}
    BY <1>1, <1>2, ContentAssumption, OpenedType DEF DigestFile
  <2>2. sum' \in [Names -> DigestFile] /\ sum'[call.name] # Absent
    BY <1>1, <1>2, <1>4, <2>1
  <2>3. TypeOK'
    BY <1>2, <1>4, <2>2, GotoKeepsType DEF IInv, TypeOK, Labels
  <2>4. ControlInvariant'
    BY <1>1, <1>4, <2>2 DEF IInv, ControlInvariant, Goto, disk, LoopLabels, RemoveLabels
  <2>5. QED
    BY <2>3, <2>4 DEF IInv
<1>5. QED
  BY <1>3, <1>4 DEF OpenMd5

LEMMA WriteMd5Keeps ==
  ASSUME IInv, WriteMd5
  PROVE  IInv'
<1>1. pc = "writeMd5" /\ pc \in LoopLabels /\ call.name \in Names
  BY WriteCallType DEF WriteMd5, LoopLabels
<1>2. /\ data \in [Names -> DataFile] /\ sum \in [Names -> DigestFile] /\ data' = data
      /\ md5 \in Seq(Digest) /\ missed' \in SUBSET Names
  BY DEF IInv, TypeOK, WriteMd5
<1>3. PICK o \in WriteOutcomes(sum[call.name], md5) :
        /\ sum' = [sum EXCEPT ![call.name] = o.file]
        /\ \/ o.ok /\ Goto("verifyMd5") /\ UNCHANGED <<try, md5>>
           \/ ~o.ok /\ NextTry
  BY DEF WriteMd5
<1>4. sum[call.name] \in Seq(DigestPiece)
  BY <1>1, <1>2 DEF IInv, ControlInvariant, DigestFile
<1>5. o.file \in Seq(DigestPiece)
  BY <1>2, <1>4, PieceTypes, WriteOutcomesType
<1>6. sum' \in [Names -> DigestFile] /\ sum'[call.name] # Absent
  BY <1>1, <1>2, <1>3, <1>5, ContentAssumption DEF DigestFile
<1>7. CASE NextTry
  BY <1>1, <1>2, <1>6, <1>7, NextTryKeeps
<1>8. CASE Goto("verifyMd5") /\ UNCHANGED <<try, md5>>
  <2>1. TypeOK'
    BY <1>2, <1>6, <1>8, GotoKeepsType DEF IInv, TypeOK, Labels
  <2>2. ControlInvariant'
    BY <1>1, <1>2, <1>6, <1>8 DEF IInv, ControlInvariant, Goto, disk, LoopLabels, RemoveLabels
  <2>3. QED
    BY <2>1, <2>2 DEF IInv
<1>9. QED
  BY <1>3, <1>7, <1>8

LEMMA VerifyMd5Keeps ==
  ASSUME IInv, VerifyMd5
  PROVE  IInv'
<1>1. pc \in LoopLabels
  BY DEF VerifyMd5, LoopLabels
<1>2. data' \in [Names -> DataFile] /\ sum' \in [Names -> DigestFile] /\ missed' \in SUBSET Names
  BY DEF IInv, TypeOK, VerifyMd5, files
<1>3. Return("true") \/ NextTry
  BY DEF VerifyMd5
<1>4. QED
  BY <1>1, <1>2, <1>3, ReturnKeeps, NextTryKeeps

-----------------------------------------------------------------------------
(* Deleting.                                                               *)

\* Removing a file leaves it as it was, or absent.
LEMMA RemovalsType ==
  ASSUME NEW file, NEW n, NEW o \in Removals(file, n)
  PROVE  o.file \in {file[n], Absent}
<1>1. \E b, m \in BOOLEAN : o \in {Removal(file[n], b, m), Removal(Absent, b, m)}
  BY DEF Removals, RemoveOutcomes
<1>2. QED
  BY <1>1 DEF Removal

\* A turn of the loop of deleteAllFiles.
LEMMA NextRemovalKeeps ==
  ASSUME IInv, pc \in RemoveLabels, NextRemoval,
         data' \in [Names -> DataFile], sum' \in [Names -> DigestFile], missed' \in SUBSET Names
  PROVE  IInv'
<1>1. CASE Return("true")
  BY <1>1, ReturnKeeps
<1>2. CASE /\ Tail(todo) # <<>>
           /\ todo' = Tail(todo)
           /\ pc' = "removeMain"
           /\ UNCHANGED <<mode, disk, call, try, md5, answer, calls>>
  <2>1. todo' \in Seq(Names) /\ todo' # <<>>
    <3>1. todo \in Seq(Names) /\ todo # <<>>
      BY DEF IInv, TypeOK, ControlInvariant
    <3>2. QED
      BY <1>2, <3>1, HeadTailProperties
  <2>2. TypeOK'
    BY <1>2, <2>1 DEF IInv, TypeOK, disk, Labels
  <2>3. ControlInvariant'
    BY <1>2, <2>1 DEF IInv, ControlInvariant, LoopLabels, RemoveLabels
  <2>4. QED
    BY <2>2, <2>3 DEF IInv
<1>3. QED
  BY <1>1, <1>2 DEF NextRemoval

LEMMA RemoveMainKeeps ==
  ASSUME IInv, RemoveMain
  PROVE  IInv'
<1>1. pc = "removeMain" /\ pc \in RemoveLabels
  BY DEF RemoveMain, RemoveLabels
<1>2. /\ data \in [Names -> DataFile] /\ sum' \in [Names -> DigestFile] /\ sum' = sum
      /\ Head(todo) \in Names /\ missed \in SUBSET Names
  BY <1>1 DEF IInv, TypeOK, RemoveMain, ControlInvariant
<1>3. PICK o \in Removals(data, Head(todo)) :
        /\ data' = [data EXCEPT ![Head(todo)] = o.file]
        /\ missed' = IF o.missed THEN missed \cup {Head(todo)} ELSE missed
        /\ \/ o.ok /\ mode = "MD5" /\ Goto("removeMd5") /\ UNCHANGED <<try, md5>>
           \/ o.ok /\ mode = "NORMAL" /\ NextRemoval
           \/ ~o.ok /\ Return("false")
  BY DEF RemoveMain
<1>4. data' \in [Names -> DataFile] /\ missed' \in SUBSET Names
  BY <1>2, <1>3, RemovalsType DEF DataFile
<1>5. CASE NextRemoval
  BY <1>1, <1>2, <1>4, <1>5, NextRemovalKeeps
<1>6. CASE Return("false")
  BY <1>2, <1>4, <1>6, ReturnKeeps
<1>7. CASE mode = "MD5" /\ Goto("removeMd5") /\ UNCHANGED <<try, md5>>
  <2>1. TypeOK'
    BY <1>2, <1>4, <1>7, GotoKeepsType DEF IInv, TypeOK, Labels
  <2>2. ControlInvariant'
    BY <1>1, <1>7 DEF IInv, ControlInvariant, Goto, disk, LoopLabels, RemoveLabels
  <2>3. QED
    BY <2>1, <2>2 DEF IInv
<1>8. QED
  BY <1>3, <1>5, <1>6, <1>7

LEMMA RemoveMd5Keeps ==
  ASSUME IInv, RemoveMd5
  PROVE  IInv'
<1>1. pc \in RemoveLabels
  BY DEF RemoveMd5, RemoveLabels
<1>2. /\ sum \in [Names -> DigestFile] /\ data' \in [Names -> DataFile]
      /\ Head(todo) \in Names /\ missed \in SUBSET Names
  BY <1>1 DEF IInv, TypeOK, RemoveMd5, ControlInvariant
<1>3. PICK o \in Removals(sum, Head(todo)) :
        /\ sum' = [sum EXCEPT ![Head(todo)] = o.file]
        /\ missed' = IF o.missed THEN missed ELSE missed \ {Head(todo)}
        /\ NextRemoval \/ Return("false")
  BY DEF RemoveMd5
<1>4. sum' \in [Names -> DigestFile] /\ missed' \in SUBSET Names
  BY <1>2, <1>3, RemovalsType DEF DigestFile
<1>5. QED
  BY <1>1, <1>2, <1>3, <1>4, NextRemovalKeeps, ReturnKeeps

-----------------------------------------------------------------------------
(* Requests, boot and restart.                                             *)

\* An order of a finite, non-empty set of names is a non-empty sequence.
LEMMA OrdersType ==
  ASSUME NEW S \in SUBSET Names, S # {}, NEW s \in Orders(S)
  PROVE  s \in Seq(Names) /\ s # <<>>
<1>1. IsFiniteSet(S) /\ Cardinality(S) \in Nat /\ Cardinality(S) # 0
  BY ManipulatorAssumption, FS_Subset, FS_CardinalityType, FS_EmptySet
<1>2. s \in [1 .. Cardinality(S) -> S]
  BY DEF Orders
<1>3. s \in Seq(S) /\ Len(s) = Cardinality(S)
  BY <1>1, <1>2
<1>4. QED
  BY <1>1, <1>3, SeqMonotonic

\* An accepted call starts at its first driver call.
LEMMA WriteKeeps ==
  ASSUME IInv, NEW kind \in {"save", "append"}, NEW n \in Names, NEW t \in Texts,
         Write(kind, n, t)
  PROVE  IInv'
<1>1. Store(n) \in Seq(DataPiece) \cup {Unreadable}
  BY DEF IInv, TypeOK, Store, DataFile, CanRead, IdfCanRead, ArduinoCanRead
<1>2. call' \in WriteCalls
  BY <1>1 DEF Write, Accept, WriteCalls
<1>3. answer' = Answer("pending") /\ answer' \in Answers
  BY DEF Write, Accept, Answer, Answers
<1>4. /\ pc' = "openMain" /\ try' = 1 /\ calls < MaxCalls /\ calls' = calls + 1
      /\ UNCHANGED <<mode, data, sum, mounted, ready, md5, todo>> /\ missed' = {}
      /\ mode # "MD5_BACKUP"
  BY DEF Write, Accept, files, disk
<1>5. TypeOK'
  BY <1>2, <1>3, <1>4, ManipulatorAssumption DEF IInv, TypeOK, Labels, Calls
<1>6. ControlInvariant'
  BY <1>2, <1>3, <1>4, ManipulatorAssumption DEF IInv, TypeOK, ControlInvariant, LoopLabels,
     RemoveLabels
<1>7. QED
  BY <1>5, <1>6 DEF IInv

LEMMA AnswerAtOnceKeeps ==
  ASSUME IInv, NEW a \in Answers, AnswerAtOnce(a)
  PROVE  IInv'
BY DEF IInv, TypeOK, ControlInvariant, AnswerAtOnce, files, disk, LoopLabels, RemoveLabels

LEMMA DeleteKeeps ==
  ASSUME IInv, NEW n \in Names, DeleteFile(n)
  PROVE  IInv'
<1>1. CASE AnswerAtOnce(Answer("true"))
  <2>1. Answer("true") \in Answers
    BY DEF Answer, Answers
  <2>2. QED
    BY <1>1, <2>1, AnswerAtOnceKeeps
<1>2. CASE /\ mode # "MD5_BACKUP"
           /\ Accept([kind |-> "delete", name |-> n], "removeMain")
           /\ todo' = <<n>>
           /\ UNCHANGED <<mode, files, disk, try, md5>>
  <2>1. todo' \in Seq(Names) /\ todo' # <<>> /\ call' \in RemoveCalls
    BY <1>2 DEF Accept, RemoveCalls
  <2>2. answer' = Answer("pending") /\ answer' \in Answers
    BY <1>2 DEF Accept, Answer, Answers
  <2>3. /\ pc' = "removeMain" /\ calls < MaxCalls /\ calls' = calls + 1 /\ missed' = {}
        /\ UNCHANGED <<mode, data, sum, mounted, ready, try, md5>>
    BY <1>2 DEF Accept, files, disk
  <2>4. TypeOK'
    BY <2>1, <2>2, <2>3, ManipulatorAssumption DEF IInv, TypeOK, Labels, Calls
  <2>5. ControlInvariant'
    BY <1>2, <2>1, <2>2, <2>3, ManipulatorAssumption DEF IInv, TypeOK, ControlInvariant,
       LoopLabels, RemoveLabels
  <2>6. QED
    BY <2>4, <2>5 DEF IInv
<1>3. QED
  BY <1>1, <1>2 DEF DeleteFile

LEMMA DeleteAllKeeps ==
  ASSUME IInv, DeleteAllFiles
  PROVE  IInv'
<1>1. call' = [kind |-> "deleteAll"] /\ call' \in RemoveCalls
  BY DEF DeleteAllFiles, Accept, RemoveCalls
<1>2. answer' = Answer("pending") /\ answer' \in Answers
  BY DEF DeleteAllFiles, Accept, Answer, Answers
<1>3. /\ pc' = "listFiles" /\ calls < MaxCalls /\ calls' = calls + 1 /\ missed' = {}
      /\ UNCHANGED <<mode, data, sum, mounted, ready, try, md5, todo>>
  BY DEF DeleteAllFiles, Accept, files, disk
<1>4. TypeOK'
  BY <1>1, <1>2, <1>3, ManipulatorAssumption DEF IInv, TypeOK, Labels, Calls
<1>5. ControlInvariant'
  BY <1>1, <1>2, <1>3 DEF ControlInvariant, LoopLabels, RemoveLabels
<1>6. QED
  BY <1>4, <1>5 DEF IInv

\* The list of files is a set of names, and empty in MODE_USE_MD5_AND_BACKUP.
LEMMA ListsType ==
  ASSUME IInv, NEW S \in DataFilesLists
  PROVE  S \subseteq DataFiles /\ S \in SUBSET Names /\ (S # {} => mode \in {"NORMAL", "MD5"})
BY DEF DataFilesLists, DataFiles

LEMMA ListFilesKeeps ==
  ASSUME IInv, ListFiles
  PROVE  IInv'
<1>1. pc = "listFiles" /\ call = [kind |-> "deleteAll"] /\ answer = Answer("pending")
  BY DEF ListFiles, IInv, ControlInvariant
<1>2. data' \in [Names -> DataFile] /\ sum' \in [Names -> DigestFile]
  BY DEF IInv, TypeOK, ListFiles, files
<1>3. PICK S \in DataFilesLists :
        /\ missed' = DataFiles \ S
        /\ \/ S = {} /\ Return("true")
           \/ /\ S # {}
              /\ todo' \in Orders(S)
              /\ pc' = "removeMain"
              /\ UNCHANGED <<mode, disk, call, try, md5, answer, calls>>
  BY DEF ListFiles
<1>4. missed' \in SUBSET Names
  BY <1>3 DEF DataFiles
<1>5. CASE Return("true")
  BY <1>2, <1>4, <1>5, ReturnKeeps
<1>6. CASE /\ S # {}
           /\ todo' \in Orders(S)
           /\ pc' = "removeMain"
           /\ UNCHANGED <<mode, disk, call, try, md5, answer, calls>>
  <2>1. todo' \in Seq(Names) /\ todo' # <<>> /\ mode \in {"NORMAL", "MD5"}
    BY <1>6, ListsType, OrdersType
  <2>2. call \in RemoveCalls
    BY <1>1 DEF RemoveCalls
  <2>3. TypeOK'
    BY <1>2, <1>4, <1>6, <2>1 DEF IInv, TypeOK, disk, Labels
  <2>4. ControlInvariant'
    BY <1>1, <1>6, <2>1, <2>2 DEF ControlInvariant, LoopLabels, RemoveLabels
  <2>5. QED
    BY <2>3, <2>4 DEF IInv
<1>7. QED
  BY <1>3, <1>5, <1>6

LEMMA LoadKeeps ==
  ASSUME IInv, NEW n \in Names, LoadContentFromFile(n)
  PROVE  IInv'
<1>1. Answer("false") \in Answers
  BY DEF Answer, Answers
<1>2. View(data, n) \in DataFile
  BY DEF IInv, TypeOK, View, DataFile
<1>3. \A r \in ReadOutcomes(View(data, n)) : r.ok => Loaded(r.text) \in Answers
  <2> SUFFICES ASSUME NEW r \in ReadOutcomes(View(data, n)), r.ok
                 PROVE  Loaded(r.text) \in Answers
    OBVIOUS
  <2>2. r.text \in Seq(DataPiece)
    BY <1>2, ReadOutcomesType DEF DataFile, CanRead, IdfCanRead, ArduinoCanRead
  <2>3. QED
    BY <2>2 DEF Loaded, Answers
<1>4. PICK a : AnswerAtOnce(a) /\ a \in LoadInNormalMode(n) \cup LoadInMd5Mode(n) \cup {Answer("false")}
  BY DEF LoadContentFromFile
<1>5. a \in Answers
  BY <1>1, <1>3, <1>4 DEF LoadInNormalMode, LoadInMd5Mode
<1>6. QED
  BY <1>4, <1>5, AnswerAtOnceKeeps

LEMMA BootKeeps ==
  ASSUME IInv, Boot
  PROVE  IInv'
<1>1. /\ \/ UNCHANGED files
         \/ Formatted
      /\ mounted' \in BOOLEAN /\ ready' \in BOOLEAN
  BY DEF Boot, IdfInitialize, ArduinoInitialize, Mount
<1>2. data' \in [Names -> DataFile] /\ sum' \in [Names -> DigestFile]
  BY <1>1 DEF IInv, TypeOK, files, Formatted, DataFile, DigestFile
<1>3. TypeOK'
  BY <1>1, <1>2 DEF IInv, TypeOK, Boot, Labels
<1>4. ControlInvariant'
  BY DEF IInv, ControlInvariant, Boot, LoopLabels, RemoveLabels
<1>5. QED
  BY <1>3, <1>4 DEF IInv

LEMMA FormatKeeps ==
  ASSUME IInv, Format
  PROVE  IInv'
<1>1. /\ Formatted \/ UNCHANGED files
      /\ mounted' \in BOOLEAN
      /\ answer' \in {Answer("true"), Answer("false")}
  BY DEF Format, IInv, TypeOK
<1>2. data' \in [Names -> DataFile] /\ sum' \in [Names -> DigestFile]
  BY <1>1 DEF IInv, TypeOK, files, Formatted, DataFile, DigestFile
<1>3. answer' \in Answers
  BY <1>1 DEF Answer, Answers
<1>4. TypeOK'
  BY <1>1, <1>2, <1>3 DEF IInv, TypeOK, Format
<1>5. ControlInvariant'
  BY DEF IInv, ControlInvariant, Format, LoopLabels, RemoveLabels
<1>6. QED
  BY <1>4, <1>5 DEF IInv

LEMMA ResetKeeps ==
  ASSUME IInv, Reset
  PROVE  IInv'
<1>1. data \in [Names -> DataFile] /\ sum \in [Names -> DigestFile]
  BY DEF IInv, TypeOK
<1>2. data' \in [Names -> DataFile] /\ sum' \in [Names -> DigestFile]
  <2>1. CASE UNCHANGED files
    BY <1>1, <2>1 DEF files
  <2>2. CASE /\ pc = "writeMain"
             /\ \E s \in CutOff(data[call.name], Printed(call.text)) :
                  data' = [data EXCEPT ![call.name] = s]
             /\ UNCHANGED sum
    <3>1. pc \in LoopLabels
      BY <2>2 DEF LoopLabels
    <3>2. data[call.name] \in Seq(DataPiece) /\ call.text \in Texts
      BY <1>1, <2>2, <3>1, WriteCallType DEF IInv, ControlInvariant, LoopLabels, DataFile
    <3>3. \A s \in CutOff(data[call.name], Printed(call.text)) : s \in Seq(DataPiece)
      BY <3>2, PrintedType, PieceTypes, CutOffType
    <3>4. QED
      BY <1>1, <2>2, <3>3 DEF DataFile
  <2>3. CASE /\ pc = "writeMd5"
             /\ \E s \in CutOff(sum[call.name], md5) : sum' = [sum EXCEPT ![call.name] = s]
             /\ UNCHANGED data
    <3>1. pc \in LoopLabels
      BY <2>3 DEF LoopLabels
    <3>2. sum[call.name] \in Seq(DigestPiece) /\ md5 \in Seq(Digest)
      BY <1>1, <2>3, <3>1, WriteCallType DEF IInv, TypeOK, ControlInvariant, DigestFile
    <3>3. \A s \in CutOff(sum[call.name], md5) : s \in Seq(DigestPiece)
      BY <3>2, PieceTypes, CutOffType
    <3>4. QED
      BY <1>1, <2>3, <3>3 DEF DigestFile
  <2>4. QED
    BY <2>1, <2>2, <2>3 DEF Reset
<1>3. /\ mounted' = FALSE /\ ready' = FALSE /\ pc' = "boot" /\ call' = NoCall
      /\ try' = 0 /\ md5' = <<>> /\ todo' = <<>> /\ missed' = {} /\ answer' = Answer("reset")
      /\ UNCHANGED <<mode, calls>>
  BY DEF Reset
<1>4. answer' \in Answers
  BY <1>3 DEF Answer, Answers
<1>5. try' \in 0 .. MaxTries /\ todo' \in Seq(Names) /\ md5' \in Seq(Digest) /\ Len(md5') <= 1
  BY <1>3, ManipulatorAssumption
<1>6. TypeOK'
  BY <1>2, <1>3, <1>4, <1>5 DEF IInv, TypeOK, Labels
<1>7. ControlInvariant'
  BY <1>3 DEF ControlInvariant, LoopLabels, RemoveLabels
<1>8. QED
  BY <1>6, <1>7 DEF IInv

-----------------------------------------------------------------------------
(* The theorems.                                                           *)

LEMMA InitIInv == Init => IInv
<1> SUFFICES ASSUME Init PROVE IInv
  OBVIOUS
<1>2. data \in [Names -> DataFile] /\ sum \in [Names -> DigestFile]
  BY DEF Init, DataFile, DigestFile
<1>3. answer \in Answers
  BY DEF Init, Answer, Answers
<1>4. try \in 0 .. MaxTries /\ calls \in 0 .. MaxCalls /\ todo \in Seq(Names)
      /\ md5 \in Seq(Digest) /\ Len(md5) <= 1
  BY ManipulatorAssumption DEF Init
<1>5. TypeOK
  BY <1>2, <1>3, <1>4 DEF Init, TypeOK, Labels
<1>6. ControlInvariant
  BY DEF Init, ControlInvariant, LoopLabels, RemoveLabels
<1>7. QED
  BY <1>5, <1>6 DEF IInv

LEMMA NextIInv == IInv /\ [Next]_vars => IInv'
<1> SUFFICES ASSUME IInv, [Next]_vars PROVE IInv'
  OBVIOUS
<1>2. CASE Step
  BY <1>2, BootKeeps, OpenMainKeeps, WriteMainKeeps, HashMainKeeps, OpenMd5Keeps, WriteMd5Keeps,
     VerifyMd5Keeps, ListFilesKeeps, RemoveMainKeeps, RemoveMd5Keeps DEF Step
<1>3. CASE Request
  <2>1. CASE \E n \in Names, t \in Texts : SaveContentToFile(n, t) \/ AppendContentToFile(n, t)
    BY <2>1, WriteKeeps DEF SaveContentToFile, AppendContentToFile
  <2>2. CASE \E n \in Names : LoadContentFromFile(n)
    BY <2>2, LoadKeeps
  <2>3. CASE (\E n \in Names : DeleteFile(n)) \/ DeleteAllFiles
    BY <2>3, DeleteKeeps, DeleteAllKeeps
  <2>4. CASE SaveInMd5BackupMode
    <3>1. Answer("false") \in Answers
      BY DEF Answer, Answers
    <3>2. QED
      BY <2>4, <3>1, AnswerAtOnceKeeps DEF SaveInMd5BackupMode
  <2>5. CASE Format
    BY <2>5, FormatKeeps
  <2>6. QED
    BY <1>3, <2>1, <2>2, <2>3, <2>4, <2>5 DEF Request
<1>4. CASE Reset
  BY <1>4, ResetKeeps
<1>5. CASE UNCHANGED vars
  BY <1>5 DEF vars, IInv, TypeOK, ControlInvariant
<1>6. QED
  BY <1>2, <1>3, <1>4, <1>5 DEF Next

\* The inductive invariant: types, and what the program counter says of the
\* call in progress (all of SafeFileManipulator.cpp and its drivers).
THEOREM ControlCorrect == Spec => []IInv
BY InitIInv, NextIInv, PTL DEF Spec

\* Every variable keeps its type whatever the drivers answer and whenever the
\* chip restarts.
THEOREM TypeCorrect == Spec => []TypeOK
<1>1. IInv => TypeOK
  BY DEF IInv
<1>2. QED
  BY <1>1, ControlCorrect, PTL

(***************************************************************************)
(* The loop of saveInNormalMode and saveInMd5Mode is correct: when it      *)
(* answers true on a trustworthy driver, the file holds what was asked     *)
(* for, and on any other driver it lacks at most the end of the text.      *)
(*                                                                         *)
(* TurnInvariant, added to IInv, is inductive: it says what a turn has     *)
(* achieved at each driver call, and what the failed turns before it have  *)
(* left behind.  LoopInvariant is what it says on a trustworthy driver.    *)
(***************************************************************************)

\* What a write that the driver accepted has made of the file.
Written(c, f) ==
  \/ CanRead(f) /\ Fulfils(c, f)
  \/ /\ MayTear
     /\ c.kind = "save" =>
          f \in {<<>>} \cup {<<Torn(Printed(c.text)[i])>> : i \in DOMAIN Printed(c.text)}

TurnInvariant ==
  /\ pc \in {"openMain", "writeMain"} => Residue(call, try, data[call.name])
  /\ pc = "writeMain" =>
       data[call.name] # Absent /\ (call.kind = "save" => data[call.name] = <<>>)
  /\ pc \in {"hashMain", "openMd5", "writeMd5", "verifyMd5"} =>
       data[call.name] # Absent /\ Written(call, data[call.name])
       /\ Residue(call, try + 1, data[call.name])
  /\ pc \in {"openMd5", "writeMd5"} =>
       \/ md5 = <<Md5(data[call.name])>>
       \/ md5 = <<>> /\ (MayMisread \/ ~CanRead(data[call.name]))
  /\ pc = "writeMd5" => sum[call.name] = <<>>
  /\ pc = "verifyMd5" =>
       /\ \/ md5 = <<Md5(data[call.name])>>
          \/ md5 = <<>> /\ MayMishash
       /\ MayTear \/ sum[call.name] = md5

LInv == IInv /\ TurnInvariant

-----------------------------------------------------------------------------
(* What a driver does.                                                     *)

LEMMA TrustedNeverTears == Trustworthy => ~MayTear
BY DEF Trustworthy, MayTear

\* A write stores everything, or leaves a torn piece or nothing.  The driver
\* accepts only a write of everything, or one that it could not notice.
LEMMA DriverWrites ==
  ASSUME NEW P, NEW W, W \subseteq P, NEW f \in Seq(P), NEW t \in Seq(W),
         NEW o \in WriteOutcomes(f, t)
  PROVE  /\ o.file = f \o t \/ o.file \in Partial(f, t)
         /\ o.ok => o.file = f \o t \/ MayTear
         /\ o.ok /\ Driver = "IDF" => t # <<>>
<1>1. \A s : Stored(s, TRUE).file = s /\ Stored(s, FALSE).file = s /\ ~Stored(s, FALSE).ok
  BY DEF Stored
<1>2. CASE Driver = "IDF"
  <2>1. \/ o = Stored(f \o t, t # <<>>)
        \/ t # <<>> /\ MayTear /\ \E s \in Partial(f, t) : o = Stored(s, TRUE)
    BY <1>2 DEF WriteOutcomes, IdfWrite, MayTear
  <2>2. CASE o = Stored(f \o t, t # <<>>)
    <3>1. o.file = f \o t /\ o.ok = (t # <<>>)
      BY <2>2 DEF Stored
    <3>2. QED
      BY <3>1
  <2>3. QED
    BY <1>1, <2>1, <2>2
<1>3. CASE Driver # "IDF"
  <2>1. \/ o = Stored(f \o t, TRUE)
        \/ \E s \in Partial(f, t) : o = Stored(s, FALSE)
        \/ MayTear /\ \E s \in Partial(f, t) : o = Stored(s, TRUE)
    BY <1>3 DEF WriteOutcomes, ArduinoWrite, MayTear
  <2>2. QED
    BY <1>1, <1>3, <2>1
<1>4. QED
  BY <1>2, <1>3

\* The digest that HashMain computes of a file that exists.
LEMMA DriverHashes ==
  ASSUME NEW f, f # Absent, NEW m \in Md5Outcomes(f)
  PROVE  m = <<Md5(f)>> \/ (m = <<>> /\ (MayMisread \/ ~CanRead(f)))
<1>1. PICK r \in ReadOutcomes(f) : m = IF r.ok THEN <<Md5(r.text)>> ELSE <<>>
  BY DEF Md5Outcomes
<1>2. r.ok => r.text = f
  BY ReadOutcomesType
<1>3. ~r.ok => ~CanRead(f) \/ MayMisread
  BY DEF ReadOutcomes, GotText
<1>4. QED
  BY <1>1, <1>2, <1>3

-----------------------------------------------------------------------------
(* What the failed turns of an append leave behind.                        *)

LEMMA Lengths ==
  ASSUME NEW l \in Nat, NEW m \in Nat, NEW k \in Nat
  PROVE  /\ l < m + k => l < m + (k + 1) /\ l + 1 < m + (k + 1)
         /\ m <= l => m <= l + 1
         /\ \A max \in Nat : k <= max /\ l < m + (k + 1) => l <= m + max
OBVIOUS

LEMMA ResidueMonotone ==
  ASSUME NEW c, NEW k \in Nat, NEW f, Residue(c, k, f), NEW S, f \in Seq(S),
         c.kind = "append" /\ c.seen # Unreadable => c.seen \in Seq(S)
  PROVE  Residue(c, k + 1, f)
<1> SUFFICES ASSUME c.kind = "append", c.seen # Unreadable
             PROVE  Residue(c, k + 1, f)
  BY DEF Residue
<1>1. Len(f) \in Nat /\ Len(c.seen) \in Nat
  BY LenProperties
<1>2. Len(f) < Len(c.seen) + k => Len(f) < Len(c.seen) + (k + 1)
  BY <1>1, Lengths, Zenon
<1>3. QED
  BY <1>2 DEF Residue

\* One more piece, whole or torn, is the residue of one more turn.
LEMMA ResidueGrows ==
  ASSUME NEW c \in WriteCalls, NEW k \in Nat, NEW f \in Seq(DataPiece), Residue(c, k, f),
         c.text # <<>>, NEW q \in {Printed(c.text)[1], Torn(Printed(c.text)[1])},
         q \in DataPiece
  PROVE  Residue(c, k + 1, Append(f, q))
<1> SUFFICES ASSUME c.kind = "append", c.seen # Unreadable
             PROVE  Residue(c, k + 1, Append(f, q))
  BY DEF Residue
<1> DEFINE g == Append(f, q)
<1>1. c.seen \in Seq(DataPiece) /\ Len(c.seen) \in Nat
  BY DEF WriteCalls
<1>2. g \in Seq(DataPiece) /\ Len(g) = Len(f) + 1 /\ Len(f) \in Nat /\ g # Absent
  BY ContentAssumption
<1>3. \A i \in 1 .. Len(f) : g[i] = f[i]
  OBVIOUS
<1>4. g[Len(f) + 1] = q
  OBVIOUS
<1>5. /\ Len(c.seen) <= Len(f) /\ Len(f) < Len(c.seen) + k
      /\ \A i \in 1 .. Len(c.seen) : f[i] = c.seen[i]
      /\ \A i \in Len(c.seen) + 1 .. Len(f) :
           f[i] \in {Printed(c.text)[1], Torn(Printed(c.text)[1])}
  BY DEF Residue
<1> HIDE DEF g
<1>6. Len(c.seen) <= Len(g) /\ Len(g) < Len(c.seen) + (k + 1)
  BY <1>1, <1>2, <1>5, Lengths, Zenon
<1>7. \A i \in 1 .. Len(c.seen) : g[i] = c.seen[i]
  BY <1>1, <1>2, <1>3, <1>5
<1>8. \A i \in Len(c.seen) + 1 .. Len(g) : g[i] \in {Printed(c.text)[1], Torn(Printed(c.text)[1])}
  <2>1. SUFFICES ASSUME NEW i \in Len(c.seen) + 1 .. Len(g)
                 PROVE  g[i] \in {Printed(c.text)[1], Torn(Printed(c.text)[1])}
    OBVIOUS
  <2>2. CASE i = Len(f) + 1
    BY <1>4, <2>2
  <2>3. CASE i # Len(f) + 1
    <3>1. i \in Len(c.seen) + 1 .. Len(f) /\ i \in 1 .. Len(f)
      BY <1>1, <1>2, <2>1, <2>3
    <3>2. QED
      BY <1>3, <1>5, <3>1
  <2>4. QED
    BY <2>2, <2>3
<1>9. Residue(c, k + 1, g)
  BY <1>2, <1>6, <1>7, <1>8 DEF Residue
<1>10. QED
  BY <1>9 DEF g

\* What the write of a turn achieves.
LEMMA TurnWrites ==
  ASSUME NEW c \in WriteCalls, NEW k \in 1 .. MaxTries,
         NEW f \in Seq(DataPiece), Residue(c, k, f), c.kind = "save" => f = <<>>,
         NEW o \in WriteOutcomes(f, Printed(c.text))
  PROVE  /\ Residue(c, k + 1, o.file) /\ o.file # Absent
         /\ o.ok => Written(c, o.file)
<1> DEFINE t == Printed(c.text)
<1>1. c.text \in Texts /\ (c.seen # Unreadable => c.seen \in Seq(DataPiece))
      /\ c.kind \in {"save", "append"}
  BY DEF WriteCalls
<1>2. /\ t \in Seq(WholePiece)
      /\ t = <<>> <=> c.text = <<>>
      /\ t # <<>> => Len(t) = 1
  BY <1>1, PrintedType
<1>3. WholePiece \subseteq DataPiece /\ \A w \in WholePiece : Torn(w) \in DataPiece
  BY PieceTypes
<1>4. /\ o.file = f \o t \/ o.file \in Partial(f, t)
      /\ o.ok => o.file = f \o t \/ MayTear
      /\ o.ok /\ Driver = "IDF" => t # <<>>
  BY <1>2, <1>3, DriverWrites
<1>5. Residue(c, k + 1, f)
  BY <1>1, ResidueMonotone, ManipulatorAssumption
<1>6. t # <<>> => /\ t[1] \in WholePiece /\ DOMAIN t = {1}
                  /\ f \o t = Append(f, t[1])
                  /\ Residue(c, k + 1, f \o t)
                  /\ Residue(c, k + 1, Append(f, Torn(t[1])))
  <2> SUFFICES ASSUME t # <<>>
               PROVE  /\ t[1] \in WholePiece /\ DOMAIN t = {1}
                      /\ f \o t = Append(f, t[1])
                      /\ Residue(c, k + 1, f \o t)
                      /\ Residue(c, k + 1, Append(f, Torn(t[1])))
    OBVIOUS
  <2>1. t[1] \in WholePiece /\ DOMAIN t = {1}
    BY <1>2
  <2>2. t = <<t[1]>>
    BY <1>2
  <2>3. f \o <<t[1]>> = Append(f, t[1])
    BY <1>3, <2>1, AppendIsConcat
  <2>4. c.text # <<>> /\ k \in Nat /\ t[1] \in DataPiece /\ Torn(t[1]) \in DataPiece
    BY <1>2, <1>3, <2>1, ManipulatorAssumption
  <2>5. Residue(c, k + 1, Append(f, t[1])) /\ Residue(c, k + 1, Append(f, Torn(t[1])))
    BY <2>4, ResidueGrows
  <2>6. QED
    BY <2>1, <2>2, <2>3, <2>5
<1>7. t = <<>> => f \o t = f
  BY ConcatEmptySeq
<1>8. Residue(c, k + 1, o.file)
  <2>1. CASE o.file = f \o t
    BY <1>5, <1>6, <1>7, <2>1
  <2>2. CASE o.file \in Partial(f, t)
    <3>1. DOMAIN <<>> = {}
      OBVIOUS
    <3>2. o.file = f \/ \E i \in DOMAIN t : o.file = Append(f, Torn(t[i]))
      BY <2>2 DEF Partial
    <3>3. o.file = f \/ (t # <<>> /\ o.file = Append(f, Torn(t[1])))
      BY <1>6, <3>1, <3>2
    <3>4. QED
      BY <1>5, <1>6, <3>3
  <2>3. QED
    BY <1>4, <2>1, <2>2
<1>9. ASSUME o.ok, o.file = f \o t PROVE CanRead(o.file) /\ Fulfils(c, o.file)
  <2>1. o.file = f \o t /\ o.file \in Seq(DataPiece)
    BY <1>2, <1>3, <1>9, SeqMonotonic, ConcatProperties
  <2>2. t # <<>> => o.file # <<>> /\ o.file[Len(o.file)] = t[1]
    BY <1>6, <2>1
  <2>3. CanRead(o.file)
    BY <1>4, <1>9, <2>1, <2>2, ContentAssumption DEF CanRead, IdfCanRead, ArduinoCanRead
  <2>4. CASE c.kind = "save"
    <3>1. <<>> \o t = t
      BY <1>2, ConcatEmptySeq
    <3>2. QED
      BY <2>1, <2>3, <2>4, <3>1, Zenon DEF Fulfils
  <2>5. CASE c.kind = "append"
    <3>1. o.file # Unreadable
      BY <2>1, ManipulatorAssumption
    <3>2. Extends(c.seen, t, o.file)
      <4>1. CASE c.seen = Unreadable
        BY <2>2, <4>1 DEF Extends
      <4>2. CASE c.seen # Unreadable
        <5>1. Len(c.seen) \in Nat /\ Len(o.file) \in Nat /\ k \in Nat /\ k <= MaxTries
              /\ MaxTries \in Nat
          BY <1>1, <2>1, <4>2, ManipulatorAssumption
        <5>2. /\ Len(c.seen) <= Len(o.file) /\ Len(o.file) < Len(c.seen) + (k + 1)
              /\ \A i \in 1 .. Len(c.seen) : o.file[i] = c.seen[i]
              /\ \A i \in Len(c.seen) + 1 .. Len(o.file) :
                   c.text # <<>> /\ o.file[i] \in {t[1], Torn(t[1])}
          BY <1>8, <2>5, <4>2 DEF Residue
        <5>3. Len(o.file) <= Len(c.seen) + MaxTries
          BY <5>1, <5>2, Lengths, Zenon
        <5>4. QED
          BY <1>2, <2>2, <5>2, <5>3 DEF Extends
      <4>3. QED
        BY <4>1, <4>2
    <3>3. QED
      BY <2>3, <2>5, <3>1, <3>2, Zenon DEF Fulfils
  <2>6. QED
    BY <1>1, <2>3, <2>4, <2>5
<1>10. ASSUME o.ok, o.file # f \o t PROVE Written(c, o.file)
  <2>1. MayTear /\ (o.file = f \/ \E i \in DOMAIN t : o.file = Append(f, Torn(t[i])))
    BY <1>4, <1>10 DEF Partial
  <2>2. \A q : Append(<<>>, q) = <<q>>
    OBVIOUS
  <2>3. QED
    BY <2>1, <2>2 DEF Written
<1>11. o.file # Absent
  BY <1>2, <1>3, WriteOutcomesType, ContentAssumption
<1>12. QED
  BY <1>8, <1>9, <1>10, <1>11 DEF Written

-----------------------------------------------------------------------------
(* The steps of the loop keep TurnInvariant.                               *)

\* Outside the loop TurnInvariant says nothing.
LEMMA OutsideLoop ==
  ASSUME pc' \notin LoopLabels
  PROVE  TurnInvariant'
BY DEF TurnInvariant, LoopLabels

\* The next turn starts with one more turn's residue.
LEMMA NextTurn ==
  ASSUME NextTry, Residue(call, try + 1, data'[call.name])
  PROVE  TurnInvariant'
<1>1. CASE Return("false")
  BY <1>1, OutsideLoop DEF Return, LoopLabels
<1>2. CASE try' = try + 1 /\ Goto("openMain")
  BY <1>2 DEF Goto, TurnInvariant
<1>3. QED
  BY <1>1, <1>2 DEF NextTry

\* The facts about the call in progress that the steps share.
LEMMA InLoop ==
  ASSUME LInv, pc \in LoopLabels
  PROVE  /\ call \in WriteCalls /\ call.name \in Names /\ call.text \in Texts
         /\ call.kind \in {"save", "append"}
         /\ try \in 1 .. MaxTries /\ try \in Nat
         /\ data \in [Names -> DataFile] /\ sum \in [Names -> DigestFile]
         /\ data[call.name] # Absent => data[call.name] \in Seq(DataPiece)
         /\ call.seen # Unreadable => call.seen \in Seq(DataPiece)
<1>1. IInv
  BY DEF LInv
<1>2. call \in WriteCalls /\ try \in 1 .. MaxTries
  BY <1>1 DEF IInv, ControlInvariant
<1>3. data \in [Names -> DataFile] /\ sum \in [Names -> DigestFile]
  BY <1>1 DEF IInv, TypeOK
<1>4. call.seen # Unreadable => call.seen \in Seq(DataPiece)
  BY <1>2 DEF WriteCalls
<1>5. QED
  BY <1>1, <1>2, <1>3, <1>4, WriteCallType, ManipulatorAssumption DEF DataFile

\* The residue of the turns so far is also that of one more turn.
LEMMA ResidueOfTurn ==
  ASSUME LInv, pc \in LoopLabels, Residue(call, try, data[call.name])
  PROVE  Residue(call, try + 1, data[call.name])
<1>1. CASE data[call.name] = Absent
  BY <1>1 DEF Residue
<1>2. CASE data[call.name] # Absent
  BY <1>2, InLoop, ResidueMonotone
<1>3. QED
  BY <1>1, <1>2

\* However many turns there were, the residue is that of the whole loop.
LEMMA ResidueOfLoop ==
  ASSUME NEW c \in WriteCalls, NEW k \in 1 .. MaxTries, NEW f \in Seq(DataPiece),
         Residue(c, k + 1, f)
  PROVE  Residue(c, MaxTries + 1, f)
<1> SUFFICES ASSUME c.kind = "append", c.seen # Unreadable
             PROVE  Residue(c, MaxTries + 1, f)
  BY DEF Residue
<1>1. Len(f) \in Nat /\ Len(c.seen) \in Nat /\ MaxTries \in Nat
  BY ManipulatorAssumption DEF WriteCalls
<1>2. Len(f) < Len(c.seen) + (k + 1) => Len(f) < Len(c.seen) + (MaxTries + 1)
  <2> DEFINE l == Len(f)  m == Len(c.seen)
  <2> HIDE DEF l, m
  <2>1. l \in Nat /\ m \in Nat
    BY <1>1 DEF l, m
  <2>2. l < m + (k + 1) => l < m + (MaxTries + 1)
    BY <1>1, <2>1
  <2>3. QED
    BY <2>2 DEF l, m
<1>3. QED
  BY <1>2 DEF Residue

LEMMA OpenMainLoop ==
  ASSUME LInv, OpenMain
  PROVE  TurnInvariant'
<1>1. pc = "openMain" /\ pc \in LoopLabels
  BY DEF OpenMain, LoopLabels
<1>2. Residue(call, try, data[call.name])
  BY <1>1 DEF LInv, TurnInvariant
<1>3. CASE NextTry /\ UNCHANGED files
  BY <1>1, <1>2, <1>3, ResidueOfTurn, NextTurn DEF files
<1>4. CASE /\ data' = [data EXCEPT ![call.name] =
                         Opened(@, IF call.kind = "append" THEN "a" ELSE "w")]
           /\ Goto("writeMain")
           /\ UNCHANGED <<sum, try, md5>>
  <2>1. call' = call /\ pc' = "writeMain" /\ try' = try
    BY <1>4 DEF Goto
  <2>2. data'[call.name] = Opened(data[call.name], IF call.kind = "append" THEN "a" ELSE "w")
    BY <1>1, <1>4, InLoop
  <2>3. data'[call.name] \in Seq(DataPiece)
    BY <1>1, <2>2, InLoop, OpenedType, ContentAssumption DEF DataFile
  <2>4. CASE call.kind = "append"
    <3>1. Residue(call, try, data'[call.name])
      BY <1>2, <2>2, <2>4 DEF Opened, Residue
    <3>2. QED
      BY <2>1, <2>3, <2>4, <3>1, ContentAssumption DEF TurnInvariant
  <2>5. CASE call.kind # "append"
    <3>1. data'[call.name] = <<>>
      BY <2>2, <2>5 DEF Opened
    <3>2. Residue(call, try, data'[call.name])
      BY <2>5 DEF Residue
    <3>3. QED
      BY <2>1, <2>3, <3>1, <3>2, ContentAssumption DEF TurnInvariant
  <2>6. QED
    BY <2>4, <2>5
<1>5. QED
  BY <1>3, <1>4 DEF OpenMain

\* What an accepted write leaves, when the loop ends with it.
LEMMA WrittenMayStay ==
  ASSUME NEW c \in WriteCalls, NEW k \in 1 .. MaxTries, NEW f \in Seq(DataPiece),
         Written(c, f), Residue(c, k + 1, f), NEW g,
         mode = "MD5" => g = <<Md5(f)>> \/ (MayMishash /\ g = <<>>)
  PROVE  MayLeave(c, f, g)
<1>1. Residue(c, MaxTries + 1, f)
  BY ResidueOfLoop
<1>2. QED
  BY <1>1, Zenon DEF Written, MayLeave

LEMMA WriteMainLoop ==
  ASSUME LInv, WriteMain
  PROVE  TurnInvariant'
<1>1. pc = "writeMain" /\ pc \in LoopLabels
  BY DEF WriteMain, LoopLabels
<1>2. /\ Residue(call, try, data[call.name])
      /\ data[call.name] \in Seq(DataPiece)
      /\ call.kind = "save" => data[call.name] = <<>>
  BY <1>1, InLoop DEF LInv, TurnInvariant
<1>3. PICK o \in WriteOutcomes(data[call.name], Printed(call.text)) :
        /\ data' = [data EXCEPT ![call.name] = o.file]
        /\ \/ o.ok /\ mode = "NORMAL" /\ Return("true")
           \/ o.ok /\ mode = "MD5" /\ Goto("hashMain") /\ UNCHANGED <<try, md5>>
           \/ ~o.ok /\ NextTry
  BY DEF WriteMain
<1>4. data'[call.name] = o.file
  BY <1>1, <1>3, InLoop
<1>5. /\ Residue(call, try + 1, o.file) /\ o.file # Absent
      /\ o.ok => Written(call, o.file)
  BY <1>1, <1>2, InLoop, TurnWrites
<1>6. CASE Return("true")
  BY <1>6, OutsideLoop DEF Return, LoopLabels
<1>7. CASE o.ok /\ Goto("hashMain") /\ UNCHANGED <<try, md5>>
  <2>1. call' = call /\ pc' = "hashMain" /\ try' = try
    BY <1>7 DEF Goto
  <2>2. QED
    BY <1>4, <1>5, <1>7, <2>1 DEF TurnInvariant, Written, MayTear
<1>8. CASE NextTry
  BY <1>4, <1>5, <1>8, NextTurn
<1>9. QED
  BY <1>3, <1>6, <1>7, <1>8

\* When saveInNormalMode answers true, the write of the turn was accepted.
LEMMA WriteMainReturns ==
  ASSUME LInv, WriteMain, Return("true")
  PROVE  /\ mode = "NORMAL" /\ pc \in LoopLabels
         /\ data'[call.name] \in Seq(DataPiece)
         /\ Written(call, data'[call.name]) /\ Residue(call, try + 1, data'[call.name])
<1>1. pc = "writeMain" /\ pc \in LoopLabels
  BY DEF WriteMain, LoopLabels
<1>2. /\ Residue(call, try, data[call.name])
      /\ data[call.name] \in Seq(DataPiece)
      /\ call.kind = "save" => data[call.name] = <<>>
  BY <1>1, InLoop DEF LInv, TurnInvariant
<1>3. PICK o \in WriteOutcomes(data[call.name], Printed(call.text)) :
        /\ data' = [data EXCEPT ![call.name] = o.file]
        /\ \/ o.ok /\ mode = "NORMAL" /\ Return("true")
           \/ o.ok /\ mode = "MD5" /\ Goto("hashMain") /\ UNCHANGED <<try, md5>>
           \/ ~o.ok /\ NextTry
  BY DEF WriteMain
<1>4. data'[call.name] = o.file
  BY <1>1, <1>3, InLoop
<1>5. Residue(call, try + 1, o.file) /\ (o.ok => Written(call, o.file))
  BY <1>1, <1>2, InLoop, TurnWrites
<1>6. o.ok /\ mode = "NORMAL"
  BY <1>3 DEF NextTry, Return, Goto, Answer
<1>7. o.file \in Seq(DataPiece)
  BY <1>1, <1>2, InLoop, PrintedType, PieceTypes, WriteOutcomesType
<1>8. QED
  BY <1>1, <1>4, <1>5, <1>6, <1>7

\* What TurnInvariant says after the write of the main file.
LEMMA AfterWrite ==
  ASSUME LInv, pc \in {"hashMain", "openMd5", "writeMd5", "verifyMd5"}
  PROVE  /\ pc \in LoopLabels
         /\ mounted /\ call.name \notin TooLong
         /\ data[call.name] # Absent /\ data[call.name] \in Seq(DataPiece)
         /\ Written(call, data[call.name])
         /\ Residue(call, try + 1, data[call.name])
<1>1. pc \in LoopLabels
  BY DEF LoopLabels
<1>2. data[call.name] # Absent => data[call.name] \in Seq(DataPiece)
  BY <1>1, InLoop
<1>3. QED
  BY <1>1, <1>2 DEF LInv, IInv, ControlInvariant, TurnInvariant

LEMMA HashMainLoop ==
  ASSUME LInv, HashMain
  PROVE  TurnInvariant'
<1>1. pc = "hashMain"
  BY DEF HashMain
<1>2. View(data, call.name) = data[call.name]
  BY <1>1, AfterWrite DEF View
<1>3. md5' = <<Md5(data[call.name])>> \/ (md5' = <<>> /\ (MayMisread \/ ~CanRead(data[call.name])))
  BY <1>1, <1>2, AfterWrite, DriverHashes DEF HashMain
<1>4. call' = call /\ pc' = "openMd5" /\ data' = data /\ try' = try
  BY DEF HashMain, Goto, files
<1>5. QED
  BY <1>1, <1>3, <1>4, AfterWrite DEF TurnInvariant, Written, MayTear

LEMMA OpenMd5Loop ==
  ASSUME LInv, OpenMd5
  PROVE  TurnInvariant'
<1>1. pc = "openMd5" /\ pc \in LoopLabels
  BY DEF OpenMd5, LoopLabels
<1>2. CASE NextTry /\ UNCHANGED files
  BY <1>1, <1>2, AfterWrite, NextTurn DEF files
<1>3. CASE /\ sum' = [sum EXCEPT ![call.name] = Opened(@, "w")]
           /\ Goto("writeMd5")
           /\ UNCHANGED <<data, try, md5>>
  <2>1. call' = call /\ pc' = "writeMd5"
    BY <1>3 DEF Goto
  <2>2. sum'[call.name] = <<>>
    BY <1>1, <1>3, InLoop DEF Opened
  <2>3. \/ md5 = <<Md5(data[call.name])>>
        \/ md5 = <<>> /\ (MayMisread \/ ~CanRead(data[call.name]))
    BY <1>1 DEF LInv, TurnInvariant
  <2>4. QED
    BY <1>1, <1>3, <2>1, <2>2, <2>3, AfterWrite DEF TurnInvariant, Written, MayTear
<1>4. QED
  BY <1>2, <1>3 DEF OpenMd5

LEMMA WriteMd5Loop ==
  ASSUME LInv, WriteMd5
  PROVE  TurnInvariant'
<1>1. pc = "writeMd5" /\ pc \in LoopLabels
  BY DEF WriteMd5, LoopLabels
<1>2. /\ sum[call.name] = <<>> /\ data' = data
      /\ \/ md5 = <<Md5(data[call.name])>>
         \/ md5 = <<>> /\ (MayMisread \/ ~CanRead(data[call.name]))
  BY <1>1 DEF LInv, TurnInvariant, WriteMd5
<1>3. md5 \in Seq(Digest) /\ sum[call.name] \in Seq(DigestPiece)
  BY <1>2 DEF LInv, IInv, TypeOK
<1>4. PICK o \in WriteOutcomes(sum[call.name], md5) :
        /\ sum' = [sum EXCEPT ![call.name] = o.file]
        /\ \/ o.ok /\ Goto("verifyMd5") /\ UNCHANGED <<try, md5>>
           \/ ~o.ok /\ NextTry
  BY DEF WriteMd5
<1>5. CASE NextTry
  BY <1>1, <1>2, <1>5, AfterWrite, NextTurn
<1>6. CASE o.ok /\ Goto("verifyMd5") /\ UNCHANGED <<try, md5>>
  <2>1. call' = call /\ pc' = "verifyMd5"
    BY <1>6 DEF Goto
  <2>2. /\ o.file = sum[call.name] \o md5 \/ MayTear
        /\ Driver = "IDF" => md5 # <<>>
    BY <1>3, <1>6, PieceTypes, DriverWrites
  <2>3. MayTear \/ sum'[call.name] = md5
    <3>1. <<>> \o md5 = md5
      BY <1>3, ConcatEmptySeq
    <3>2. sum'[call.name] = o.file
      BY <1>1, <1>4, InLoop
    <3>3. QED
      BY <1>2, <2>2, <3>1, <3>2
  <2>4. \/ md5 = <<Md5(data[call.name])>>
        \/ md5 = <<>> /\ MayMishash
    BY <1>1, <1>2, <2>2, AfterWrite, DriverAssumption DEF MayMishash, CanRead, ArduinoCanRead
  <2>5. QED
    BY <1>1, <1>2, <1>6, <2>1, <2>3, <2>4, AfterWrite DEF TurnInvariant, Written, MayTear
<1>7. QED
  BY <1>4, <1>5, <1>6

LEMMA VerifyMd5Loop ==
  ASSUME LInv, VerifyMd5
  PROVE  TurnInvariant'
<1>1. pc = "verifyMd5" /\ data' = data
  BY DEF VerifyMd5, files
<1>2. CASE Return("true")
  BY <1>2, OutsideLoop DEF Return, LoopLabels
<1>3. CASE NextTry
  BY <1>1, <1>3, AfterWrite, NextTurn
<1>4. QED
  BY <1>2, <1>3 DEF VerifyMd5

\* When saveInMd5Mode answers true, the digest file holds the digest in RAM.
LEMMA VerifyMd5Returns ==
  ASSUME LInv, VerifyMd5, Return("true")
  PROVE  /\ mode = "MD5" /\ pc = "verifyMd5" /\ UNCHANGED files
         /\ sum[call.name] = md5
         /\ \/ md5 = <<Md5(data[call.name])>>
            \/ md5 = <<>> /\ MayMishash
<1>1. pc = "verifyMd5" /\ UNCHANGED files /\ mode = "MD5"
  BY DEF VerifyMd5, LInv, IInv, ControlInvariant
<1>2. PICK r \in ReadOutcomes(View(sum, call.name)) : r.ok /\ r.text = md5
  BY DEF VerifyMd5, NextTry, Return, Goto, Answer
<1>3. r.text = sum[call.name]
  BY <1>1, <1>2, ReadOutcomesType, AfterWrite DEF View, NotRead, GotText
<1>4. QED
  BY <1>1, <1>2, <1>3 DEF LInv, TurnInvariant

\* A new call starts without residue: what it finds is what its caller saw.
LEMMA WriteStartsLoop ==
  ASSUME LInv, NEW kind \in {"save", "append"}, NEW n \in Names, NEW t \in Texts,
         Write(kind, n, t)
  PROVE  TurnInvariant'
<1>1. /\ call' = [kind |-> kind, name |-> n, text |-> t, seen |-> Store(n)]
      /\ pc' = "openMain" /\ try' = 1 /\ data' = data
  BY DEF Write, Accept, files
<1>2. Store(n) # Unreadable => Store(n) = data[n] /\ data[n] \in Seq(DataPiece)
  <2>1. CanRead(data[n]) => data[n] # Absent
    BY DEF CanRead, IdfCanRead, ArduinoCanRead
  <2>2. QED
    BY <2>1 DEF Store, LInv, IInv, TypeOK, DataFile
<1>3. Residue(call', 1, data[n])
  <2>1. CASE Store(n) = Unreadable
    BY <1>1, <2>1 DEF Residue
  <2>2. CASE Store(n) # Unreadable
    <3>1. call'.seen = data[n] /\ data[n] # Absent /\ Len(data[n]) \in Nat
      BY <1>1, <1>2, <2>2, ContentAssumption
    <3>2. Len(data[n]) < Len(data[n]) + 1 /\ Len(data[n]) + 1 .. Len(data[n]) = {}
      BY <3>1
    <3>3. QED
      BY <3>1, <3>2 DEF Residue
  <2>3. QED
    BY <2>1, <2>2
<1>4. QED
  BY <1>1, <1>3 DEF TurnInvariant

-----------------------------------------------------------------------------
(* All steps.                                                              *)

LEMMA InitLInv == Init => TurnInvariant
BY DEF Init, TurnInvariant

LEMMA NextLInv ==
  ASSUME LInv, [Next]_vars
  PROVE  LInv'
<1>1. IInv'
  BY NextIInv DEF LInv
<1>2. TurnInvariant'
  <2>1. CASE OpenMain \/ WriteMain \/ HashMain \/ OpenMd5 \/ WriteMd5 \/ VerifyMd5
    BY <2>1, OpenMainLoop, WriteMainLoop, HashMainLoop, OpenMd5Loop, WriteMd5Loop, VerifyMd5Loop
  <2>2. CASE Boot \/ ListFiles \/ RemoveMain \/ RemoveMd5 \/ Reset
    <3>1. pc' \notin LoopLabels
      BY <2>2 DEF Boot, ListFiles, RemoveMain, RemoveMd5, Reset, NextRemoval, Goto, Return, LoopLabels
    <3>2. QED
      BY <3>1, OutsideLoop
  <2>3. CASE Request
    <3>1. CASE \E n \in Names, t \in Texts : SaveContentToFile(n, t) \/ AppendContentToFile(n, t)
      BY <3>1, WriteStartsLoop DEF SaveContentToFile, AppendContentToFile
    <3>2. CASE \/ \E n \in Names : LoadContentFromFile(n) \/ DeleteFile(n)
               \/ DeleteAllFiles \/ SaveInMd5BackupMode \/ Format
      <4>1. CASE pc' \notin LoopLabels
        BY <4>1, OutsideLoop
      <4>2. pc' \notin LoopLabels
        BY <3>2 DEF LoadContentFromFile, DeleteFile, DeleteAllFiles, SaveInMd5BackupMode,
           Format, AnswerAtOnce, Accept, LoopLabels
      <4>3. QED
        BY <4>1, <4>2
    <3>3. QED
      BY <2>3, <3>1, <3>2 DEF Request
  <2>4. CASE UNCHANGED vars
    BY <2>4 DEF vars, LInv, TurnInvariant, Residue, Written, MayTear
  <2>5. QED
    BY <2>1, <2>2, <2>3, <2>4 DEF Next, Step
<1>3. QED
  BY <1>1, <1>2 DEF LInv

LEMMA LInvAlways == Spec => []LInv
<1>1. Init => LInv
  BY InitIInv, InitLInv DEF LInv
<1>2. LInv /\ [Next]_vars => LInv'
  BY NextLInv
<1>3. QED
  BY <1>1, <1>2, PTL DEF Spec

-----------------------------------------------------------------------------
(* What the answer true means.                                             *)

\* Only the writes of the two loops answer true to a save or an append.
LEMMA TrueAnswers ==
  ASSUME LInv, Next, call # NoCall, call.kind \in {"save", "append"}, answer'.kind = "true"
  PROVE  (WriteMain \/ VerifyMd5) /\ Return("true")
<1>1. pc \in LoopLabels /\ answer = Answer("pending")
  BY DEF LInv, IInv, TypeOK, ControlInvariant, Labels, LoopLabels, RemoveLabels, RemoveCalls
<1>2. answer' # Answer("pending") /\ answer' # Answer("false") /\ answer' # Answer("reset")
  BY DEF Answer
<1>3. answer' # answer
  BY <1>1, <1>2
<1>4. ~NextTry /\ \A label : ~Goto(label)
  BY <1>2, <1>3 DEF NextTry, Goto, Return
<1>5. ~Request /\ ~Reset
  <2>1. pc # "idle"
    BY <1>1 DEF LoopLabels
  <2>2. QED
    BY <1>2, <2>1 DEF Request, Reset, SaveContentToFile, AppendContentToFile, Write, Accept,
       LoadContentFromFile, DeleteFile, DeleteAllFiles, SaveInMd5BackupMode, AnswerAtOnce, Format
<1>6. ~Boot /\ ~ListFiles /\ ~RemoveMain /\ ~RemoveMd5
  BY <1>1 DEF Boot, ListFiles, RemoveMain, RemoveMd5, LoopLabels
<1>7. ~OpenMain /\ ~HashMain /\ ~OpenMd5 /\ ~WriteMd5
  BY <1>4 DEF OpenMain, HashMain, OpenMd5, WriteMd5
<1>8. WriteMain => Return("true")
  BY <1>4 DEF WriteMain
<1>9. VerifyMd5 => Return("true")
  BY <1>4 DEF VerifyMd5
<1>10. QED
  BY <1>5, <1>6, <1>7, <1>8, <1>9 DEF Next, Step

\* On any driver, what an answer of true leaves behind.
LEMMA NextLeft ==
  ASSUME LInv, [Next]_vars
  PROVE  [LeftWhenTrue]_vars
<1> SUFFICES ASSUME Next, call # NoCall, answer'.kind = "true",
                    call.kind \in {"save", "append"}
             PROVE  MayLeave(call, data'[call.name], sum'[call.name])
  BY DEF LeftWhenTrue
<1>1. (WriteMain \/ VerifyMd5) /\ Return("true")
  BY TrueAnswers
<1>2. CASE WriteMain
  BY <1>1, <1>2, WriteMainReturns, InLoop, WrittenMayStay
<1>3. CASE VerifyMd5
  <2>1. /\ data'[call.name] = data[call.name] /\ sum'[call.name] = sum[call.name]
        /\ sum[call.name] = <<Md5(data[call.name])>>
             \/ (MayMishash /\ sum[call.name] = <<>>)
        /\ pc = "verifyMd5"
    BY <1>1, <1>3, VerifyMd5Returns DEF files
  <2>2. QED
    BY <2>1, AfterWrite, InLoop, WrittenMayStay
<1>4. QED
  BY <1>1, <1>2, <1>3

\* On a trustworthy driver a write that was accepted is complete.
LEMMA TrustedWritten ==
  ASSUME Trustworthy, NEW c, NEW f, Written(c, f)
  PROVE  CanRead(f) /\ Fulfils(c, f)
BY TrustedNeverTears DEF Written

LEMMA NextStored ==
  ASSUME LInv, [Next]_vars
  PROVE  [StoredWhenTrue]_vars
<1> SUFFICES ASSUME Next, Trustworthy, call # NoCall, answer'.kind = "true",
                    call.kind \in {"save", "append"}
             PROVE  \/ Fulfils(call, Contents'[call.name])
                    \/ MayMishash /\ mode = "MD5" /\ md5 = <<>>
  BY DEF StoredWhenTrue
<1>1. (WriteMain \/ VerifyMd5) /\ Return("true")
  BY TrueAnswers
<1>2. mode' = mode
  BY <1>1 DEF Return
<1>3. CASE WriteMain
  <2>1. mode = "NORMAL" /\ CanRead(data'[call.name]) /\ Fulfils(call, data'[call.name])
        /\ call.name \in Names
    BY <1>1, <1>3, WriteMainReturns, TrustedWritten, InLoop
  <2>2. Contents'[call.name] = data'[call.name]
    BY <1>2, <2>1 DEF Contents, Store
  <2>3. QED
    BY <2>1, <2>2
<1>4. CASE VerifyMd5
  <2> SUFFICES ASSUME ~(MayMishash /\ mode = "MD5" /\ md5 = <<>>)
               PROVE  Fulfils(call, Contents'[call.name])
    OBVIOUS
  <2>1. /\ mode = "MD5" /\ data' = data /\ sum' = sum
        /\ sum[call.name] = <<Md5(data[call.name])>>
    BY <1>1, <1>4, VerifyMd5Returns DEF files
  <2>2. CanRead(data[call.name]) /\ Fulfils(call, data[call.name]) /\ call.name \in Names
    BY <1>1, <1>4, VerifyMd5Returns, AfterWrite, TrustedWritten, InLoop
  <2>3. Contents'[call.name] = data[call.name]
    BY <1>2, <2>1, <2>2 DEF Contents, Store
  <2>4. QED
    BY <2>2, <2>3
<1>5. QED
  BY <1>1, <1>3, <1>4

\* What TurnInvariant says on a trustworthy driver.
LEMMA TurnFollows == LInv => LoopInvariant
<1> SUFFICES ASSUME LInv, Trustworthy PROVE LoopInvariant
  BY DEF LoopInvariant
<1>1. TurnInvariant /\ ~MayTear
  BY TrustedNeverTears DEF LInv
<1>2. ASSUME pc \in {"hashMain", "openMd5", "writeMd5", "verifyMd5"}
      PROVE  CanRead(data[call.name]) /\ Fulfils(call, data[call.name])
  BY <1>2, AfterWrite, TrustedWritten
<1>3. QED
  BY <1>1, <1>2 DEF TurnInvariant, LoopInvariant

-----------------------------------------------------------------------------
(* The theorems.                                                           *)

\* On a trustworthy driver the turn of the loop in progress has achieved what
\* its next driver call takes for granted (saveInMd5Mode).
THEOREM LoopCorrect == Spec => []LoopInvariant
<1>1. QED
  BY TurnFollows, LInvAlways, PTL

\* saveContentToFile and appendContentToFile answer true only when what was
\* asked for can be loaded: for any number of names, texts, calls, turns of
\* the loop, failures and restarts, on both drivers, in both modes.
THEOREM StoredCorrect == Spec => TrueMeansStored
<1>1. LInv /\ [Next]_vars => [StoredWhenTrue]_vars
  BY NextStored
<1>2. QED
  BY <1>1, LInvAlways, PTL DEF Spec, TrueMeansStored

\* Whatever the driver fails to report, a save or an append that answers true
\* has lost at most the end of its text: what could be loaded before an append
\* is there, nothing foreign follows it, and the digest is of the file or empty
\* (saveInNormalMode and saveInMd5Mode).
THEOREM LeftCorrect == Spec => LostOnlyAtClose
<1>1. LInv /\ [Next]_vars => [LeftWhenTrue]_vars
  BY NextLeft
<1>2. QED
  BY <1>1, LInvAlways, PTL DEF Spec, LostOnlyAtClose
=============================================================================
