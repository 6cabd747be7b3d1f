----------------------- MODULE SafeFilePromiseProofs -----------------------
(***************************************************************************)
(* What SafeFileManipulator promises to its callers: a delete that answers *)
(* true leaves nothing to load but the files that it missed, on every      *)
(* driver and in every mode, and MODE_USE_MD5 on a trustworthy driver      *)
(* implements CheckedStore.                                                *)
(*                                                                         *)
(* RemovalInvariant, added to IInv, is inductive: it says what the loop of *)
(* deleteAllFiles has removed or missed, and that nothing is stored where  *)
(* nothing can be stored.  The refinement needs it beside TurnInvariant.   *)
(***************************************************************************)
EXTENDS SafeFileProofs

\* No file is ever created under a name that the file system refuses.
NothingTooLong == \A n \in TooLong : data[n] = Absent /\ sum[n] = Absent

\* The names that the loop of deleteAllFiles has still to remove.
Listed(n) == \E i \in DOMAIN todo : todo[i] = n

RemovalInvariant ==
  /\ pc = "boot" => ~mounted
  /\ NothingTooLong
  /\ pc \in LoopLabels => missed = {}
  /\ pc \in RemoveLabels => missed \subseteq Promise!MayBeMissed(call)
  /\ pc \in RemoveLabels /\ call.kind = "delete" => todo = <<call.name>>
  /\ mounted /\ pc = "removeMd5" => data[Head(todo)] = Absent \/ Head(todo) \in missed
  /\ mounted /\ pc \in RemoveLabels /\ call.kind = "deleteAll" =>
       \A n \in Names \ Dotted : Store(n) = Unreadable \/ n \in missed \/ Listed(n)

RInv == IInv /\ RemovalInvariant

-----------------------------------------------------------------------------
(* What there is to load.                                                  *)

LEMMA FileTypes ==
  ASSUME IInv, NEW n \in Names
  PROVE  /\ data[n] \in DataFile
         /\ CanRead(data[n]) => data[n] # Absent /\ data[n] \in Seq(DataPiece)
BY DEF IInv, TypeOK, DataFile, CanRead, IdfCanRead, ArduinoCanRead

\* A file without its digest cannot be loaded in MD5 mode, and no file without
\* contents in any.
LEMMA NothingToLoad ==
  ASSUME IInv, NEW n \in Names, data[n] = Absent \/ (mode # "NORMAL" /\ sum[n] = Absent)
  PROVE  Store(n) = Unreadable
<1>1. CanRead(data[n]) => data[n] # Absent /\ <<Md5(data[n])>> # Absent
  <2> SUFFICES ASSUME CanRead(data[n])
               PROVE  data[n] # Absent /\ <<Md5(data[n])>> # Absent
    OBVIOUS
  <2>1. data[n] # Absent /\ Md5(data[n]) \in DigestPiece
    BY FileTypes, PieceTypes
  <2>2. <<Md5(data[n])>> \in Seq(DigestPiece)
    BY <2>1
  <2>3. QED
    BY <2>1, <2>2, ContentAssumption
<1>2. QED
  BY <1>1 DEF Store

\* The same of the state after a step.
LEMMA NothingToLoadNext ==
  ASSUME IInv', NEW n \in Names, data'[n] = Absent \/ (mode' # "NORMAL" /\ sum'[n] = Absent)
  PROVE  Contents'[n] = Unreadable
<1>1. data'[n] \in DataFile
  BY DEF IInv, TypeOK
<1>2. CanRead(data'[n]) => data'[n] # Absent /\ <<Md5(data'[n])>> # Absent
  <2> SUFFICES ASSUME CanRead(data'[n])
               PROVE  data'[n] # Absent /\ <<Md5(data'[n])>> # Absent
    OBVIOUS
  <2>1. data'[n] # Absent
    BY DEF CanRead, IdfCanRead, ArduinoCanRead
  <2>2. Md5(data'[n]) \in DigestPiece
    BY <1>1, <2>1, PieceTypes DEF DataFile
  <2>3. <<Md5(data'[n])>> \in Seq(DigestPiece)
    BY <2>2
  <2>4. QED
    BY <2>1, <2>3, ContentAssumption
<1>3. QED
  BY <1>2 DEF Contents, Store

\* Files that a step leaves alone are loaded as before.
LEMMA LoadedAsBefore ==
  ASSUME NEW n \in Names, data'[n] = data[n], sum'[n] = sum[n], mode' = mode
  PROVE  Contents'[n] = Contents[n] /\ Certificates'[n] = Certificates[n]
         /\ Store(n)' = Store(n)
BY DEF Contents, Certificates, Store, Certified

\* A file that does not exist for the manipulator cannot be loaded.
LEMMA Unlisted ==
  ASSUME RInv, mounted, NEW n \in Names, ~DoesFileExist(n)
  PROVE  Store(n) = Unreadable
<1>1. n \in TooLong => data[n] = Absent
  BY DEF RInv, RemovalInvariant, NothingTooLong
<1>2. mode \in {"NORMAL", "MD5"} => data[n] = Absent \/ (mode # "NORMAL" /\ sum[n] = Absent)
  BY <1>1 DEF DoesFileExist, View
<1>3. CASE mode \in {"NORMAL", "MD5"}
  BY <1>2, <1>3, NothingToLoad DEF RInv
<1>4. CASE mode \notin {"NORMAL", "MD5"}
  BY <1>4 DEF Store
<1>5. QED
  BY <1>3, <1>4

LEMMA NoneListed ==
  ASSUME RInv, mounted, NEW n \in Names \ Dotted, n \notin DataFiles
  PROVE  Store(n) = Unreadable
<1>1. mode \in {"NORMAL", "MD5"} => ~DoesFileExist(n)
  BY DEF DataFiles
<1>2. CASE mode \in {"NORMAL", "MD5"}
  BY <1>1, <1>2, Unlisted
<1>3. CASE mode \notin {"NORMAL", "MD5"}
  BY <1>3 DEF Store
<1>4. QED
  BY <1>2, <1>3

\* Every file of a directory has a place in each of its orders.
LEMMA OrdersList ==
  ASSUME NEW S \in SUBSET Names, NEW s \in Orders(S), NEW n \in S
  PROVE  \E i \in DOMAIN s : s[i] = n
<1> DEFINE D == 1 .. Cardinality(S)
<1>1. IsFiniteSet(S) /\ Cardinality(S) \in Nat
  BY ManipulatorAssumption, FS_Subset, FS_CardinalityType
<1>2. IsFiniteSet(D) /\ Cardinality(D) = Cardinality(S)
  BY <1>1, FS_Interval
<1>3. s \in Injection(D, S)
  BY DEF Orders, Injection, IsInjective
<1>4. s \in Surjection(D, S)
  BY <1>1, <1>2, <1>3, FS_Injection
<1>5. QED
  BY <1>4 DEF Surjection

-----------------------------------------------------------------------------
(* The steps keep RemovalInvariant.                                        *)

LEMMA TooLongKept ==
  ASSUME RInv, \A n \in TooLong : data'[n] \in {data[n], Absent} /\ sum'[n] \in {sum[n], Absent}
  PROVE  NothingTooLong'
BY DEF RInv, RemovalInvariant, NothingTooLong

\* Outside the loop of deleteAllFiles little is said.
LEMMA OutsideRemoval ==
  ASSUME pc' \notin RemoveLabels, NothingTooLong', pc' = "boot" => ~mounted',
         pc' \in LoopLabels => missed' = {}
  PROVE  RemovalInvariant'
BY DEF RemovalInvariant, RemoveLabels

LEMMA LoopKeepsRemoval ==
  ASSUME RInv, OpenMain \/ WriteMain \/ HashMain \/ OpenMd5 \/ WriteMd5 \/ VerifyMd5
  PROVE  RemovalInvariant'
<1>1. pc' \notin RemoveLabels /\ pc' # "boot" /\ missed' = {}
  BY DEF OpenMain, WriteMain, HashMain, OpenMd5, WriteMd5, VerifyMd5, NextTry, Goto, Return,
     RemoveLabels, LoopLabels, RInv, RemovalInvariant
<1>2. /\ data' = data \/ (call.name \notin TooLong /\ \E f : data' = [data EXCEPT ![call.name] = f])
      /\ sum' = sum \/ (call.name \notin TooLong /\ \E f : sum' = [sum EXCEPT ![call.name] = f])
  <2>1. CASE OpenMain
    BY <2>1 DEF OpenMain, CanOpen, files
  <2>2. CASE WriteMain
    BY <2>2 DEF WriteMain, RInv, IInv, ControlInvariant, LoopLabels
  <2>3. CASE HashMain \/ VerifyMd5
    BY <2>3 DEF HashMain, VerifyMd5, files
  <2>4. CASE OpenMd5
    BY <2>4 DEF OpenMd5, CanOpen, files
  <2>5. CASE WriteMd5
    BY <2>5 DEF WriteMd5, RInv, IInv, ControlInvariant, LoopLabels
  <2>6. QED
    BY <2>1, <2>2, <2>3, <2>4, <2>5
<1>3. \A n \in TooLong : data'[n] = data[n] /\ sum'[n] = sum[n]
  BY <1>2, DriverAssumption DEF RInv, IInv, TypeOK
<1>4. QED
  BY <1>1, <1>3, TooLongKept, OutsideRemoval

\* What a turn of the removal loop works on.
LEMMA InRemoval ==
  ASSUME RInv, pc \in RemoveLabels
  PROVE  /\ todo \in Seq(Names) /\ todo # <<>> /\ Head(todo) \in Names
         /\ call \in RemoveCalls /\ call.kind \in {"delete", "deleteAll"}
         /\ mode \in {"NORMAL", "MD5"}
         /\ call.kind = "delete" => todo = <<call.name>> /\ call.name = Head(todo)
         /\ data \in [Names -> DataFile] /\ sum \in [Names -> DigestFile]
<1>1. todo \in Seq(Names) /\ todo # <<>> /\ call \in RemoveCalls /\ mode \in {"NORMAL", "MD5"}
      /\ data \in [Names -> DataFile] /\ sum \in [Names -> DigestFile]
  BY DEF RInv, IInv, TypeOK, ControlInvariant
<1>2. Head(todo) \in Names /\ call.kind \in {"delete", "deleteAll"}
  BY <1>1, HeadTailProperties DEF RemoveCalls
<1>3. call.kind = "delete" => todo = <<call.name>>
  BY DEF RInv, RemovalInvariant
<1>4. QED
  BY <1>1, <1>2, <1>3

\* A removal that answers true on a mounted partition leaves no file, or has
\* missed it: a lookup failed, or the name leads nowhere.
LEMMA Removed ==
  ASSUME RInv, NEW file \in {data, sum}, NEW n \in Names, NEW o \in Removals(file, n)
  PROVE  /\ o.ok /\ mounted => o.file = Absent \/ o.missed
         /\ o.missed => "lookup" \in Faults \/ (call.kind = "deleteAll" /\ ~ListedNamesResolve)
<1>1. n \in TooLong => file[n] = Absent
  BY DEF RInv, RemovalInvariant, NothingTooLong
<1>2. \/ o = Removal(file[n], FALSE, FALSE) \/ o = Removal(Absent, TRUE, FALSE)
      \/ o = Removal(file[n], TRUE, FALSE) /\ View(file, n) = Absent
      \/ o = Removal(file[n], TRUE, TRUE)
         /\ ("lookup" \in Faults \/ (call.kind = "deleteAll" /\ ~ListedNamesResolve))
  BY DEF Removals, RemoveOutcomes
<1>3. mounted /\ View(file, n) = Absent => file[n] = Absent
  BY <1>1 DEF View
<1>4. CASE o = Removal(file[n], FALSE, FALSE)
  BY <1>4 DEF Removal
<1>5. CASE o = Removal(Absent, TRUE, FALSE)
  BY <1>5 DEF Removal
<1>6. CASE o = Removal(file[n], TRUE, FALSE) /\ View(file, n) = Absent
  BY <1>3, <1>6 DEF Removal
<1>7. CASE /\ o = Removal(file[n], TRUE, TRUE)
           /\ "lookup" \in Faults \/ (call.kind = "deleteAll" /\ ~ListedNamesResolve)
  BY <1>7 DEF Removal
<1>8. QED
  BY <1>2, <1>4, <1>5, <1>6, <1>7

\* What the answer true to a call of delete or deleteAll says.
DeletedNow ==
  mounted =>
    /\ call.kind = "delete" => GoneOrMissed(call.name)
    /\ call.kind = "deleteAll" => \A n \in Names \ Dotted : GoneOrMissed(n)

\* The names that a removal adds to the missed ones are among those that its
\* call may miss.
LEMMA MissedMay ==
  ASSUME RInv, pc \in RemoveLabels, NEW file \in {data, sum}, NEW o \in Removals(file, Head(todo)),
         \/ missed' = IF o.missed THEN missed \cup {Head(todo)} ELSE missed
         \/ missed' = IF o.missed THEN missed ELSE missed \ {Head(todo)}
  PROVE  missed' \subseteq Promise!MayBeMissed(call)
<1>1. missed \subseteq Promise!MayBeMissed(call)
  BY DEF RInv, RemovalInvariant
<1>2. Head(todo) \in Names /\ (call.kind = "delete" => call.name = Head(todo))
      /\ call.kind \in {"delete", "deleteAll"}
  BY InRemoval
<1>3. o.missed => "lookup" \in Faults \/ (call.kind = "deleteAll" /\ ~ListedNamesResolve)
  BY <1>2, Removed
<1>4. "lookup" \in Faults => Faults \cap {"lookup", "list"} # {}
  OBVIOUS
<1>5. o.missed => Head(todo) \in Promise!MayBeMissed(call)
  BY <1>2, <1>3, <1>4 DEF Promise!MayBeMissed, Promise!Writes, Promise!IsAbout
<1>6. QED
  BY <1>1, <1>5

\* The last file of a turn is gone: the loop goes on with the next name, or
\* has removed them all.
LEMMA TurnRemoved ==
  ASSUME RInv, pc \in RemoveLabels, NextRemoval, IInv', NothingTooLong',
         mounted => GoneOrMissed(Head(todo)), missed' \subseteq Promise!MayBeMissed(call),
         \A n \in Names \ {Head(todo)} :
           data'[n] = data[n] /\ sum'[n] = sum[n] /\ (n \in missed => n \in missed')
  PROVE  /\ RemovalInvariant'
         /\ Return("true") => DeletedNow
<1> DEFINE h == Head(todo)
<1>1. mode' = mode /\ mounted' = mounted
  BY DEF NextRemoval, Return, disk
<1>2. todo \in Seq(Names) /\ todo # <<>> /\ h \in Names /\ Len(todo) \in Nat \ {0}
  BY InRemoval
<1>3. /\ Tail(todo) \in Seq(Names) /\ Len(Tail(todo)) = Len(todo) - 1
      /\ \A i \in 1 .. Len(todo) - 1 : Tail(todo)[i] = todo[i + 1]
      /\ todo[1] = h
  BY <1>2, HeadTailProperties
<1>4. mounted => GoneOrMissed(h)
  OBVIOUS
<1>5. \A n \in Names \ {h} : Contents'[n] = Store(n) /\ Store(n)' = Contents'[n]
  BY <1>1, LoadedAsBefore DEF Contents
<1>6. ASSUME mounted, call.kind = "deleteAll", NEW n \in Names \ Dotted
      PROVE  GoneOrMissed(n) \/ \E i \in DOMAIN Tail(todo) : Tail(todo)[i] = n
  <2>1. Store(n) = Unreadable \/ n \in missed \/ Listed(n)
    BY <1>6 DEF RInv, RemovalInvariant
  <2>2. CASE n = h
    BY <1>4, <1>6, <2>2
  <2>3. CASE n # h /\ (Store(n) = Unreadable \/ n \in missed)
    BY <1>5, <2>3 DEF GoneOrMissed
  <2>4. CASE n # h /\ Listed(n)
    <3>1. PICK i \in 1 .. Len(todo) : todo[i] = n
      BY <1>2, <2>4 DEF Listed
    <3>2. i - 1 \in 1 .. Len(todo) - 1 /\ (i - 1) + 1 = i
      BY <1>2, <1>3, <2>4, <3>1
    <3>3. Tail(todo)[i - 1] = n /\ i - 1 \in DOMAIN Tail(todo)
      BY <1>3, <3>1, <3>2
    <3>4. QED
      BY <3>3
  <2>5. QED
    BY <2>1, <2>2, <2>3, <2>4
<1>7. ASSUME Return("true"), Tail(todo) = <<>>
      PROVE  RemovalInvariant' /\ DeletedNow
  <2>1. RemovalInvariant'
    BY <1>7, OutsideRemoval DEF Return, RemoveLabels, LoopLabels
  <2>2. DOMAIN Tail(todo) = {}
    BY <1>7
  <2>3. DeletedNow
    BY <1>4, <1>6, <2>2, InRemoval DEF DeletedNow
  <2>4. QED
    BY <2>1, <2>3
<1>8. ASSUME Tail(todo) # <<>>, todo' = Tail(todo), pc' = "removeMain", call' = call
      PROVE  RemovalInvariant' /\ ~Return("true")
  <2>1. call.kind # "delete"
    <3>1. todo = <<call.name>> => Tail(todo) = <<>>
      OBVIOUS
    <3>2. QED
      BY <1>8, <3>1, InRemoval
  <2>2. \A n \in Names : Contents'[n] = Store(n)'
    BY DEF Contents
  <2>3. missed' \subseteq Promise!MayBeMissed(call')
    BY <1>8
  <2>4. \A n \in Names \ Dotted : mounted /\ call.kind = "deleteAll" =>
          Store(n)' = Unreadable \/ n \in missed' \/ Listed(n)'
    BY <1>6, <1>8, <2>2 DEF GoneOrMissed, Listed
  <2>5. RemovalInvariant'
    BY <1>1, <1>8, <2>1, <2>3, <2>4 DEF RemovalInvariant, RemoveLabels, LoopLabels,
       Promise!MayBeMissed, Promise!Writes, Promise!IsAbout
  <2>6. QED
    BY <1>8, <2>5 DEF Return
<1>9. QED
  BY <1>7, <1>8 DEF NextRemoval

LEMMA RemoveMainKeepsRemoval ==
  ASSUME RInv, RemoveMain
  PROVE  RemovalInvariant' /\ (Return("true") => DeletedNow)
<1> DEFINE h == Head(todo)
<1>1. pc = "removeMain" /\ pc \in RemoveLabels /\ sum' = sum
  BY DEF RemoveMain, RemoveLabels
<1>2. PICK o \in Removals(data, h) :
        /\ data' = [data EXCEPT ![h] = o.file]
        /\ missed' = IF o.missed THEN missed \cup {h} ELSE missed
        /\ \/ o.ok /\ mode = "MD5" /\ Goto("removeMd5") /\ UNCHANGED <<try, md5>>
           \/ o.ok /\ mode = "NORMAL" /\ NextRemoval
           \/ ~o.ok /\ Return("false")
  BY DEF RemoveMain
<1>3. h \in Names /\ data \in [Names -> DataFile] /\ IInv'
  BY <1>1, InRemoval, RemoveMainKeeps DEF RInv
<1>4. data'[h] = o.file /\ \A n \in Names \ {h} : data'[n] = data[n] /\ sum'[n] = sum[n]
  BY <1>1, <1>2, <1>3
<1>5. NothingTooLong'
  <2>1. \A n \in Names : data'[n] \in {data[n], Absent} /\ sum'[n] \in {sum[n], Absent}
    BY <1>1, <1>4, RemovalsType
  <2>2. QED
    BY <2>1, TooLongKept, DriverAssumption
<1>6. mounted /\ o.ok => data'[h] = Absent \/ h \in missed'
  BY <1>2, <1>3, <1>4, Removed
<1>7. missed' \subseteq Promise!MayBeMissed(call) /\ missed \subseteq missed'
  BY <1>1, <1>2, MissedMay
<1>8. CASE o.ok /\ NextRemoval
  <2>1. mounted => GoneOrMissed(h)
    BY <1>3, <1>6, <1>8, NothingToLoadNext DEF GoneOrMissed
  <2>2. QED
    BY <1>1, <1>3, <1>4, <1>5, <1>8, <1>7, <2>1, TurnRemoved
<1>9. CASE Return("false")
  <2>1. ~Return("true")
    BY <1>9 DEF Return, Answer
  <2>2. QED
    BY <1>5, <1>9, <2>1, OutsideRemoval DEF Return, RemoveLabels, LoopLabels
<1>10. CASE o.ok /\ Goto("removeMd5")
  <2>1. /\ pc' = "removeMd5" /\ mode' = mode /\ mounted' = mounted
        /\ call' = call /\ todo' = todo
    BY <1>10 DEF Goto, disk
  <2>2. mounted => data'[Head(todo')] = Absent \/ Head(todo') \in missed'
    BY <1>6, <1>10, <2>1
  <2>3. call.kind = "delete" => todo' = <<call.name>>
    BY <1>1, <2>1, InRemoval
  <2>4. ASSUME mounted, call.kind = "deleteAll", NEW n \in Names \ Dotted
        PROVE  Store(n)' = Unreadable \/ n \in missed' \/ Listed(n)'
    <3>1. Store(n) = Unreadable \/ n \in missed' \/ Listed(n)
      BY <1>1, <1>7, <2>4 DEF RInv, RemovalInvariant
    <3>2. CASE n = h
      <4>1. todo[1] = n /\ 1 \in DOMAIN todo
        BY <1>1, <3>2, InRemoval, HeadTailProperties
      <4>2. QED
        BY <2>1, <4>1 DEF Listed
    <3>3. CASE n # h
      <4>1. Store(n)' = Store(n)
        BY <1>4, <2>1, <3>3, LoadedAsBefore
      <4>2. QED
        BY <2>1, <3>1, <4>1 DEF Listed
    <3>4. QED
      BY <3>2, <3>3
  <2>5. RemovalInvariant'
    BY <1>5, <1>7, <2>1, <2>2, <2>3, <2>4 DEF RemovalInvariant, RemoveLabels, LoopLabels,
       Promise!MayBeMissed, Promise!Writes, Promise!IsAbout
  <2>6. QED
    BY <2>1, <2>5 DEF Return
<1>11. QED
  BY <1>2, <1>8, <1>9, <1>10

LEMMA RemoveMd5KeepsRemoval ==
  ASSUME RInv, RemoveMd5
  PROVE  RemovalInvariant' /\ (Return("true") => DeletedNow)
<1> DEFINE h == Head(todo)
<1>1. pc = "removeMd5" /\ pc \in RemoveLabels /\ data' = data
  BY DEF RemoveMd5, RemoveLabels
<1>2. PICK o \in Removals(sum, h) :
        /\ sum' = [sum EXCEPT ![h] = o.file]
        /\ missed' = IF o.missed THEN missed ELSE missed \ {h}
        /\ \/ o.ok /\ NextRemoval
           \/ ~o.ok /\ Return("false")
  BY DEF RemoveMd5
<1>3. h \in Names /\ sum \in [Names -> DigestFile] /\ IInv'
  BY <1>1, InRemoval, RemoveMd5Keeps DEF RInv
<1>4. sum'[h] = o.file /\ \A n \in Names \ {h} : data'[n] = data[n] /\ sum'[n] = sum[n]
  BY <1>1, <1>2, <1>3
<1>5. NothingTooLong'
  <2>1. \A n \in Names : data'[n] \in {data[n], Absent} /\ sum'[n] \in {sum[n], Absent}
    BY <1>1, <1>4, RemovalsType
  <2>2. QED
    BY <2>1, TooLongKept, DriverAssumption
<1>6. /\ missed' \subseteq Promise!MayBeMissed(call)
      /\ \A n \in Names \ {h} : n \in missed => n \in missed'
  BY <1>1, <1>2, MissedMay
<1>7. CASE o.ok /\ NextRemoval
  <2>1. mounted => data'[h] = Absent \/ h \in missed
    BY <1>1 DEF RInv, RemovalInvariant
  <2>2. mounted => sum'[h] = Absent \/ o.missed
    BY <1>3, <1>4, <1>7, Removed
  <2>3. mode' # "NORMAL"
    BY <1>1, <1>7 DEF RInv, IInv, ControlInvariant, NextRemoval, Return
  <2>4. mounted => GoneOrMissed(h)
    BY <1>2, <1>3, <2>1, <2>2, <2>3, NothingToLoadNext DEF GoneOrMissed
  <2>5. QED
    BY <1>1, <1>3, <1>4, <1>5, <1>6, <1>7, <2>4, TurnRemoved
<1>8. CASE Return("false")
  <2>1. ~Return("true")
    BY <1>8 DEF Return, Answer
  <2>2. QED
    BY <1>5, <1>8, <2>1, OutsideRemoval DEF Return, RemoveLabels, LoopLabels
<1>9. QED
  BY <1>2, <1>7, <1>8

\* deleteAllFiles starts with every file that can be loaded in its list, but
\* those that the list misses.
LEMMA ListFilesKeepsRemoval ==
  ASSUME RInv, ListFiles
  PROVE  /\ RemovalInvariant' /\ (Return("true") => DeletedNow)
         /\ missed' \subseteq Promise!MayBeMissed(call)
<1>1. /\ pc = "listFiles" /\ call = [kind |-> "deleteAll"] /\ data' = data /\ sum' = sum
      /\ pc' # "boot" /\ pc' \notin LoopLabels /\ mode' = mode /\ mounted' = mounted
  BY DEF ListFiles, files, disk, Return, RInv, IInv, ControlInvariant, LoopLabels
<1>2. PICK S \in DataFilesLists :
        /\ missed' = DataFiles \ S
        /\ \/ S = {} /\ Return("true")
           \/ /\ S # {}
              /\ todo' \in Orders(S)
              /\ pc' = "removeMain"
              /\ UNCHANGED <<mode, disk, call, try, md5, answer, calls>>
  BY DEF ListFiles
<1>3. S \subseteq DataFiles /\ S \in SUBSET Names
  BY <1>2, ListsType DEF RInv
<1>4. NothingTooLong'
  BY <1>1, TooLongKept
<1>5. missed' \subseteq Promise!MayBeMissed(call)
  <2>1. "list" \in Faults => Faults \cap {"lookup", "list"} # {}
    OBVIOUS
  <2>2. missed' # {} => "list" \in Faults
    BY <1>2 DEF DataFilesLists
  <2>3. missed' \subseteq Names
    BY <1>2 DEF DataFiles
  <2>4. QED
    BY <1>1, <2>1, <2>2, <2>3 DEF Promise!MayBeMissed, Promise!Writes, Promise!IsAbout
<1>6. \A n \in Names \ Dotted : mounted => GoneOrMissed(n) \/ n \in S
  <2> SUFFICES ASSUME NEW n \in Names \ Dotted, mounted, n \notin S
               PROVE  GoneOrMissed(n)
    OBVIOUS
  <2>1. CASE n \in DataFiles
    BY <1>2, <2>1 DEF GoneOrMissed
  <2>2. CASE n \notin DataFiles
    BY <1>1, <2>2, NoneListed, LoadedAsBefore DEF GoneOrMissed, Contents
  <2>3. QED
    BY <2>1, <2>2
<1>7. CASE S = {} /\ Return("true")
  <2>1. RemovalInvariant'
    BY <1>1, <1>4, <1>7, OutsideRemoval DEF Return, RemoveLabels
  <2>2. DeletedNow
    BY <1>1, <1>6, <1>7 DEF DeletedNow
  <2>3. QED
    BY <1>5, <2>1, <2>2
<1>8. CASE todo' \in Orders(S) /\ pc' = "removeMain" /\ call' = call
  <2>1. \A n \in Names \ Dotted : mounted =>
          Store(n)' = Unreadable \/ n \in missed' \/ Listed(n)'
    <3>1. \A n \in S : Listed(n)'
      BY <1>3, <1>8, OrdersList DEF Listed
    <3>2. \A n \in Names : Contents'[n] = Store(n)'
      BY DEF Contents
    <3>3. QED
      BY <1>6, <3>1, <3>2 DEF GoneOrMissed
  <2>2. RemovalInvariant'
    BY <1>1, <1>4, <1>5, <1>8, <2>1 DEF RemovalInvariant, RemoveLabels, LoopLabels,
       Promise!MayBeMissed, Promise!Writes, Promise!IsAbout
  <2>3. QED
    BY <1>5, <1>8, <2>2 DEF Return
<1>9. QED
  BY <1>2, <1>7, <1>8

\* A request leaves the files alone, or formats the partition.
LEMMA RequestKeepsRemoval ==
  ASSUME RInv, Request
  PROVE  RemovalInvariant'
<1>1. pc = "idle" /\ (Format \/ (data' = data /\ sum' = sum /\ mounted' = mounted))
  <2> DEFINE Unchanged == pc = "idle" /\ data' = data /\ sum' = sum /\ mounted' = mounted
  <2>1. \A a : AnswerAtOnce(a) => Unchanged
    BY DEF AnswerAtOnce, files, disk
  <2>2. \A kind, n, t : Write(kind, n, t) => Unchanged
    BY DEF Write, Accept, files, disk
  <2>3. \A n : LoadContentFromFile(n) => Unchanged
    BY <2>1 DEF LoadContentFromFile
  <2>4. \A n : DeleteFile(n) => Unchanged
    BY <2>1 DEF DeleteFile, Accept, files, disk
  <2>5. DeleteAllFiles => Unchanged
    BY <2>1 DEF DeleteAllFiles, Accept, files, disk
  <2> HIDE DEF Unchanged
  <2>6. Unchanged \/ Format
    BY <2>1, <2>2, <2>3, <2>4, <2>5 DEF Request, SaveContentToFile, AppendContentToFile,
       SaveInMd5BackupMode
  <2>7. QED
    BY <2>6 DEF Unchanged, Format
<1>2. NothingTooLong'
  <2>1. \A n \in Names : data'[n] \in {data[n], Absent} /\ sum'[n] \in {sum[n], Absent}
    BY <1>1 DEF Format, Formatted, files
  <2>2. QED
    BY <2>1, TooLongKept, DriverAssumption
<1>3. ASSUME pc' \in {"idle", "listFiles"} \/ (pc' = "openMain" /\ missed' = {})
      PROVE  RemovalInvariant'
  BY <1>2, <1>3, OutsideRemoval DEF RemoveLabels, LoopLabels
<1>4. ASSUME NEW n \in Names, DeleteFile(n), pc' # "idle" PROVE RemovalInvariant'
  <2>1. /\ pc' = "removeMain" /\ call' = [kind |-> "delete", name |-> n] /\ todo' = <<n>>
        /\ missed' = {}
    BY <1>1, <1>4 DEF DeleteFile, AnswerAtOnce, Accept
  <2>2. QED
    BY <1>2, <2>1 DEF RemovalInvariant, LoopLabels
<1>5. ASSUME DeleteAllFiles PROVE RemovalInvariant'
  BY <1>3, <1>5 DEF DeleteAllFiles, Accept
<1>6. CASE \/ \E n \in Names, t \in Texts : SaveContentToFile(n, t) \/ AppendContentToFile(n, t)
           \/ \E n \in Names : LoadContentFromFile(n)
           \/ SaveInMd5BackupMode \/ Format
  <2>1. pc' = "idle" \/ (pc' = "openMain" /\ missed' = {})
    BY <1>1, <1>6 DEF SaveContentToFile, AppendContentToFile, Write, Accept, LoadContentFromFile,
       SaveInMd5BackupMode, AnswerAtOnce, Format
  <2>2. QED
    BY <1>3, <2>1
<1>7. QED
  BY <1>3, <1>4, <1>5, <1>6 DEF Request

LEMMA BootAndResetKeepRemoval ==
  ASSUME RInv, Boot \/ Reset
  PROVE  RemovalInvariant'
<1>1. pc' \notin RemoveLabels \cup LoopLabels /\ (pc' = "boot" => ~mounted')
  BY DEF Boot, Reset, RemoveLabels, LoopLabels
<1>2. CASE Boot
  <2>1. \A n \in Names : data'[n] \in {data[n], Absent} /\ sum'[n] \in {sum[n], Absent}
    BY <1>2 DEF Boot, IdfInitialize, ArduinoInitialize, Formatted, files
  <2>2. QED
    BY <1>1, <2>1, TooLongKept, OutsideRemoval, DriverAssumption
<1>3. CASE Reset
  <2>1. /\ \/ data' = data
           \/ pc = "writeMain" /\ \E f : data' = [data EXCEPT ![call.name] = f]
        /\ \/ sum' = sum
           \/ pc = "writeMd5" /\ \E f : sum' = [sum EXCEPT ![call.name] = f]
    BY <1>3 DEF Reset, files
  <2>2. pc \in {"writeMain", "writeMd5"} => call.name \notin TooLong
    BY DEF RInv, IInv, ControlInvariant, LoopLabels
  <2>3. \A n \in TooLong : data'[n] = data[n] /\ sum'[n] = sum[n]
    BY <2>1, <2>2, DriverAssumption DEF RInv, IInv, TypeOK
  <2>4. QED
    BY <1>1, <2>3, TooLongKept, OutsideRemoval
<1>4. QED
  BY <1>2, <1>3

LEMMA InitRInv == Init => RInv
<1> SUFFICES ASSUME Init PROVE RInv
  OBVIOUS
<1>1. RemovalInvariant
  BY DriverAssumption DEF Init, RemovalInvariant, NothingTooLong, RemoveLabels, LoopLabels
<1>2. QED
  BY <1>1, InitIInv DEF RInv

LEMMA NextRInv ==
  ASSUME RInv, [Next]_vars
  PROVE  RInv'
<1>1. IInv'
  BY NextIInv DEF RInv
<1>2. RemovalInvariant'
  <2>1. CASE UNCHANGED vars
    <3>1. \A n \in Names : Store(n)' = Store(n)
      BY <2>1, LoadedAsBefore DEF vars
    <3>2. Dotted \subseteq Names
      BY ManipulatorAssumption
    <3>3. QED
      BY <2>1, <3>1, <3>2 DEF vars, RInv, RemovalInvariant, NothingTooLong, Listed,
         Promise!MayBeMissed, Promise!Writes, Promise!IsAbout
  <2>2. CASE Next
    BY <2>2, LoopKeepsRemoval, ListFilesKeepsRemoval, RemoveMainKeepsRemoval, RemoveMd5KeepsRemoval, RequestKeepsRemoval,
       BootAndResetKeepRemoval DEF Next, Step
  <2>3. QED
    BY <2>1, <2>2
<1>3. QED
  BY <1>1, <1>2 DEF RInv

\* Only the removals, and an empty list, answer true to a delete or deleteAll.
LEMMA TrueRemovals ==
  ASSUME RInv, Next, call # NoCall, call.kind \in {"delete", "deleteAll"}, answer'.kind = "true"
  PROVE  (ListFiles \/ RemoveMain \/ RemoveMd5) /\ Return("true")
<1>1. pc \in RemoveLabels \cup {"listFiles"} /\ answer = Answer("pending")
  BY DEF RInv, IInv, TypeOK, ControlInvariant, Labels, LoopLabels, RemoveLabels, WriteCalls
<1>2. answer' # Answer("pending") /\ answer' # Answer("false") /\ answer' # Answer("reset")
  BY DEF Answer
<1>3. answer' # answer
  BY <1>1, <1>2
<1>4. \A label : ~Goto(label)
  BY <1>3 DEF Goto
<1>5. ~Request /\ ~Reset
  <2>1. pc # "idle"
    BY <1>1 DEF RemoveLabels
  <2>2. QED
    BY <1>2, <2>1 DEF Request, Reset, SaveContentToFile, AppendContentToFile, Write, Accept,
       LoadContentFromFile, DeleteFile, DeleteAllFiles, SaveInMd5BackupMode, AnswerAtOnce, Format
<1>6. ~Boot /\ ~OpenMain /\ ~WriteMain /\ ~HashMain /\ ~OpenMd5 /\ ~WriteMd5 /\ ~VerifyMd5
  BY <1>1 DEF Boot, OpenMain, WriteMain, HashMain, OpenMd5, WriteMd5, VerifyMd5, RemoveLabels
<1>7. NextRemoval => Return("true")
  BY <1>3 DEF NextRemoval
<1>8. ~Return("false")
  BY <1>2 DEF Return
<1>9. ListFiles \/ RemoveMain \/ RemoveMd5 => Return("true")
  BY <1>3, <1>4, <1>7, <1>8 DEF ListFiles, RemoveMain, RemoveMd5
<1>10. QED
  BY <1>5, <1>6, <1>9 DEF Next, Step

LEMMA RInvAlways == Spec => []RInv
<1>1. RInv /\ [Next]_vars => RInv'
  BY NextRInv
<1>2. QED
  BY <1>1, InitRInv, PTL DEF Spec

\* deleteFile and deleteAllFiles answer true, on a mounted partition, only when
\* nothing is left to load but files that this very call missed, as a lookup of
\* each of their parts failed or the list did not show them; with lookups and
\* lists that do not fail, nothing at all.  For any names, on both drivers, in
\* every mode, whatever earlier calls left of the files.
THEOREM DeletedCorrect == Spec => TrueMeansDeleted
<1>1. RInv /\ [Next]_vars => [DeletedWhenTrue]_vars
  <2> SUFFICES ASSUME RInv, Next, call # NoCall, answer'.kind = "true", mounted,
                      call.kind \in {"delete", "deleteAll"}
               PROVE  DeletedNow
    BY DEF DeletedWhenTrue, DeletedNow
  <2>1. (ListFiles \/ RemoveMain \/ RemoveMd5) /\ Return("true")
    BY TrueRemovals
  <2>2. QED
    BY <2>1, ListFilesKeepsRemoval, RemoveMainKeepsRemoval, RemoveMd5KeepsRemoval
<1>2. QED
  BY <1>1, RInvAlways, PTL DEF Spec, TrueMeansDeleted

-----------------------------------------------------------------------------
(* MODE_USE_MD5 on a trustworthy driver implements CheckedStore.           *)

PInv == LInv /\ RInv /\ mode = "MD5"

\* What can be loaded is what the digest certifies.
LEMMA StoreIsCertified ==
  ASSUME IInv', mode' = "MD5", NEW n \in Names
  PROVE  Contents'[n] \in {Certificates'[n], Unreadable}
<1> DEFINE d == data'[n]
<1>1. d \in DataFile
  BY DEF IInv, TypeOK
<1>2. CanRead(d) => d \in Seq(DataPiece)
  BY <1>1 DEF CanRead, IdfCanRead, ArduinoCanRead, DataFile
<1>3. \/ Contents'[n] = Unreadable
      \/ CanRead(d) /\ sum'[n] = <<Md5(d)>> /\ Contents'[n] = d
  BY DEF Contents, Store
<1>4. ASSUME CanRead(d), sum'[n] = <<Md5(d)>> PROVE Certificates'[n] = d
  <2>1. Md5(d) \in Digest /\ Md5(d) \in DigestPiece /\ Md5(d).md5 = d
    BY <1>2, <1>4, PieceTypes DEF Md5
  <2>2. <<Md5(d)>> \in Seq(DigestPiece) /\ Len(<<Md5(d)>>) = 1 /\ <<Md5(d)>>[1] = Md5(d)
    BY <2>1
  <2>3. sum'[n] # Absent /\ Len(sum'[n]) = 1 /\ sum'[n][1] \in Digest /\ sum'[n][1].md5 = d
    BY <1>4, <2>1, <2>2, ContentAssumption
  <2>4. QED
    BY <2>3 DEF Certificates, Certified
<1>5. QED
  BY <1>3, <1>4

LEMMA AllAsBefore ==
  ASSUME data' = data, sum' = sum, mode' = mode
  PROVE  Contents' = Contents /\ Certificates' = Certificates
<1>1. \A n \in Names : Store(n)' = Store(n) /\ Certified(n)' = Certified(n)
  BY LoadedAsBefore DEF Certified
<1>2. QED
  BY <1>1 DEF Contents, Certificates

\* After formatting.
LEMMA NothingLeft ==
  ASSUME IInv', Formatted
  PROVE  Contents' = Promise!Nothing /\ Certificates' = Promise!Nothing
<1>1. \A n \in Names : Contents'[n] = Unreadable
  BY NothingToLoadNext DEF Formatted
<1>2. \A n \in Names : Certified(n)' = Unreadable
  BY DEF Formatted, Certified
<1>3. Contents' = [n \in Names |-> Contents'[n]]
  BY DEF Contents
<1>4. QED
  BY <1>1, <1>2, <1>3 DEF Certificates, Promise!Nothing

\* What a write may do to the files it is about.
LEMMA WriteSpoils ==
  ASSUME PInv, IInv', mode' = mode, call \in WriteCalls,
         \A n \in Names \ {call.name} : data'[n] = data[n] /\ sum'[n] = sum[n],
         \/ Certificates'[call.name] \in {Certificates[call.name], Unreadable}
         \/ Fulfils(call, Certificates'[call.name])
  PROVE  Promise!Spoil(call)
<1>1. Promise!Writes(call) /\ call.kind # "deleteAll"
  BY DEF Promise!Writes, WriteCalls
<1>2. \A n \in Names : Contents'[n] \in {Certificates'[n], Unreadable}
  BY StoreIsCertified DEF PInv
<1>3. \A n \in Names \ {call.name} :
        Contents'[n] = Contents[n] /\ Certificates'[n] = Certificates[n]
  BY LoadedAsBefore
<1>4. QED
  BY <1>1, <1>2, <1>3 DEF Promise!Spoil, Promise!IsAbout

\* What a removal may do to them.
LEMMA RemovalSpoils ==
  ASSUME PInv, IInv', mode' = mode, call \in RemoveCalls, NEW h \in Names,
         call.kind = "delete" => h = call.name,
         \A n \in Names \ {h} : data'[n] = data[n] /\ sum'[n] = sum[n],
         data'[h] \in {data[h], Absent}, sum'[h] \in {sum[h], Absent}
  PROVE  Promise!Spoil(call)
<1>1. ~Promise!Writes(call) /\ call.kind \in {"delete", "deleteAll"}
  BY DEF Promise!Writes, RemoveCalls
<1>2. \A n \in Names \ {h} :
        Contents'[n] = Contents[n] /\ Certificates'[n] = Certificates[n]
  BY LoadedAsBefore
<1>3. Contents'[h] \in {Contents[h], Unreadable}
  <2>1. CASE data'[h] = Absent \/ sum'[h] = Absent
    BY <2>1, NothingToLoadNext DEF PInv
  <2>2. CASE data'[h] = data[h] /\ sum'[h] = sum[h]
    BY <2>2, LoadedAsBefore
  <2>3. QED
    BY <2>1, <2>2
<1>4. Certificates'[h] \in {Certificates[h], Unreadable}
  BY DEF Certificates, Certified
<1>5. QED
  BY <1>1, <1>2, <1>3, <1>4 DEF Promise!Spoil, Promise!IsAbout

\* How a step of a call appears to the caller.
LEMMA CallStep ==
  ASSUME call # NoCall, Promise!Spoil(call), missed' \subseteq Promise!MayBeMissed(call),
         \/ UNCHANGED <<mounted, call, answer>>
         \/ Return("false")
         \/ Return("true") /\ Promise!Kept(call)
  PROVE  Promise!Next
<1>1. CASE UNCHANGED <<mounted, call, answer>>
  BY <1>1 DEF Promise!Next, Promise!Work
<1>2. CASE Return("false")
  BY <1>2 DEF Return, disk, Answer, Promise!Answer, Promise!Next, Promise!Reply
<1>3. CASE Return("true") /\ Promise!Kept(call)
  BY <1>3 DEF Return, disk, Answer, Promise!Answer, Promise!Next, Promise!Reply
<1>4. QED
  BY <1>1, <1>2, <1>3

\* What the digest file certifies when its write ended, failed or was cut off.
LEMMA DigestWritten ==
  ASSUME NEW n \in Names, data[n] \in Seq(DataPiece),
         sum'[n] \in {<<>>, <<Md5(data[n])>>, <<Torn(Md5(data[n]))>>}
  PROVE  Certificates'[n] \in {Unreadable, data[n]}
<1> DEFINE d == data[n]
<1>1. Certificates'[n] = Certified(n)'
  BY DEF Certificates
<1>2. CASE sum'[n] = <<>>
  BY <1>1, <1>2 DEF Certified
<1>3. CASE sum'[n] = <<Md5(d)>>
  <2>1. Md5(d).md5 = d
    BY DEF Md5
  <2>2. <<Md5(d)>>[1] = Md5(d)
    OBVIOUS
  <2>3. Certified(n)' \in {Unreadable, d}
    BY <1>3, <2>1, <2>2 DEF Certified
  <2>4. QED
    BY <1>1, <2>3
<1>4. CASE sum'[n] = <<Torn(Md5(d))>>
  <2>1. Torn(Md5(d)) \notin Digest
    BY DEF Torn, Digest
  <2>2. <<Torn(Md5(d))>>[1] = Torn(Md5(d))
    OBVIOUS
  <2>3. Certified(n)' = Unreadable
    BY <1>4, <2>1, <2>2 DEF Certified
  <2>4. QED
    BY <1>1, <2>3
<1>5. QED
  BY <1>2, <1>3, <1>4

\* The write of the digest, complete, failed or cut off.
LEMMA DigestSpoils ==
  ASSUME Trustworthy, PInv, pc = "writeMd5", IInv', mode' = mode, data' = data,
         NEW s \in CutOff(sum[call.name], md5), sum' = [sum EXCEPT ![call.name] = s]
  PROVE  Promise!Spoil(call)
<1> DEFINE n == call.name
           d == data[n]
<1>1. pc \in LoopLabels /\ LInv
  BY DEF LoopLabels, PInv
<1>2. call \in WriteCalls /\ n \in Names /\ sum \in [Names -> DigestFile]
  BY <1>1, InLoop
<1>3. CanRead(d) /\ Fulfils(call, d) /\ d \in Seq(DataPiece)
  <2>1. CanRead(d) /\ Fulfils(call, d)
    BY <1>1, AfterWrite, TrustedWritten
  <2>2. QED
    BY <1>2, <2>1, FileTypes DEF PInv, LInv
<1>4. sum[n] = <<>> /\ md5 \in {<<>>, <<Md5(d)>>}
  BY <1>1 DEF LInv, TurnInvariant
<1>5. s \in {<<>>, <<Md5(d)>>, <<Torn(Md5(d))>>}
  <2>1. md5 \in Seq(Digest) /\ <<>> \o md5 = md5
    BY <1>4, ConcatEmptySeq DEF PInv, LInv, IInv, TypeOK
  <2>2. s = md5 \/ s = <<>> \/ \E i \in DOMAIN md5 : s = Append(<<>>, Torn(md5[i]))
    BY <1>4, <2>1 DEF CutOff, Partial
  <2>3. CASE md5 = <<>>
    BY <2>2, <2>3
  <2>4. CASE md5 = <<Md5(d)>>
    <3>1. DOMAIN md5 = {1} /\ md5[1] = Md5(d) /\ \A e : Append(<<>>, e) = <<e>>
      BY <2>4
    <3>2. QED
      BY <2>2, <2>4, <3>1
  <2>5. QED
    BY <1>4, <2>3, <2>4
<1>6. sum'[n] = s /\ \A m \in Names \ {n} : sum'[m] = sum[m] /\ data'[m] = data[m]
  BY <1>2
<1>7. Certificates'[n] \in {Unreadable, d}
  BY <1>2, <1>3, <1>5, <1>6, DigestWritten
<1>8. QED
  BY <1>2, <1>3, <1>6, <1>7, WriteSpoils

\* A step of the loop that leaves the digests alone.
LEMMA SumKeptSpoils ==
  ASSUME PInv, pc \in LoopLabels, IInv', mode' = mode, sum' = sum,
         \A n \in Names \ {call.name} : data'[n] = data[n]
  PROVE  Promise!Spoil(call)
<1>1. call \in WriteCalls /\ call.name \in Names
  BY InLoop DEF PInv
<1>2. Certificates'[call.name] = Certificates[call.name]
  BY <1>1 DEF Certificates, Certified
<1>3. QED
  BY <1>1, <1>2, WriteSpoils

\* The call in progress is no sentinel.
LEMMA InCall ==
  ASSUME PInv, pc \in LoopLabels \cup RemoveLabels \cup {"listFiles"}
  PROVE  call # NoCall
<1>1. [kind |-> "deleteAll"] \in RemoveCalls
  BY DEF RemoveCalls
<1>2. QED
  BY <1>1, CallAssumption DEF PInv, LInv, IInv, ControlInvariant, Calls

LEMMA LoopMaps ==
  ASSUME Trustworthy, PInv, OpenMain \/ WriteMain \/ HashMain \/ OpenMd5 \/ WriteMd5 \/ VerifyMd5
  PROVE  Promise!Next
<1>1. pc \in LoopLabels /\ call # NoCall /\ mode = "MD5" /\ LInv
  BY InCall DEF OpenMain, WriteMain, HashMain, OpenMd5, WriteMd5, VerifyMd5, LoopLabels, PInv
<1>2. missed' \subseteq Promise!MayBeMissed(call)
  BY <1>1 DEF PInv, RInv, RemovalInvariant, OpenMain, WriteMain, HashMain, OpenMd5, WriteMd5,
     VerifyMd5
<1>3. IInv' /\ data \in [Names -> DataFile] /\ sum \in [Names -> DigestFile] /\ call.name \in Names
  BY <1>1, InLoop, OpenMainKeeps, WriteMainKeeps, HashMainKeeps, OpenMd5Keeps, WriteMd5Keeps,
     VerifyMd5Keeps DEF LInv
<1>4. /\ \A label : Goto(label) => mode' = mode /\ UNCHANGED <<mounted, call, answer>>
      /\ \A kind : Return(kind) => mode' = mode
      /\ NextTry => mode' = mode /\ (UNCHANGED <<mounted, call, answer>> \/ Return("false"))
  BY DEF NextTry, Goto, Return, disk
<1>5. CASE OpenMain \/ WriteMain \/ HashMain
  <2>1. /\ sum' = sum
        /\ data' = data \/ \E f : data' = [data EXCEPT ![call.name] = f]
        /\ NextTry \/ \E label : Goto(label)
    BY <1>1, <1>5 DEF OpenMain, WriteMain, HashMain, files
  <2>2. Promise!Spoil(call)
    BY <1>1, <1>3, <1>4, <2>1, SumKeptSpoils
  <2>3. QED
    BY <1>1, <1>4, <1>2, <2>1, <2>2, CallStep
<1>6. CASE OpenMd5
  <2>1. data' = data /\ (NextTry \/ \E label : Goto(label))
    BY <1>6 DEF OpenMd5, files
  <2>2. sum' = sum \/ sum' = [sum EXCEPT ![call.name] = <<>>]
    BY <1>6 DEF OpenMd5, files, Opened
  <2>3. Promise!Spoil(call)
    <3>1. CASE sum' = sum
      BY <1>1, <1>3, <1>4, <2>1, <3>1, SumKeptSpoils
    <3>2. CASE sum' = [sum EXCEPT ![call.name] = <<>>]
      <4>1. sum'[call.name] = <<>> /\ \A n \in Names \ {call.name} : sum'[n] = sum[n]
        BY <1>3, <3>2
      <4>2. Certificates'[call.name] = Unreadable
        BY <1>3, <4>1 DEF Certificates, Certified
      <4>3. QED
        BY <1>1, <1>3, <1>4, <2>1, <4>1, <4>2, WriteSpoils, InLoop
    <3>3. QED
      BY <2>2, <3>1, <3>2
  <2>4. QED
    BY <1>1, <1>4, <1>2, <2>1, <2>3, CallStep
<1>7. CASE WriteMd5
  <2>1. PICK o \in WriteOutcomes(sum[call.name], md5) :
          /\ sum' = [sum EXCEPT ![call.name] = o.file]
          /\ NextTry \/ \E label : Goto(label)
    BY <1>7 DEF WriteMd5
  <2>2. pc = "writeMd5" /\ data' = data
    BY <1>7 DEF WriteMd5
  <2>3. o.file \in CutOff(sum[call.name], md5)
    <3>1. sum[call.name] = <<>> /\ md5 \in Seq(Digest)
      BY <1>1, <2>2 DEF LInv, TurnInvariant, IInv, TypeOK
    <3>2. sum[call.name] \in Seq(DigestPiece) /\ Digest \subseteq DigestPiece
      BY <3>1, PieceTypes
    <3>3. o.file = sum[call.name] \o md5 \/ o.file \in Partial(sum[call.name], md5)
      BY <3>1, <3>2, DriverWrites
    <3>4. QED
      BY <3>3 DEF CutOff
  <2>4. Promise!Spoil(call)
    BY <1>3, <1>4, <2>1, <2>2, <2>3, DigestSpoils
  <2>5. QED
    BY <1>1, <1>4, <1>2, <2>1, <2>4, CallStep
<1>8. CASE VerifyMd5
  <2>1. data' = data /\ sum' = sum /\ (Return("true") \/ NextTry)
    BY <1>8 DEF VerifyMd5, files
  <2>2. Promise!Spoil(call)
    BY <1>1, <1>3, <1>4, <2>1, SumKeptSpoils
  <2>3. Return("true") => Promise!Kept(call)
    <3>1. Return("true") => \/ Fulfils(call, Contents'[call.name])
                            \/ MayMishash /\ md5 = <<>>
      <4>1. Next /\ call.kind \in {"save", "append"}
        BY <1>1, <1>8, InLoop DEF Next, Step
      <4>2. Return("true") => answer'.kind = "true" /\ answer' # answer
        BY <1>1 DEF Return, Answer, LInv, IInv, ControlInvariant, LoopLabels
      <4>3. QED
        BY <1>1, <4>1, <4>2, NextStored DEF StoredWhenTrue, vars
    <3>2. mounted /\ call \in WriteCalls
      BY <1>1, <1>8, InLoop DEF VerifyMd5, LInv, IInv, ControlInvariant, LoopLabels
    <3>3. Promise!Writes(call) /\ call.kind # "delete" /\ call.kind # "deleteAll"
      BY <3>2 DEF Promise!Writes, WriteCalls
    <3>4. ASSUME Return("true"), md5 = <<>> PROVE Certificates'[call.name] = Unreadable
      <4>1. sum'[call.name] = <<>>
        BY <1>1, <1>8, <2>1, <3>4, VerifyMd5Returns
      <4>2. QED
        BY <1>3, <4>1 DEF Certificates, Certified
    <3>5. QED
      BY <3>1, <3>2, <3>3, <3>4 DEF Promise!Kept
  <2>4. QED
    BY <1>1, <1>4, <1>2, <2>1, <2>2, <2>3, CallStep
<1>9. QED
  BY <1>5, <1>6, <1>7, <1>8

LEMMA RemovalMaps ==
  ASSUME PInv, RemoveMain \/ RemoveMd5
  PROVE  Promise!Next
<1> DEFINE h == Head(todo)
<1>1. pc \in RemoveLabels /\ call # NoCall /\ RInv
  BY InCall DEF RemoveMain, RemoveMd5, RemoveLabels, PInv
<1>2. IInv' /\ data \in [Names -> DataFile] /\ sum \in [Names -> DigestFile] /\ h \in Names
      /\ call \in RemoveCalls /\ call.kind \in {"delete", "deleteAll"}
      /\ (call.kind = "delete" => h = call.name)
  BY <1>1, InRemoval, RemoveMainKeeps, RemoveMd5Keeps DEF RInv
<1>3. /\ \A label : Goto(label) => mode' = mode /\ UNCHANGED <<mounted, call, answer>>
      /\ \A kind : Return(kind) => mode' = mode
      /\ NextRemoval => mode' = mode /\ (UNCHANGED <<mounted, call, answer>> \/ Return("true"))
  BY DEF NextRemoval, Goto, Return, disk
<1>4. /\ \/ /\ sum' = sum
            /\ \E o \in Removals(data, h) : data' = [data EXCEPT ![h] = o.file]
         \/ /\ data' = data
            /\ \E o \in Removals(sum, h) : sum' = [sum EXCEPT ![h] = o.file]
      /\ NextRemoval \/ Return("false") \/ \E label : Goto(label)
  <2>1. CASE RemoveMain
    BY <2>1 DEF RemoveMain
  <2>2. CASE RemoveMd5
    BY <2>2 DEF RemoveMd5
  <2>3. QED
    BY <2>1, <2>2
<1>5. /\ \A n \in Names \ {h} : data'[n] = data[n] /\ sum'[n] = sum[n]
      /\ data'[h] \in {data[h], Absent} /\ sum'[h] \in {sum[h], Absent}
  BY <1>2, <1>4, RemovalsType
<1>6. Promise!Spoil(call)
  BY <1>2, <1>3, <1>4, <1>5, RemovalSpoils
<1>7. Return("true") => Promise!Kept(call)
  <2>1. ~Promise!Writes(call)
    BY <1>2 DEF Promise!Writes
  <2>2. Return("true") => DeletedNow
    BY <1>1, RemoveMainKeepsRemoval, RemoveMd5KeepsRemoval
  <2>3. CASE call.kind = "delete"
    <3>1. call.kind # "deleteAll"
      BY <2>3
    <3>2. QED
      BY <2>1, <2>2, <2>3, <3>1 DEF DeletedNow, Promise!Kept, GoneOrMissed, Promise!GoneOrMissed
  <2>4. CASE call.kind = "deleteAll"
    <3>1. call.kind # "delete"
      BY <2>4
    <3>2. QED
      BY <2>1, <2>2, <2>4, <3>1 DEF DeletedNow, Promise!Kept, GoneOrMissed, Promise!GoneOrMissed
  <2>5. QED
    BY <1>2, <2>3, <2>4
<1>8. missed' \subseteq Promise!MayBeMissed(call)
  BY <1>1, MissedMay DEF RemoveMain, RemoveMd5
<1>9. QED
  BY <1>1, <1>3, <1>4, <1>6, <1>7, <1>8, CallStep

LEMMA ListMaps ==
  ASSUME PInv, ListFiles
  PROVE  Promise!Next
<1>1. /\ pc = "listFiles" /\ call # NoCall /\ call = [kind |-> "deleteAll"] /\ RInv
      /\ data' = data /\ sum' = sum /\ IInv
  BY InCall DEF ListFiles, files, PInv, LInv, IInv, ControlInvariant
<1>2. IInv' /\ mode' = mode /\ (Return("true") \/ UNCHANGED <<mounted, call, answer>>)
  BY <1>1, ListFilesKeeps DEF ListFiles, Return, disk
<1>3. Promise!Spoil(call)
  <2>1. Contents' = Contents /\ Certificates' = Certificates
    BY <1>1, <1>2, AllAsBefore
  <2>2. QED
    BY <1>1, <2>1 DEF Promise!Spoil, Promise!Writes
<1>4. missed' \subseteq Promise!MayBeMissed(call) /\ (Return("true") => DeletedNow)
  BY <1>1, ListFilesKeepsRemoval
<1>5. Return("true") => Promise!Kept(call)
  BY <1>1, <1>4 DEF DeletedNow, Promise!Kept, Promise!Writes, GoneOrMissed, Promise!GoneOrMissed
<1>6. QED
  BY <1>1, <1>2, <1>3, <1>4, <1>5, CallStep

LEMMA LoadMaps ==
  ASSUME PInv, NEW n \in Names, LoadContentFromFile(n)
  PROVE  Promise!Load(n)
<1> DEFINE s == Contents[n]
<1>1. IInv /\ RInv /\ mode = "MD5" /\ s = Store(n)
  BY DEF PInv, LInv, Contents
<1>2. PICK a : /\ AnswerAtOnce(a)
               /\ \/ DoesFileExist(n) /\ a \in LoadInMd5Mode(n)
                  \/ (~DoesFileExist(n) \/ MayMisread) /\ a = Answer("false")
  BY <1>1 DEF LoadContentFromFile, MayMisread
<1>3. /\ call = NoCall /\ call' = call /\ mounted' = mounted /\ answer' = a /\ missed' = missed
      /\ Contents' = Contents /\ Certificates' = Certificates
  BY <1>1, <1>2, AllAsBefore DEF AnswerAtOnce, files, disk, IInv, ControlInvariant
<1>4. ASSUME a = Answer("false"), ~mounted \/ s = Unreadable \/ MayMisread
      PROVE  Promise!Load(n)
  BY <1>3, <1>4 DEF Promise!Load, Answer, Promise!Answer
<1>5. ASSUME a = Loaded(s), mounted, s # Unreadable PROVE Promise!Load(n)
  BY <1>3, <1>5 DEF Promise!Load, Loaded
<1>6. CASE ~DoesFileExist(n)
  BY <1>1, <1>2, <1>4, <1>6, Unlisted
<1>7. CASE MayMisread /\ a = Answer("false")
  BY <1>4, <1>7
<1>8. CASE DoesFileExist(n) /\ a \in LoadInMd5Mode(n)
  <2>1. mounted /\ View(data, n) = data[n] /\ View(sum, n) = sum[n]
    BY <1>1, <1>8 DEF DoesFileExist, View
  <2>2. PICK m \in ReadOutcomes(sum[n]), r \in ReadOutcomes(data[n]) :
          a = IF m.ok /\ r.ok /\ <<Md5(r.text)>> = m.text
              THEN Loaded(r.text) ELSE Answer("false")
    BY <1>2, <1>8, <2>1 DEF LoadInMd5Mode
  <2>3. CASE m.ok /\ r.ok /\ <<Md5(r.text)>> = m.text
    <3>1. r.text = data[n] /\ CanRead(data[n]) /\ m.text = sum[n]
      BY <2>3, ReadOutcomesType
    <3>2. data[n] \in Seq(DataPiece) /\ s = data[n]
      BY <1>1, <2>3, <3>1, FileTypes DEF Store
    <3>3. QED
      BY <1>5, <2>1, <2>2, <2>3, <3>1, <3>2, ManipulatorAssumption
  <2>4. CASE ~(m.ok /\ r.ok /\ <<Md5(r.text)>> = m.text)
    <3>1. s = Unreadable \/ MayMisread
      <4>1. SUFFICES ASSUME ~MayMisread, s # Unreadable PROVE FALSE
        OBVIOUS
      <4>2. CanRead(data[n]) /\ sum[n] = <<Md5(data[n])>>
        BY <1>1, <4>1 DEF Store
      <4>3. CanRead(sum[n])
        <5>1. Md5(data[n]) \in DigestPiece
          BY <1>1, <4>2, FileTypes, PieceTypes
        <5>2. <<Md5(data[n])>> \in Seq(DigestPiece) /\ <<Md5(data[n])>> # <<>>
          BY <5>1
        <5>3. QED
          BY <4>2, <5>2, ContentAssumption DEF CanRead, IdfCanRead, ArduinoCanRead
      <4>4. m = GotText(sum[n]) /\ r = GotText(data[n])
        BY <4>1, <4>2, <4>3, Zenon DEF ReadOutcomes
      <4>5. QED
        BY <2>4, <4>2, <4>4 DEF GotText
    <3>2. QED
      BY <1>4, <2>2, <2>4, <3>1
  <2>5. QED
    BY <2>3, <2>4
<1>9. QED
  BY <1>2, <1>6, <1>8, <1>7

LEMMA RequestMaps ==
  ASSUME PInv, Request
  PROVE  Promise!Next
<1>1. mode = "MD5" /\ RInv /\ IInv /\ (pc = "idle" => call = NoCall)
  BY DEF PInv, LInv, IInv, ControlInvariant
<1>2. ASSUME NEW c, NEW first, Accept(c, first), UNCHANGED <<mode, files, disk>>
      PROVE  /\ call = NoCall /\ call' = c /\ answer' = Promise!Answer("pending")
             /\ mounted' = mounted /\ Contents' = Contents /\ Certificates' = Certificates
             /\ missed' = {}
  BY <1>1, <1>2, AllAsBefore DEF Accept, files, disk, Answer, Promise!Answer
<1>3. ASSUME NEW kind \in {"save", "append"}, NEW n \in Names, NEW t \in Texts, Write(kind, n, t)
      PROVE  Promise!Ask
  <2>1. Contents[n] = Store(n)
    BY DEF Contents
  <2>2. Accept([kind |-> kind, name |-> n, text |-> t, seen |-> Contents[n]], "openMain")
        /\ UNCHANGED <<mode, files, disk>>
    BY <1>3, <2>1 DEF Write
  <2>3. QED
    BY <1>2, <2>2 DEF Promise!Ask
<1>4. ASSUME NEW n \in Names, DeleteFile(n) PROVE Promise!Ask
  <2>1. Accept([kind |-> "delete", name |-> n], "removeMain") /\ UNCHANGED <<mode, files, disk>>
    BY <1>1, <1>4 DEF DeleteFile
  <2>2. QED
    BY <1>2, <2>1 DEF Promise!Ask
<1>5. ASSUME DeleteAllFiles PROVE Promise!Ask
  <2>1. Accept([kind |-> "deleteAll"], "listFiles") /\ UNCHANGED <<mode, files, disk>>
    BY <1>5 DEF DeleteAllFiles
  <2>2. QED
    BY <1>2, <2>1 DEF Promise!Ask
<1>6. ASSUME Format PROVE Promise!Format
  <2>1. IInv' /\ call' = call /\ call = NoCall /\ mode' = mode /\ missed' = missed
    BY <1>1, <1>6, FormatKeeps DEF Format
  <2>2. UNCHANGED files => Contents' = Contents /\ Certificates' = Certificates
    BY <2>1, AllAsBefore DEF files
  <2>3. Formatted => Contents' = Promise!Nothing /\ Certificates' = Promise!Nothing
    BY <2>1, NothingLeft
  <2>4. QED
    BY <1>6, <2>1, <2>2, <2>3 DEF Format, Promise!Format, Answer, Promise!Answer
<1>7. ~SaveInMd5BackupMode
  BY <1>1 DEF SaveInMd5BackupMode
<1>8. QED
  BY <1>3, <1>4, <1>5, <1>6, <1>7, LoadMaps
     DEF Request, SaveContentToFile, AppendContentToFile, Promise!Next

LEMMA BootMaps ==
  ASSUME PInv, Boot
  PROVE  Promise!Next
<1>1. /\ call = NoCall /\ ~mounted /\ IInv' /\ mounted' \in BOOLEAN
      /\ mode' = mode /\ call' = call /\ answer' = answer /\ missed' = missed
      /\ UNCHANGED files \/ Formatted
  BY BootKeeps DEF Boot, PInv, LInv, RInv, IInv, TypeOK, ControlInvariant, RemovalInvariant,
     IdfInitialize, ArduinoInitialize, Mount
<1>2. \/ Contents' = Contents /\ Certificates' = Certificates
      \/ Contents' = Promise!Nothing /\ Certificates' = Promise!Nothing
  BY <1>1, AllAsBefore, NothingLeft DEF files
<1>3. QED
  BY <1>1, <1>2 DEF Promise!Next, Promise!Boot

LEMMA ResetMaps ==
  ASSUME Trustworthy, PInv, Reset
  PROVE  Promise!Next
<1>1. /\ call' = NoCall /\ mounted' = FALSE /\ mode' = mode /\ answer' = Promise!Answer("reset")
      /\ missed' = {} /\ IInv' /\ IInv /\ LInv
  BY ResetKeeps DEF Reset, PInv, LInv, Answer, Promise!Answer
<1>2. CASE UNCHANGED files
  <2>1. Contents' = Contents /\ Certificates' = Certificates
    BY <1>1, <1>2, AllAsBefore DEF files
  <2>2. Promise!Spoil(call)
    <3>1. \A n \in Names : Contents[n] \in {Certificates[n], Unreadable}
      BY <1>1, <2>1, StoreIsCertified DEF PInv
    <3>2. QED
      BY <2>1, <3>1 DEF Promise!Spoil
  <2>3. QED
    BY <1>1, <2>1, <2>2 DEF Promise!Next, Promise!Restart
<1>3. ASSUME Promise!Spoil(call), pc \in LoopLabels PROVE Promise!Next
  BY <1>1, <1>3, InCall DEF Promise!Next, Promise!Restart
<1>4. CASE pc = "writeMain" /\ sum' = sum
           /\ \E s \in CutOff(data[call.name], Printed(call.text)) :
                data' = [data EXCEPT ![call.name] = s]
  <2>1. pc \in LoopLabels /\ data \in [Names -> DataFile]
    BY <1>1, <1>4 DEF LoopLabels, IInv, TypeOK
  <2>2. \A n \in Names \ {call.name} : data'[n] = data[n]
    BY <1>4, <2>1
  <2>3. QED
    BY <1>1, <1>3, <1>4, <2>1, <2>2, SumKeptSpoils
<1>5. CASE pc = "writeMd5" /\ data' = data
           /\ \E s \in CutOff(sum[call.name], md5) : sum' = [sum EXCEPT ![call.name] = s]
  BY <1>1, <1>3, <1>5, DigestSpoils DEF LoopLabels
<1>6. QED
  BY <1>2, <1>4, <1>5 DEF Reset

LEMMA InitMaps == Init => Promise!Init
<1> SUFFICES ASSUME Init PROVE Promise!Init
  OBVIOUS
<1>1. \A n \in Names : Store(n) = Unreadable /\ Certified(n) = Unreadable
  BY InitIInv, NothingToLoad DEF Init, Certified
<1>2. QED
  BY <1>1 DEF Init, Promise!Init, Promise!Nothing, Contents, Certificates, Answer, Promise!Answer

LEMMA NextMaps ==
  ASSUME Trustworthy, PInv, [Next]_vars
  PROVE  [Promise!Next]_(Promise!vars)
<1>1. CASE UNCHANGED vars
  BY <1>1, AllAsBefore DEF vars, Promise!vars
<1>2. CASE Next
  BY <1>2, LoopMaps, ListMaps, RemovalMaps, RequestMaps, BootMaps, ResetMaps DEF Next, Step
<1>3. QED
  BY <1>1, <1>2

\* MODE_USE_MD5 on a trustworthy driver implements CheckedStore: whatever
\* fails that the driver reports, and whenever the chip restarts, a file comes
\* back with contents that a call asked for, or not at all, and every answer is
\* true; for any names, texts, calls and turns of the loop, on both drivers.
THEOREM Implements ==
  ASSUME Trustworthy, Modes = {"MD5"}
  PROVE  Spec => ImplementsCheckedStore
<1>1. Init => mode = "MD5"
  BY DEF Init
<1>2. mode = "MD5" /\ [Next]_vars => (mode = "MD5")'
  <2>1. Next => mode' = mode
    BY DEF Next, Step, Request, Boot, OpenMain, WriteMain, HashMain, OpenMd5, WriteMd5, VerifyMd5,
       ListFiles, RemoveMain, RemoveMd5, NextTry, NextRemoval, Goto, Return, SaveContentToFile,
       AppendContentToFile, Write, LoadContentFromFile, DeleteFile, DeleteAllFiles,
       SaveInMd5BackupMode, AnswerAtOnce, Format, Reset
  <2>2. QED
    BY <2>1 DEF vars
<1>3. LInv /\ RInv /\ mode = "MD5" /\ [Next]_vars => [Promise!Next]_(Promise!vars)
  BY NextMaps DEF PInv
<1>4. QED
  BY <1>1, <1>2, <1>3, InitMaps, LInvAlways, RInvAlways, PTL
     DEF Spec, ImplementsCheckedStore, Promise!Spec
=============================================================================
