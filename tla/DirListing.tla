---------------------------- MODULE DirListing ----------------------------
(***************************************************************************)
(* What filesList and countFiles of the drivers, and dataFilesList and     *)
(* countFilesInDirectory of SafeFileManipulator, make of a directory: a    *)
(* sequence of entries, in the order in which the file system lists them.  *)
(* The loops run step by step, "it" being the position of the iterator.    *)
(* A name is split as the code splits it, at its first '.'.  A directory   *)
(* that cannot be opened is listed as an empty one.                        *)
(***************************************************************************)
EXTENDS Naturals, Sequences
LOCAL INSTANCE SequencesExt

CONSTANTS
  Stems, Extensions,
  NoDot,       \* in place of the extension of a name without a dot
  MaxEntries   \* bound of the model: entries of the directory

ASSUME ListingAssumption == NoDot \notin {".d", ".m"} /\ MaxEntries \in Nat

Names == [stem : Stems, extension : Extensions \cup {NoDot}]
Entries == [name : Names, type : {"DT_REG", "DT_DIR"}]

VARIABLES
  directory,  \* what the file system lists
  mode,       \* _mode
  driver,     \* the class of _driver
  pc,         \* the loop in progress
  it,
  list,       \* ret of filesList, then allFilesList
  files,      \* what dataFilesList returns
  count       \* what countFilesInDirectory returns

listing == <<mode, driver, pc, it, list, files, count>>
listingVars == <<directory, listing>>

ListingInit ==
  /\ directory = <<>>
  /\ mode = "NORMAL" /\ driver = "IDF" /\ pc = "idle"
  /\ it = 1 /\ list = <<>> /\ files = <<>> /\ count = 0

\* A directory lists no name twice.
AddEntry ==
  /\ pc = "idle" /\ Len(directory) < MaxEntries
  /\ \E e \in Entries :
       /\ \A i \in DOMAIN directory : directory[i].name # e.name
       /\ directory' = Append(directory, e)
  /\ UNCHANGED listing

\* The calls of dataFilesList and countFilesInDirectory.  The mode with backups
\* answers an empty list and 0.
Call ==
  /\ pc = "idle"
  /\ mode' \in {"NORMAL", "MD5", "MD5_BACKUP"} /\ driver' \in {"IDF", "ARDUINO"}
  /\ pc' = IF mode' = "MD5_BACKUP" THEN "done" ELSE "reading"
  /\ UNCHANGED <<directory, it, list, files, count>>

-----------------------------------------------------------------------------
(* The loops.                                                              *)

\* SPIFFS_IDFDriver looks at the types of the entries, SPIFFSDriver takes what
\* openNextFile opens.
ListsEntry(entry) == driver = "IDF" => entry.type = "DT_REG"

\* Mutant: countFiles counts every entry.
CountsEveryEntry(entry) == TRUE

CountsEntry(entry) == driver = "IDF" => entry.type = "DT_REG"

\* filesList
Read ==
  /\ pc = "reading" /\ it <= Len(directory)
  /\ list' = IF ListsEntry(directory[it]) THEN Append(list, directory[it].name) ELSE list
  /\ it' = it + 1
  /\ UNCHANGED <<directory, mode, driver, pc, files, count>>

ReadEnds ==
  /\ pc = "reading" /\ it > Len(directory)
  /\ it' = 1
  /\ \/ mode = "NORMAL" /\ files' = list /\ pc' = "counting"
     \/ mode = "MD5" /\ files' = files /\ pc' = "keeping"
  /\ UNCHANGED <<directory, mode, driver, list, count>>

\* countFiles
CountNext ==
  /\ pc = "counting" /\ it <= Len(directory)
  /\ count' = IF CountsEntry(directory[it]) THEN count + 1 ELSE count
  /\ it' = it + 1
  /\ UNCHANGED <<directory, mode, driver, pc, list, files>>

CountEnds ==
  /\ pc = "counting" /\ it > Len(directory)
  /\ pc' = "done"
  /\ UNCHANGED <<directory, mode, driver, it, list, files, count>>

\* The first loop of dataFilesList.  Erasing moves the rest of the vector under
\* the iterator.
Keep ==
  /\ pc = "keeping" /\ it <= Len(list)
  /\ \/ list[it].extension = NoDot /\ list' = RemoveAt(list, it) /\ it' = it
     \/ list[it].extension # NoDot /\ list' = list /\ it' = it + 1
  /\ UNCHANGED <<directory, mode, driver, pc, files, count>>

KeepEnds ==
  /\ pc = "keeping" /\ it > Len(list)
  /\ pc' = "collecting" /\ it' = 1
  /\ UNCHANGED <<directory, mode, driver, list, files, count>>

FileName(name) == [name EXCEPT !.extension = NoDot]
Md5FileName(name) == [name EXCEPT !.extension = ".m"]

\* Mutant: the iterator moves on after an erasure too.
CollectSkipping ==
  /\ pc = "collecting" /\ it <= Len(list)
  /\ files' = IF list[it].extension = ".d" /\ Contains(list, Md5FileName(list[it]))
              THEN Append(files, FileName(list[it])) ELSE files
  /\ list' = IF list[it].extension = ".d" THEN RemoveAt(list, it) ELSE list
  /\ it' = it + 1
  /\ UNCHANGED <<directory, mode, driver, pc, count>>

\* The second loop.  The part of a string after its end, where there is no dot,
\* is an exception that nobody catches.
Collect ==
  /\ pc = "collecting" /\ it <= Len(list)
  /\ \/ /\ list[it].extension = NoDot
        /\ pc' = "aborted" /\ UNCHANGED <<it, list, files>>
     \/ /\ list[it].extension = ".d"
        /\ files' = IF Contains(list, Md5FileName(list[it]))
                    THEN Append(files, FileName(list[it])) ELSE files
        /\ list' = RemoveAt(list, it)
        /\ UNCHANGED <<it, pc>>
     \/ /\ list[it].extension \notin {".d", NoDot}
        /\ it' = it + 1
        /\ UNCHANGED <<pc, list, files>>
  /\ UNCHANGED <<directory, mode, driver, count>>

\* In MODE_USE_MD5, countFilesInDirectory answers the length of that list.
CollectEnds ==
  /\ pc = "collecting" /\ it > Len(list)
  /\ pc' = "done" /\ count' = Len(files)
  /\ UNCHANGED <<directory, mode, driver, it, list, files>>

ListingNext ==
  \/ AddEntry \/ Call \/ Read \/ ReadEnds \/ CountNext \/ CountEnds
  \/ Keep \/ KeepEnds \/ Collect \/ CollectEnds

ListingSpec == ListingInit /\ [][ListingNext]_listingVars

-----------------------------------------------------------------------------
(* Properties.                                                             *)

Listed(i) == i \in DOMAIN directory /\ ListsEntry(directory[i])

\* The positions of the entries that dataFilesList stands for: in MODE_USE_MD5
\* the data files whose digest file is listed too.
Wanted ==
  {i \in DOMAIN directory :
     /\ Listed(i)
     /\ mode = "MD5" =>
          /\ directory[i].name.extension = ".d"
          /\ \E j \in DOMAIN directory :
               Listed(j) /\ directory[j].name = Md5FileName(directory[i].name)}

\* The name by which a caller knows the file.
CallersName(i) ==
  IF mode = "MD5" THEN FileName(directory[i].name) ELSE directory[i].name

Increasing(f) == \A k, l \in DOMAIN f : k < l => f[k] < f[l]

\* dataFilesList answers these files, once each and in the order of the
\* directory, whatever else lies there; the loops that erase from the list they
\* walk over skip none, and leave no name that the second of them cannot split.
ListingComplete ==
  /\ pc # "aborted"
  /\ pc = "done" /\ mode # "MD5_BACKUP" =>
       \E f \in [DOMAIN files -> Wanted] :
         /\ Increasing(f)
         /\ \A i \in Wanted : \E k \in DOMAIN files : f[k] = i
         /\ \A k \in DOMAIN files : files[k] = CallersName(f[k])

\* The number of files is that of the names in the list, in every mode and for
\* both drivers, though they are computed by different loops.
CountsAgree == pc = "done" => count = Len(files)
=============================================================================
