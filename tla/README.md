# TLA+ verification of esp32_utils

`esp32_utils` is a library of C++ classes for the ESP32: files that survive
restarts, a UART with an idle detector, NVS access, an HTTP client, a web
server and a queued debug output. It has neither tests nor documents; the
models are read from its code (`src/src/*.cpp`, `src/inc/*.hpp`; the paths below
leave out `src/`).

Run a check with `tlc -workers 2 -config X.cfg M.tla`, a proof with `tlapm M.tla`.

## The system's parts

| part | state | operations | what makes it correct |
|---|---|---|---|
| `SafeFileManipulator` (`src/SafeFileManipulator.cpp`) | `_mode`; the files `<name>.d` and `<name>.m`, or `<name>` | save, append, load, exists, list, count, delete, deleteAll, format | an answer of *true* means that the operation took effect; whatever happened, loading yields text that was asked for, or fails |
| `SPIFFS_IDFDriver`, `SPIFFSDriver`, `AbstractFileSystemDriver` | the mounted partition, `_isReady` | initialize, format, write, append, read, delete, exists, filesList, countFiles, getFileMd5 | failures of the file system reach the caller |
| `Uart` (`src/Uart.cpp`), `AsyncFunctor` | `_eventQueue`, `_lastTimeDataReceived`, `_mutex`, the detector task | event task, idle detector, reads, `onDataReceived` callback | received data is announced when the line is quiet, and not before |
| `TimeUtils`, `ESP32Utils` | the millisecond clock, 32 bits | `nowMs`, `isPeriodPassed` | periods are right across the wrap of the clock |
| `NVS` | `_handle`, shared by all namespaces | open, read, write, erase, commit | *true* means stored; two tasks do not share a handle |
| `ESP32HttpClient`, `HttpRequest`, `HttpResponse` | the client, per request its status and response | GET, POST, event handler | events reach the request they are about; *true* means that the response holds what arrived of the answer, in order; no request stays pending |
| `Webserver` | `_server`, `_handlers`, `_errHandlers` | start, stop, setUriHandler, setErrorHandler, getContent | a handler is served, over stops and starts, or its refusal is reported; a content is the one that was sent |
| `ThreadSafeDbg` | `_dbgQueue` of 100 pieces, the allocated buffers | print, printLine, printX, setAllowPrint, printing task | each task's bytes come out once and in order; each buffer is freed once; no task waits for ever |
| `HttpUtils` | none | URL parsing | a URL is accepted when it is well formed, and taken apart without loss |
| `BatteryMeter` | the two voltages | voltage to per cent | the charge rises from 0 to 100 |
| `HttpCodes` | none | a table | |

How they interact: the manipulator owns a driver and calls it synchronously; the
drivers call SPIFFS. `Uart` runs three kinds of tasks: the event task (priority
12), the detector that the event task starts through `AsyncFunctor`, and the
tasks of the application that read, the callback among them. They share the
driver's ring buffer and `_lastTimeDataReceived`; the mutex covers the handling of
one event and `bytesAvailable`, neither the detector nor the reads.
`ThreadSafeDbg` connects the tasks that print with its printing task through one
queue of pointers. `Webserver` is called by the application, and `getContent` by
the task of the server library; the client's handler is called back by its
library, which finds the request through `user_data`. `HttpRequest` tests URLs with
`HttpUtils`. The other parts do not call each other, except for log output.

What is hard: restarts of the chip between two file operations and inside a
write; a retry loop whose turns leave residues; drivers that report failures
wrongly; the unlocked reads of the detector; a detector that is "running" while
it can no longer notice anything; a clock that wraps; pieces of several tasks in
one queue; a server that half started, and stops while a handler waits for a
silent client; a library that keeps a pointer to a request of the past.
`PROJECT.json` lists the hazards by line with the properties that cover each.

## Modules

| module | models |
|---|---|
| `FileDriver` | the two drivers as operators on one file: sets of outcomes of a write, read, hash, removal, under the faults in `Faults` |
| `SafeFileManipulator` | the manipulator on a driver: one action per driver call, calls and answers, boot, formatting, restarts |
| `CheckedStore` | the abstract specification: what MODE_USE_MD5 promises to a caller |
| `MCSafeFile` | instances for TLC |
| `SafeFileProofs` | theorems about the types and the control of `SafeFileManipulator`, its retry loop, and what an answer of true to a write means |
| `SafeFilePromiseProofs` | theorems about its deletions, and the refinement of `CheckedStore` |
| `Uart` | event queue and buffer, event task, detector, readers, clock |
| `MCUart` | instances for TLC |
| `UartProofs` | theorems about `Uart` |
| `NVS` | the operations of NVS as calls of the NVS library, made by several tasks |
| `MCNVS` | instances for TLC |
| `NVSProofs` | theorems about `NVS` |
| `ThreadSafeDbg` | producers, pieces, queue, buffers, printing task |
| `PrintStreams` | the abstract specification of `ThreadSafeDbg`: a stream of bytes per task |
| `ThreadSafeDbgProofs` | theorems about `ThreadSafeDbg`, and the refinement of `PrintStreams` |
| `Webserver` | the application's calls, the server's task, a client that pauses or leaves |
| `WebserverProofs` | theorems about `Webserver` |
| `ESP32HttpClient` | requests, the client, the library's exchanges and events |
| `ESP32HttpClientProofs` | theorems about `ESP32HttpClient` |
| `HttpUtils` | the functions on URLs |
| `DirListing` | the loops that list and count the files of a directory |
| `BatteryMeter` | the voltage in per cent |
| `LibraryProofs` | theorems about `HttpUtils`, `DirListing` and `BatteryMeter` |
| `MCLibrary` | the five components that meet no other as one instance for TLC |

### FileDriver

A text is a sequence of at most one piece (`<<>>` is the empty string), a file the
sequence of the pieces written to it, or `Absent`. A write cut short leaves a
`Torn` piece; a text that `fprintf`, given it as its format, would alter is stored
`Mangled` by `SPIFFS_IDFDriver`. MD5 is injective: collisions are not considered.
`Faults` selects what the C library and the flash may do; `Driver` selects the
implementation, with its own way of noticing: the IDF driver takes the negative
count of a failed `fprintf` for success and cannot read an empty file; the Arduino
driver compares counts; neither tests the result of closing the file. `deleteFile` and
`readEntireFileToString` look a file up first, with `stat` or `SPIFFS.exists`, and take
one that the lookup fails to show (fault `lookup`) for one that is not there: the
first answers true with the file left (`Removal`, field `missed`), the second false.
`filesList` answers an empty list for a directory that does not open, and ends at
the first entry that it cannot read (fault `list`).

### SafeFileManipulator

`pc` is the next driver call of the call in progress, `try`, `md5` and `todo` are the
locals `currentTry`, `mainFileMd5` and the list in `deleteAllFiles`; `data[n]` and
`sum[n]` are the two files of `n`. `OpenMain` to `VerifyMd5` are the five steps of
one turn of `saveInMd5Mode` (opening and writing are separate steps, since a
restart between them leaves an empty file); `saveInNormalMode` uses the first two.
`NextTry` is the loop's condition. Loading changes nothing and is one action with
all its outcomes. `deleteAllFiles` is `ListFiles`, which takes a list from
`DataFilesLists` (any part of the files there are, when listing may fail) and answers
true at once when it is empty, and then the steps of `deleteFile` for each name.
`missed` is history: the names of which the call in progress has found no part that
is there. `Format` removes every file, digests included. `Reset` may happen
anywhere, also in the middle of a write. Answers are recorded in `answer`.

Abstractions: one call at a time, since the class has no lock; a directory listing is
the set of names in some order (`dataFilesList` by its result, including its blindness
for names with a dot; `DirListing` has its loops); names are model values, `TooLong`
those that the file system refuses. `call.seen` records what the file held when an
append began; it is history, read by properties only.

### Uart

The driver's interrupt handler (external code) adds a burst to `rx` and posts an
event, which is dropped when the queue is full. The event task takes an event,
stamps the time, starts the detector if it is not running, or flushes the buffer
and resets the queue, in two steps. The detector reads the stamp twice (the test
for 0 and the argument; both unlocked), then the clock, then sleeps or calls the
callback. The clock counts modulo `Modulus`. The history variables `quiet`, `fresh`
and `lost` are read by properties only.

`Sleeps` holds the possible lengths of `vTaskDelay`, which on FreeRTOS lasts up to one
tick less than asked; `MaxLate` bounds for how long the scheduler may keep the
detector from running.

### NVS

`read`, `write` and `erase` are sequences of library calls: open, change and commit,
or measure and get, then close. The library (external) hands out numbered handles;
`field` is `_handle` of each object, `ret`, `length` and `result` are the locals. A change
may reach the flash before its commit, and does with it; a restart loses what did
not. A string is its size, which is what the two-step read depends on; a number
and a string under one tag replace each other. `author`, the task that last tried
to change a value, is history.

An object has one `_handle` for all its callers and no lock, so that tasks that share
an object can use each other's handles. Nothing in the class keeps them from it:
`OwnObjects`, each task having an object of its own, is an assumption on the
application, under which the properties are stated and proved.

### ThreadSafeDbg and PrintStreams

`print` and `printLine` enter `doPrint`, the loop of `Cut` (allocate and fill a
buffer) and `Send` (wait for room, queue the pointer); the printing task repeats
`Receive`, `PrintPiece`, `Delete`. `allowPrint` is tested when a call begins. The
bytes that a task asks for are numbered through all its messages, so that a piece is
an interval and the order of the output can be judged. `printX`, and with it
`printLine` of a text, writes past the queue: such lines are counted in `lines`, and
are not in the streams. `PrintStreams` promises that each task's bytes come out once each and
in order, and nothing about the order between tasks; `shown` maps to `output`, the
bytes that the printing task has put out.

### Webserver

`Start` and `RegisterNext` are `start` and its loop; the server serves while the loop
runs, and goes on when the loop ends in an error. `Stop` and `StopReturns` are
`httpd_stop`, which waits for the handler that is running. `_server` keeps the
handle of a stopped server, on which anything may happen (`RegisterResults`,
`Crash`). `getContent` receives parts to the start of its string; a timeout repeats the
receive and changes nothing, so that it is no step. The server library is external:
one task, `MaxUris` handlers, an error for a URI it has. `complete`, `refused`,
`wanted` and `parts` are history.

### ESP32HttpClient

A request is created, performed any number of times and destroyed; `Answer`,
`OnData`, `EndOfBody` and `ConnectionFails` are the external library inside
`esp_http_client_perform`: exchanges, each with a code and a body in parts,
redirections up to the limit, failures at any point. A body may end before all its
parts have arrived, and the library report a success all the same (`EndOfBody`): the
client looks at nothing but that result, and only logs the content length. So
`TrueMeansAnswered` says that the response ends with exactly what arrived of the
last exchange, from its first part and without gaps, and not that this is all.
 `OnData` is the event handler. A
part of a body carries the call and the exchange it came from, so that a property
can tell the answers apart. `Abort` is `ESP_ERROR_CHECK`, which restarts the chip.
Calls come one at a time: the class has one client and no lock.

### HttpUtils, DirListing, BatteryMeter

`HttpUtils` is the functions on one URL, a sequence of tokens, by positions as in
`std::string`; the properties compare their results with the URL's parts. The URL
grows by a token per step, so that every URL is reached.

`DirListing` runs the loops of `filesList`, `countFiles`, `dataFilesList` and
`countFilesInDirectory`, one turn of a loop per action, on a directory that was
filled entry by entry before. `it` is the iterator, `list` the vector that the two loops
of `dataFilesList` walk over and erase from; `files` and `count` are the answers. The
two drivers differ in what they list and count (`ListsEntry`, `CountsEntry`). A name
without a dot in the second loop would be an exception that nobody catches, `pc =
"aborted"`; `ListingComplete` says that it never is.

`BatteryMeter` computes the per cent of a voltage exactly, and the module says why the
code's float agrees with it. Three equal voltages are a division of zero by zero,
whose conversion to `uint8_t` is undefined: any of its values.

### MCLibrary

A behaviour of `MCLibrary` is a behaviour of one of five components: they share
no state and `side`, chosen in the initial state, says which one moves. It extends
their modules, whose definitions carry the names `Server...`, `Client...`, `Url...`,
`Listing...` and `Meter...` where they would meet.

## Runs

| run | what it shows | bounds and size |
|---|---|---|
| `arduino` | MD5 mode on `SPIFFSDriver` refines `CheckedStore`; the loop invariant; a true answer to a write; types | 2 names, 1 text, 3 calls, 2 turns, failing open, write, read, lookup, list, remove and mount, format, restarts; 190,000 states up to symmetry |
| `idf` | the same on `SPIFFS_IDFDriver` | 2 names (one too long), 2 texts (one mangled), 3 calls, 3 turns; failing open, read, lookup, list, remove and mount, format, restarts; 427,000 states |
| `modes` | NORMAL, MD5 and the stubs of the backup mode under all faults but a failing mount, the unnoticed ones included: what may be lost after a true answer, true answers of delete and deleteAll; every call returns | 3 names (one dotted, one too long), 2 turns, 3 calls; 1,103,000 states |
| `uart` | the only ways to lose data, and to announce too soon; the detector's polling ends | 3 bursts or faults, queue and buffer of 2, clock of 8 ms, period 3; 1,266,000 states |
| `nvs_tasks` | tasks do not meet in a handle, none is left open, a true answer is durable | 2 tasks, 2 storages, 1 tag, 1 number, 2 sizes, 3 calls, failing open, commit and get, restarts; 259,000 states |
| `dbg` | one owner per buffer, streams in order, no task waits for ever | 2 tasks, messages of 2 and 5 bytes, pieces of 2, a queue of 2, 2 calls each; 72,000 states |
| `library` | the properties of `Webserver`, `ESP32HttpClient`, `HttpUtils`, `DirListing` and `BatteryMeter` | 3 registrations on a server of 2, contents of 1 and 3 bytes; 2 requests, 2 calls, 2 redirections, 2 parts; 7 tokens; 3 entries; voltages up to 9; 565,000 states |

Why the bounds are enough: three calls let a save, an append or a delete be
interrupted or fail, and be followed by another that meets its leftovers and by
loads (which are not counted); the number of turns is the code's own, 3, in `idf`, and
2 in the other two, where the driver has more failures: a first turn leaves what
the second, the last, meets. A call is about one name;
a second name suffices to see that others are left alone, and two are needed to
stop `deleteAllFiles` half way. In `Uart`, three arrivals overflow the queue and the
buffer of 2, and put data into each of the windows: during the detector's
decision, its callback, between flush and reset. The clock of 8 ms wraps inside,
before and after a period of 3. In `NVS` two tasks and three calls put a write of
another task between any two library calls of a write, an erase or a read. In
`ThreadSafeDbg` a message is one piece exactly, or two and a rest, and both tasks
together fill the queue in the middle of their messages. In `Webserver` three
registrations overflow the server of two or repeat one of them, before, between
and after starts; a content of three comes in up to three parts. Two calls let
`ESP32HttpClient` perform a request again, or another after the first was destroyed.
Seven tokens hold a protocol, the marker, a host and a path with a second slash or
marker; in three entries each shape of a name stands before, between and after others,
and two in a row are erased; that two wanted files in MD5 mode, which are four entries,
come in their order is left to the proof.

`CheckedStore`'s `last`, the contents that the digest of a file certifies, matters:
a restart between the two files of a save or a delete leaves a digest without its
file, and a later call that happens to restore the certified contents makes them
loadable again. They are contents that were once asked for, and the specification
allows exactly that. It also makes an append to unreadable contents end in any
contents that end in the text: an append does not look at what is there, so it
certifies a torn file. After readable contents the result is those contents
followed by the text, perhaps several times or torn in between (`Extends`): the
residue of failed turns, at most one piece for each.

Five runs show disagreements of the code with what it says
(`findings` in `PROJECT.json`, each a TLC counterexample):

- `idf_format`: the text is used as a format string, and stored altered.
- `idf_delete_all`: `filesList` gives names that `deleteFile` does not find and
  reports as deleted.
- `uart_lost_wakeup`: data handled while the callback runs is not announced.
- `nvs_set_error`: a value that could not be set is reported as written.
- `web_content`: a content in two parts is returned with its end in place of its start.

More of them are written into the properties that hold. `Trustworthy` names the
faults under which a bad file is certified: `SPIFFS_IDFDriver` counts a failed
`fprintf` as a success, and both drivers ignore a failed close. The properties that
rest on it hold for all other faults, and `LostOnlyAtClose` says what is left under
these. `MayMishash` names a true answer for a file that cannot be loaded: the hash of a
file that is not found or not read is `""`, which `SPIFFSDriver` stores and verifies like a
digest; `TrueMeansStored` and `CheckedStore` except just that turn. `TrueMeansDeleted`
excepts what a delete has `missed`: a file whose lookup fails counts as deleted, and so
do the files that a listing does not show, all of them when the directory does not open.
`QuietWhenAnnounced` names a false announcement: for data in the last period before
the clock wraps, `isPeriodPassed` is true at once. `StartCompletes` says that a
handler registered twice fails every later start. `TrueMeansAnswered` promises a
body for itself only to a request that is performed once and not redirected, and no
whole body to any.

`CHECK_DEADLOCK` is on in all runs but `library`: a file system that has used up its
calls can still load and restart, time always passes, the chip may restart in
`NVS`, and `allowPrint` can be set. In `library` the inputs end at their bounds.

## Fairness

`SafeFileManipulator`: weak fairness of `Step`, the driver calls of the call in
progress and the boot: the calling task keeps running. Neither callers nor faults
nor restarts are fair. `Uart`: weak fairness of the clock, of the event task and of
the detector, each a FreeRTOS task that is scheduled; the end of the callback is
part of the detector, but `WatchingEndsInCallback` does not need it. The line and the
readers are not fair. The bound on arrivals makes the line fall silent, which the
property presupposes: while data keeps coming, no idle line is announced.

`ThreadSafeDbg`: weak fairness of the printing task and of each task that cuts; strong
fairness of `Send`, since a full queue disables it again and again, and FreeRTOS
wakes the task of highest priority that has waited longest. Among tasks of unequal
priority a task could starve; the model is about equals. `EveryTaskReturns`
presupposes that the printing task is started. `Webserver`: weak fairness of the
loop of `start`, of the return of `stop` and of a receive that can succeed or fail;
clients are not fair, and `ApplicationReturns` presupposes that the client does not
stay silent for ever, as the code repeats a receive that timed out without limit.
`ESP32HttpClient`: weak fairness of the library's steps, which its timeout bounds.

## Proofs

| theorem | states |
|---|---|
| `SafeFileProofs!ControlCorrect` | `Spec => []IInv` |
| `SafeFileProofs!TypeCorrect` | `Spec => []TypeOK` |
| `SafeFileProofs!LoopCorrect` | `Spec => []LoopInvariant` |
| `SafeFileProofs!StoredCorrect` | `Spec => TrueMeansStored` |
| `SafeFileProofs!LeftCorrect` | `Spec => LostOnlyAtClose` |
| `SafeFilePromiseProofs!DeletedCorrect` | `Spec => TrueMeansDeleted` |
| `SafeFilePromiseProofs!Implements` | `Spec => ImplementsCheckedStore`, if `Trustworthy` and `Modes = {"MD5"}` |
| `UartProofs!UartTypeCorrect` | `Spec => []TypeOK` |
| `UartProofs!NothingElseIsLost` | `Spec => []NothingLostElsewhere` |
| `UartProofs!AnnouncedCorrect` | `Spec => QuietWhenAnnounced` |
| `NVSProofs!ControlCorrect` | `Spec => []IInv` |
| `NVSProofs!TypeCorrect` | `Spec => []TypeOK` |
| `NVSProofs!HandlesCorrect` | `Spec => []HandlesBelong` |
| `NVSProofs!OwnKeysOnly` | `Spec => OnlyOwnKeys` |
| `NVSProofs!DurableCorrect` | `Spec => TrueMeansDurable`, if setting and erasing do not fail |
| `ThreadSafeDbgProofs!TypeCorrect` | `Spec => []TypeOK` |
| `ThreadSafeDbgProofs!OneOwnerEach` | `Spec => []OneOwner` |
| `ThreadSafeDbgProofs!Streams` | `Spec => ImplementsStreams` |
| `WebserverProofs!TypeCorrect` | `ServerSpec => []ServerTypeOK` |
| `WebserverProofs!NoneLost` | `ServerSpec => []ServedOrReported` |
| `WebserverProofs!ContentCorrect` | `ServerSpec => []ContentOfOnePart` |
| `WebserverProofs!StartCorrect` | `ServerSpec => StartCompletes` |
| `ESP32HttpClientProofs!TypeCorrect` | `ClientSpec => []ClientTypeOK` |
| `ESP32HttpClientProofs!CallerReached` | `ClientSpec => []EventsReachTheCaller` |
| `ESP32HttpClientProofs!Answered` | `ClientSpec => TrueMeansAnswered` |
| `LibraryProofs!ChargeCorrect` | `MeterSpec => []ChargeRises` |
| `LibraryProofs!AcceptsCorrect` | `UrlSpec => []UrlAccepted` |
| `LibraryProofs!TakenApartCorrect` | `UrlSpec => []UrlTakenApart` |
| `LibraryProofs!ListingCorrect` | `ListingSpec => []ListingComplete` |
| `LibraryProofs!CountCorrect` | `ListingSpec => []CountsAgree` |

They hold for all constants that satisfy the named assumptions: any finite set of
names, any texts, any number of turns, calls and tasks; any clock, queue, buffer and
table of handlers. The assumptions say that numbers are numbers and that sentinels
are no data: the contents of a missing file (`ContentAssumption`), no call
(`CallAssumption`), no request, client and response (`ClientAssumption`), no content
(`ServerAssumption`), no buffer, no dot in a name (`ListingAssumption`).
What a theorem assumes beside them is in the table and in its statement.

**Files.** `TypeOK` of the manipulator is not inductive: what a step does to a file
depends on the kind of call in progress. `ControlInvariant` ties the program counter
to the call, its RAM and the existence of its files, and `IInv` is both.
`TurnInvariant` is inductive relative to `IInv`, under every fault: it says at each
driver call what this turn has achieved (`Written`: the whole text, or less of it where
the driver cannot notice), what earlier turns have left (`Residue`), which digest is in
RAM, and that the digest file holds it when `VerifyMd5` reads it back. `TrueAnswers`
shows that only two steps answer true to a write. From there the two theorems part:
on a trustworthy driver `Written` leaves only the whole text, which is `LoopInvariant`
and `StoredCorrect`; on the others it is `LeftCorrect`.

`RemovalInvariant` says what the loop of `deleteAllFiles` has removed so far, that a name
that the file system refuses never gets a file, and that nothing is mounted at boot.
The second part is needed since `SPIFFS_IDFDriver` takes a name that it cannot look up
for a missing file, and answers true. A name is loadable no more, still on the list, or
missed; and a call misses only names that it is about, and only where a lookup or a
listing may fail, or listed names lead nowhere (`MayBeMissed` of `CheckedStore`).

The refinement of `CheckedStore` goes step by step. What can be loaded is what its
digest certifies (`StoreIsCertified`), or nothing. A step of the write loop spoils the
file of its call, in the words of the abstract specification: it keeps the certificate
or removes it (`WriteSpoils`), or replaces it by one of contents that the call asked for
(`DigestWritten`, which needs `TurnInvariant`). A removal keeps or removes both the
certificate and what can be loaded (`RemovalSpoils`). `CallStep` turns a spoiled file
and the answer of the step into a step of `CheckedStore`; boot, format, reset and
loading are a step each. Besides `Trustworthy`, which the finding about closing a file
makes necessary, the mode is MD5: NORMAL mode has no digests, and promises no more than
`TrueMeansStored`.

**Uart.** `NothingLostElsewhere` is inductive with `TypeOK`. `Stamped` says that the clock
is ahead of the time stamp by `quiet`, and has wrapped at most once since; with the
detector's own start of a period, the arithmetic of `isPeriodPassed` follows
(`ClockArithmetic`), and with it the exceptions in `QuietWhenAnnounced`.

**NVS.** Three invariants build on each other: control (each label belongs to some
operations, an operation uses a handle that was opened and has not succeeded
before its last library call), handles (`HandleInvariant`: a handle in use is open, is
of the task's storage, and is used by one task) and values (`ValueInvariant`: what a task
changed is in the flash image as it left it while nobody else tries to change it,
and saved after the commit). The properties are about tasks with an object each,
`OwnObjects`, and say so. `DurableCorrect` assumes that setting and erasing succeed:
`write` ignores their errors, and the run `nvs_set_error` shows what follows.

**ThreadSafeDbg.** `OneOwner` is not inductive: a new buffer could equal one that is
still queued. `Fresh` rules it out, since every buffer but the one in hand is of an
earlier part of its task's messages; `OwnerInvariant` adds that queued, filled and
printed buffers are different and are all there are. `StreamInvariant` chains the
pieces of a task: each begins where the one before it ends, the first where the
output ends, and the offset where the last ends. Then printing a piece is the step
of `PrintStreams` that shows the next bytes, and everything else but a call stutters.

**Webserver.** `Registered` says that every handler ever set is remembered, and that the
loop of `start` at handler `next` serves exactly the ones before it, each once. The
count is what `StartCompletes` needs: the loop fails only at a repeated URI or a full
table. `Received` does the same for the loop of `getContent`.

**ESP32HttpClient.** `user_data` points to the request of the call in progress, which is
pending, from the start of each call on, so that a request destroyed or performed before
does not matter. `Exchange` says that the body ends with what the exchange in progress
has brought, its parts in order from the first (`InOrder`), and is that alone for a
request that is new (`Untouched`) in its first exchange.

**DirListing.** `Shows(s, P, names)` says that a list shows the names of the positions `P` of
the directory, once each and in order; appending and erasing change it by one position
(`OneMoreShown`, `OneLessShown`). `ListingInvariant` says which positions those are at each
turn of each loop. In the second loop of `dataFilesList` what was erased and what is still
to be erased are told apart by their order: every erased data file lies before
every one that is left, as the iterator has passed none. Digest files are never erased, so
that looking for one in the shrinking list is looking for it in the directory (`DigestSeen`).
While `countFiles` runs, `count` of the names in the list belong to entries before the iterator.

**HttpUtils.** The type of `url` is all that changes from step to step; the rest is about the
functions. `Find` takes the least position of a pattern, which exists since the
numbers are well-founded (`LeastOf`, from `WFMin` of the library). From it `HostEnds(s)`, the
shape of a correct URL by positions, gives what each function finds (`Positions`), and
follows from what they find (`CorrectHasHost`); `HostMakesParts` and `PartsMakeHost`
connect it to the concatenation in `IsUrl`.

**BatteryMeter.** Integer division is monotone (`QuotientRises`) and keeps a quotient of 0 to
100 there when it is rounded (`RoundedBounds`). The theorem is about exact quotients, for
any width; that the code's floats round alike is argued in the module for its 16 bits only.

Model-checked only: liveness, which is out of the prover's reach: `EveryCallReturns`,
`WatchingEndsInCallback`, `EveryTaskReturns`, `ApplicationReturns`, `StatusSettles`. Every
other property of a run that passes is a theorem.

## Not modelled

- `usagePercent`: two numbers of the file system and a division.
- Two tasks in one `SafeFileManipulator`, or in one `ESP32HttpClient`: the classes have
  no lock and do not claim to be shared; what such tasks may do to each other is
  listed as a hazard without a property.
- `Uart::write`, `remapPins`, and the contents of the bytes: the string that
  `readAll` returns when the buffer was flushed under it is not told apart.
- Headers, parameters and certificates of a request, the copies made by `getUrl`,
  `getUriQuery` and `getHeader` of `Webserver`, and the wrappers in `ESP32Utils`: setters
  and copies. Some of what they set is never used: parameters of a request, and
  `_maxResponseBodyLength`. The headers of an answer go into those of the request.
- The conversions of `printf` in `ThreadSafeDbg`: messages are free of them.
- Builds without assertions, in which `Uart` has no event task, since it is created
  inside an `assert`.
- `HttpCodes` is a table, of which the model keeps the classes that the client tells
  apart; build files configure the compiler.

The base class `Task`, the mutex, MD5, SPIFFS and the SDK are not part of the
repository and are modelled from their use.

## Plan

Done: every part of the table above but for what "Not modelled" lists, and a proof of each
safety property that a run checks and of both refinements. Left, as the code grows: the
backup mode of `SafeFileManipulator`, of which the code has stubs only, and two tasks in
one object, should a class get a lock.
