-------------------------------- MODULE Uart --------------------------------
(***************************************************************************)
(* Uart: the driver's receive buffer and event queue, the event task that  *)
(* consumes the queue, the idle detector that the event task starts when   *)
(* data arrives and that calls onDataReceived once the line is quiet, the  *)
(* tasks that read, and the millisecond clock they share.                  *)
(*                                                                         *)
(* The event task handles an event holding _mutex, and bytesAvailable      *)
(* takes it too; the detector and the reads of the driver do not.          *)
(***************************************************************************)
EXTENDS Integers, Sequences

CONSTANTS
  Modulus,      \* nowMs() counts modulo this number: 2^32 in the code
  Period,       \* UART_IDLE_PERIOD_MS
  Sleeps,       \* how many ms vTaskDelay of the period may last
  MaxLate,      \* ms the detector may be kept from running when it is due
  QueueLength,  \* UART_EVENT_QUEUE_LENGTH
  BufferSize,   \* bursts that the driver's receive buffer holds
  LineFaults,   \* subset of {"overflow", "noise"}
  MaxArrivals   \* bound of the model: bursts and faults of the line

ASSUME UartAssumption ==
  /\ Modulus \in Nat \ {0}
  /\ Period \in 1 .. Modulus - 1
  /\ Sleeps \subseteq 1 .. Period /\ Sleeps # {}
  /\ MaxLate \in Nat
  /\ QueueLength \in Nat \ {0}
  /\ BufferSize \in Nat \ {0}
  /\ LineFaults \subseteq {"overflow", "noise"}
  /\ MaxArrivals \in Nat

VARIABLES
  now,        \* TimeUtils::nowMs()
  last,       \* _lastTimeDataReceived
  rx,         \* bursts in the driver's receive buffer
  queue,      \* _eventQueue
  task,       \* next step of the event task
  detector,   \* next step of the idle detector, "off" when it is not running
  start,      \* the detector's copy of _lastTimeDataReceived
  due,        \* ms until the detector is due to run, negative when it is late
  available,  \* what readAll has measured and not yet read, else 0
  arrivals,   \* bursts and faults of the line so far, bounded by MaxArrivals
  quiet,      \* history: ms since data was last handled, at most Period
  fresh,      \* history: rx holds data that came after the last callback began
  lost        \* history: what kept the fresh data from being noticed

line == <<rx, queue, arrivals>>
receiver == <<last, task>>
idle == <<detector, start, due>>
history == <<quiet, fresh, lost>>
vars == <<now, last, rx, queue, task, detector, start, due, available, arrivals,
          quiet, fresh, lost>>

Events == {"DATA", "FIFO_OVF", "BUFFER_FULL", "OTHER"}
Watching == {"test", "read", "decide", "sleep"}

Init ==
  /\ now \in 0 .. Modulus - 1
  /\ last = 0
  /\ rx = 0
  /\ queue = <<>>
  /\ task = "receive"
  /\ detector = "off"
  /\ start = 0
  /\ due = 0
  /\ available = 0
  /\ arrivals = 0
  /\ quiet = Period
  /\ fresh = FALSE
  /\ lost = {}

-----------------------------------------------------------------------------
(* The line and the driver's interrupt handler.                            *)

\* xQueueSendFromISR: an event that finds the queue full is dropped.
Post(e) == queue' = IF Len(queue) < QueueLength THEN Append(queue, e) ELSE queue

Happens ==
  /\ arrivals < MaxArrivals
  /\ arrivals' = arrivals + 1
  /\ UNCHANGED <<now, receiver, idle, available, quiet>>

ReceiveData ==
  /\ Happens
  /\ rx < BufferSize
  /\ rx' = rx + 1
  /\ Post("DATA")
  /\ fresh' = TRUE
  /\ lost' = IF Len(queue) < QueueLength THEN lost ELSE lost \cup {"queue"}

FillBuffer ==
  /\ Happens
  /\ rx = BufferSize
  /\ Post("BUFFER_FULL")
  /\ UNCHANGED <<rx, fresh, lost>>

OverflowFifo ==
  /\ "overflow" \in LineFaults
  /\ Happens
  /\ Post("FIFO_OVF")
  /\ UNCHANGED <<rx, fresh, lost>>

\* Parity and frame errors, breaks.
Disturb ==
  /\ "noise" \in LineFaults
  /\ Happens
  /\ Post("OTHER")
  /\ UNCHANGED <<rx, fresh, lost>>

\* n bursts leave the receive buffer.
Take(n) ==
  /\ rx' = rx - n
  /\ fresh' = (fresh /\ rx' > 0)
  /\ lost' = IF fresh' THEN lost ELSE {}

-----------------------------------------------------------------------------
(* uartEventTask.                                                          *)

Handling(first) ==
  /\ queue # <<>>
  /\ queue' = Tail(queue)
  /\ task' = first

\* xQueueReceive, and the switch on the event's type.
TakeEvent ==
  /\ task = "receive"
  /\ \/ queue # <<>> /\ Head(queue) = "DATA" /\ Handling("stamp")
     \/ queue # <<>> /\ Head(queue) \in {"FIFO_OVF", "BUFFER_FULL"} /\ Handling("flush")
     \/ queue # <<>> /\ Head(queue) = "OTHER" /\ Handling("receive")
  /\ UNCHANGED <<now, last, rx, idle, available, arrivals, history>>

StampData ==
  /\ task = "stamp"
  /\ last' = now
  /\ quiet' = 0
  /\ task' = "start"
  /\ UNCHANGED <<now, line, idle, available, fresh, lost>>

\* Task::isRunning, until the function that run() calls has returned and the
\* task has ended.
IsRunning == detector # "off"

\* Mutant: the detector is started by the last of the queued events only.
StartDetectorWhenDrained ==
  /\ task = "start"
  /\ \/ /\ ~IsRunning /\ queue = <<>>
        /\ detector' = "test"
        /\ due' = 0
        /\ UNCHANGED lost
     \/ /\ IsRunning \/ queue # <<>>
        /\ lost' = IF detector \notin {"off"} \cup Watching /\ fresh
                   THEN lost \cup {"callback"} ELSE lost
        /\ UNCHANGED <<detector, due>>
  /\ task' = "receive"
  /\ UNCHANGED <<now, last, line, start, available, quiet, fresh>>

StartDetector ==
  /\ task = "start"
  /\ \/ /\ ~IsRunning
        /\ detector' = "test"
        /\ due' = 0
        /\ UNCHANGED lost
     \/ /\ IsRunning
        /\ lost' = IF detector \notin Watching /\ fresh THEN lost \cup {"callback"} ELSE lost
        /\ UNCHANGED <<detector, due>>
  /\ task' = "receive"
  /\ UNCHANGED <<now, last, line, start, available, quiet, fresh>>

\* uart_flush_input, then xQueueReset: data may arrive between the two.
FlushInput ==
  /\ task = "flush"
  /\ Take(rx)
  /\ task' = "reset"
  /\ UNCHANGED <<now, last, queue, arrivals, idle, available, quiet>>

ResetQueue ==
  /\ task = "reset"
  /\ queue' = <<>>
  /\ lost' = IF fresh THEN lost \cup {"reset"} ELSE lost
  /\ task' = "receive"
  /\ UNCHANGED <<now, last, rx, arrivals, idle, available, quiet, fresh>>

EventTask == TakeEvent \/ StampData \/ StartDetector \/ FlushInput \/ ResetQueue

-----------------------------------------------------------------------------
(* The idle detector: idleDetectionTask, run by an AsyncFunctor.           *)

\* Mutant: the period is over in the very millisecond that it ends.
PeriodExactlyPassed(at, from, period) == at = (from + period) % Modulus

\* Mutant: the period is not added.
PeriodForgotten(at, from, period) == at >= from

\* TimeUtils::isPeriodPassed, in the arithmetic of uint32_t.
IsPeriodPassed(at, from, period) == at >= (from + period) % Modulus

BeginCallback ==
  /\ detector' = "callback"
  /\ fresh' = FALSE
  /\ lost' = {}

\* The two loads of _lastTimeDataReceived in the loop's condition are not
\* ordered with the event task's store; a compiler may merge them, which is
\* the behaviour in which nothing happens between TestStamp and ReadStamp.
TestStamp ==
  /\ detector = "test"
  /\ \/ last = 0 /\ BeginCallback
     \/ last # 0 /\ detector' = "read" /\ UNCHANGED <<fresh, lost>>
  /\ UNCHANGED <<now, receiver, line, start, due, available, quiet>>

ReadStamp ==
  /\ detector = "read"
  /\ start' = last
  /\ detector' = "decide"
  /\ UNCHANGED <<now, receiver, line, due, available, history>>

Decide ==
  /\ detector = "decide"
  /\ \/ IsPeriodPassed(now, start, Period) /\ BeginCallback /\ UNCHANGED due
     \/ /\ ~IsPeriodPassed(now, start, Period)
        /\ detector' = "sleep"
        /\ due' \in Sleeps
        /\ UNCHANGED <<fresh, lost>>
  /\ UNCHANGED <<now, receiver, line, start, available, quiet>>

Wake ==
  /\ detector = "sleep"
  /\ due <= 0
  /\ detector' = "test"
  /\ UNCHANGED <<now, receiver, line, start, due, available, history>>

\* The callback returns; later the task has ended and is no longer running.
EndCallback ==
  /\ detector = "callback"
  /\ detector' = "ending"
  /\ UNCHANGED <<now, receiver, line, start, due, available, history>>

EndDetector ==
  /\ detector = "ending"
  /\ detector' = "off"
  /\ start' = 0
  /\ due' = 0
  /\ UNCHANGED <<now, receiver, line, available, history>>

IdleDetector == TestStamp \/ ReadStamp \/ Decide \/ Wake \/ EndCallback \/ EndDetector

-----------------------------------------------------------------------------
(* Tasks that use the Uart, the callback among them.                       *)

Others == <<now, receiver, queue, arrivals, idle, quiet>>

\* readByte and read, when there is data; flush.
Read ==
  /\ \E n \in 1 .. rx : Take(n)
  /\ UNCHANGED <<Others, available>>

\* readAll: bytesAvailable holds the mutex, the read that follows does not.
Measure ==
  /\ task = "receive"
  /\ available = 0
  /\ rx > 0
  /\ available' = rx
  /\ UNCHANGED <<Others, rx, fresh, lost>>

\* Mutant: what was measured is taken to be there still.
FetchMeasured ==
  /\ available > 0
  /\ Take(available)
  /\ available' = 0
  /\ UNCHANGED Others

\* It returns when as much has been read, or with less after a timeout.
Fetch ==
  /\ available > 0
  /\ Take(IF rx < available THEN rx ELSE available)
  /\ available' = 0
  /\ UNCHANGED Others

Users == Read \/ Measure \/ Fetch

-----------------------------------------------------------------------------
\* A millisecond passes.  The detector is never kept waiting for longer than
\* MaxLate when it could run.
Tick ==
  /\ detector \in Watching => due > -MaxLate
  /\ now' = (now + 1) % Modulus
  /\ quiet' = IF quiet < Period THEN quiet + 1 ELSE quiet
  /\ due' = IF detector \in Watching THEN due - 1 ELSE due
  /\ UNCHANGED <<receiver, line, detector, start, available, fresh, lost>>

Line == ReceiveData \/ FillBuffer \/ OverflowFifo \/ Disturb

Next == Line \/ EventTask \/ IdleDetector \/ Users \/ Tick

\* Time passes and both tasks are scheduled; the line and the users may stop.
Fairness == WF_vars(Tick) /\ WF_vars(EventTask) /\ WF_vars(IdleDetector)

Spec == Init /\ [][Next]_vars
FairSpec == Spec /\ Fairness

-----------------------------------------------------------------------------
(* Properties.                                                             *)

\* The types of the variables; the queue and the buffer keep to their limits.
TypeOK ==
  /\ now \in 0 .. Modulus - 1
  /\ last \in 0 .. Modulus - 1
  /\ rx \in 0 .. BufferSize
  /\ queue \in Seq(Events) /\ Len(queue) <= QueueLength
  /\ task \in {"receive", "stamp", "start", "flush", "reset"}
  /\ detector \in {"off", "callback", "ending"} \cup Watching
  /\ start \in 0 .. Modulus - 1
  /\ due \in -MaxLate .. Period
  /\ available \in 0 .. BufferSize
  /\ arrivals \in 0 .. MaxArrivals
  /\ quiet \in 0 .. Period
  /\ fresh \in BOOLEAN
  /\ lost \subseteq {"callback", "reset", "queue"}

\* Received data that the application has not been told of is on its way to
\* it: its event is queued or being handled, or the detector is still watching
\* the line.  The exceptions are the three that uartEventTask has: its event
\* found the queue full, was swept away by xQueueReset, or was handled while
\* the detector, still running, had already begun its callback.
NothingLostElsewhere ==
  fresh =>
    \/ \E i \in 1 .. Len(queue) : queue[i] = "DATA"
    \/ task \in {"stamp", "start"}
    \/ detector \in Watching
    \/ lost # {}

Announces == detector # "callback" /\ detector' = "callback"

\* The detector announces an idle line only when no data was handled for a
\* period, except when the data is handled while it decides, when the end of
\* the period wraps around, and when the time stamp is 0.
AnnouncesQuiet ==
  Announces =>
    \/ quiet = Period
    \/ detector = "test" /\ last = 0
    \/ detector = "decide" /\ (start # last \/ start + Period >= Modulus)
QuietWhenAnnounced == [][AnnouncesQuiet]_vars

\* So few ms are left between the end of the period and the wrap of the clock
\* that the detector's polls may all miss them.
NearWrap ==
  \E s \in Sleeps : Modulus - ((last + Period) % Modulus) < s + MaxLate

\* Once the detector watches the line, the application is told of the data,
\* when the line falls silent, unless the period ends just before the wrap.
WatchingEndsInCallback ==
  <>[]~NearWrap => (detector \in Watching ~> detector = "callback")

\* What onDataReceived says: the application is told of the data it received,
\* or it has read the data already.  It does not hold (see the findings).
DataIsAnnounced == fresh ~> ~fresh
=============================================================================
