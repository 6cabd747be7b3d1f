----------------------------- MODULE UartProofs -----------------------------
(***************************************************************************)
(* Proofs about Uart, for every value of its constants.  TypeOK is         *)
(* inductive, and so is NothingLostElsewhere together with it: each action *)
(* moves the data that the application has not been told of to the next    *)
(* place on its way, or records why it does not.  Stamped, about the clock *)
(* and the time stamp, tells when the line is announced to be idle.        *)
(***************************************************************************)
EXTENDS Uart, TLAPS

-----------------------------------------------------------------------------
(* Types.                                                                  *)

\* The clock stays below its modulus.
LEMMA NextMillisecond ==
  ASSUME NEW m \in Nat \ {0}, NEW t \in 0 .. m - 1
  PROVE  (t + 1) % m \in 0 .. m - 1
OBVIOUS

\* What a due time is set to.
LEMMA DueTimes ==
  /\ 0 \in -MaxLate .. Period
  /\ \A d \in Sleeps : d \in -MaxLate .. Period
<1>1. MaxLate \in Nat /\ Period \in Nat
  BY UartAssumption
<1>2. -MaxLate \in Int /\ -MaxLate <= 0
  BY <1>1
<1>3. \A d \in Sleeps : d \in 1 .. Period
  BY UartAssumption
<1>4. QED
  BY <1>1, <1>2, <1>3

LEMMA PostType ==
  ASSUME TypeOK, NEW e \in Events, Post(e)
  PROVE  queue' \in Seq(Events) /\ Len(queue') <= QueueLength
BY UartAssumption DEF TypeOK, Post

LEMMA LineType ==
  ASSUME TypeOK, Line
  PROVE  TypeOK'
<1>1. arrivals' \in 0 .. MaxArrivals
  BY UartAssumption DEF TypeOK, Line, ReceiveData, FillBuffer, OverflowFifo, Disturb, Happens
<1>2. \E e \in Events : Post(e)
  BY DEF Line, ReceiveData, FillBuffer, OverflowFifo, Disturb, Events
<1>3. queue' \in Seq(Events) /\ Len(queue') <= QueueLength
  BY <1>2, PostType
<1>4. rx' \in 0 .. BufferSize /\ fresh' \in BOOLEAN /\ lost' \subseteq {"callback", "reset", "queue"}
  <2>1. CASE ReceiveData
    BY <2>1, UartAssumption DEF TypeOK, ReceiveData
  <2>2. CASE UNCHANGED <<rx, fresh, lost>>
    BY <2>2 DEF TypeOK
  <2>3. QED
    BY <2>1, <2>2 DEF Line, FillBuffer, OverflowFifo, Disturb
<1>5. UNCHANGED <<now, last, task, detector, start, due, available, quiet>>
  BY DEF Line, ReceiveData, FillBuffer, OverflowFifo, Disturb, Happens, receiver, idle
<1>6. QED
  BY <1>1, <1>3, <1>4, <1>5 DEF TypeOK

LEMMA TakeType ==
  ASSUME TypeOK, NEW n \in 0 .. rx, Take(n)
  PROVE  rx' \in 0 .. BufferSize /\ fresh' \in BOOLEAN /\ lost' \subseteq {"callback", "reset", "queue"}
BY UartAssumption DEF TypeOK, Take

LEMMA EventTaskType ==
  ASSUME TypeOK, EventTask
  PROVE  TypeOK'
<1>1. CASE TakeEvent
  <2>1. queue' = Tail(queue) /\ queue # <<>> /\ task' \in {"receive", "stamp", "flush"}
    BY <1>1 DEF TakeEvent, Handling
  <2>2. queue' \in Seq(Events) /\ Len(queue') <= QueueLength
    BY <2>1, UartAssumption DEF TypeOK
  <2>3. QED
    BY <1>1, <2>1, <2>2 DEF TypeOK, TakeEvent, idle, history
<1>2. CASE StampData
  BY <1>2, UartAssumption DEF TypeOK, StampData, line, idle
<1>3. CASE StartDetector
  <2>1. due' \in -MaxLate .. Period
    BY <1>3, DueTimes DEF TypeOK, StartDetector
  <2>2. detector' \in {"off", "callback", "ending"} \cup Watching
        /\ lost' \subseteq {"callback", "reset", "queue"}
    BY <1>3 DEF TypeOK, StartDetector, Watching
  <2>3. QED
    BY <1>3, <2>1, <2>2 DEF TypeOK, StartDetector, line
<1>4. CASE FlushInput
  <2>1. Take(rx) /\ rx \in 0 .. rx
    BY <1>4, UartAssumption DEF FlushInput, TypeOK
  <2>2. QED
    BY <1>4, <2>1, TakeType DEF TypeOK, FlushInput, idle
<1>5. CASE ResetQueue
  <2>1. queue' \in Seq(Events) /\ Len(queue') <= QueueLength
    BY <1>5, UartAssumption DEF ResetQueue
  <2>2. QED
    BY <1>5, <2>1 DEF TypeOK, ResetQueue, idle
<1>6. QED
  BY <1>1, <1>2, <1>3, <1>4, <1>5 DEF EventTask

LEMMA IdleDetectorType ==
  ASSUME TypeOK, IdleDetector
  PROVE  TypeOK'
<1>1. UNCHANGED <<now, last, rx, queue, task, available, arrivals, quiet>>
  BY DEF IdleDetector, TestStamp, ReadStamp, Decide, Wake, EndCallback, EndDetector,
         receiver, line, history
<1>2. detector' \in {"off", "callback", "ending"} \cup Watching
  BY DEF IdleDetector, TestStamp, ReadStamp, Decide, Wake, EndCallback, EndDetector,
         BeginCallback, Watching
<1>3. start' \in 0 .. Modulus - 1
  BY UartAssumption DEF IdleDetector, TestStamp, ReadStamp, Decide, Wake, EndCallback,
         EndDetector, TypeOK
<1>4. due' \in -MaxLate .. Period
  <2>1. due' = due \/ due' = 0 \/ due' \in Sleeps
    BY DEF IdleDetector, TestStamp, ReadStamp, Decide, Wake, EndCallback, EndDetector, history
  <2>2. QED
    BY <2>1, DueTimes DEF TypeOK
<1>5. fresh' \in BOOLEAN /\ lost' \subseteq {"callback", "reset", "queue"}
  BY DEF IdleDetector, TestStamp, ReadStamp, Decide, Wake, EndCallback, EndDetector,
         BeginCallback, TypeOK, history
<1>6. QED
  BY <1>1, <1>2, <1>3, <1>4, <1>5 DEF TypeOK

LEMMA UsersType ==
  ASSUME TypeOK, Users
  PROVE  TypeOK'
<1>1. CASE Read
  <2>1. PICK n \in 1 .. rx : Take(n)
    BY <1>1 DEF Read
  <2>2. n \in 0 .. rx
    BY <2>1 DEF TypeOK
  <2>3. QED
    BY <1>1, <2>1, <2>2, TakeType DEF TypeOK, Read, Others, receiver, idle
<1>2. CASE Measure
  BY <1>2 DEF TypeOK, Measure, Others, receiver, idle
<1>3. CASE Fetch
  <2>1. (IF rx < available THEN rx ELSE available) \in 0 .. rx
    BY UartAssumption DEF TypeOK
  <2>2. rx' \in 0 .. BufferSize /\ fresh' \in BOOLEAN
        /\ lost' \subseteq {"callback", "reset", "queue"}
    BY <1>3, <2>1, TakeType DEF Fetch
  <2>3. QED
    BY <1>3, <2>2, UartAssumption DEF TypeOK, Fetch, Others, receiver, idle
<1>4. QED
  BY <1>1, <1>2, <1>3 DEF Users

LEMMA TickType ==
  ASSUME TypeOK, Tick
  PROVE  TypeOK'
<1>1. now' \in 0 .. Modulus - 1
  BY NextMillisecond, UartAssumption DEF Tick, TypeOK
<1>2. quiet' \in 0 .. Period
  BY UartAssumption DEF Tick, TypeOK
<1>3. due' \in -MaxLate .. Period
  BY UartAssumption DEF Tick, TypeOK
<1>4. QED
  BY <1>1, <1>2, <1>3 DEF Tick, TypeOK, receiver, line

LEMMA NextType == TypeOK /\ [Next]_vars => TypeOK'
<1> SUFFICES ASSUME TypeOK, [Next]_vars PROVE TypeOK'
  OBVIOUS
<1>1. CASE UNCHANGED vars
  BY <1>1 DEF TypeOK, vars
<1>2. QED
  BY <1>1, LineType, EventTaskType, IdleDetectorType, UsersType, TickType DEF Next

\* Every variable keeps its type, and the queue and the buffer their limits,
\* whatever the line, the readers and the scheduler do.
THEOREM UartTypeCorrect == Spec => []TypeOK
<1>1. Init => TypeOK
  <2>1. 0 \in 0 .. Modulus - 1 /\ 0 \in 0 .. BufferSize /\ 0 \in 0 .. MaxArrivals
        /\ Period \in 0 .. Period
    BY UartAssumption
  <2>2. <<>> \in Seq(Events) /\ Len(<<>>) <= QueueLength
    BY UartAssumption
  <2>3. QED
    BY <2>1, <2>2, DueTimes DEF Init, TypeOK
<1>2. QED
  BY <1>1, NextType, PTL DEF Spec

-----------------------------------------------------------------------------
(* No data is forgotten, but for the reasons in lost.                      *)

LEMMA LineKeepsData ==
  ASSUME TypeOK, NothingLostElsewhere, Line
  PROVE  NothingLostElsewhere'
<1>1. PICK e \in Events : Post(e)
  BY DEF Line, ReceiveData, FillBuffer, OverflowFifo, Disturb, Events
<1>2. \A i \in 1 .. Len(queue) : i \in 1 .. Len(queue') /\ queue'[i] = queue[i]
  BY <1>1 DEF Post, TypeOK
<1>3. UNCHANGED <<task, detector>>
  BY DEF Line, ReceiveData, FillBuffer, OverflowFifo, Disturb, Happens, receiver, idle
<1>4. CASE ReceiveData
  <2>1. CASE Len(queue) < QueueLength
    <3>1. queue' = Append(queue, "DATA")
      BY <1>4, <2>1 DEF ReceiveData, Post
    <3>2. Len(queue) + 1 \in 1 .. Len(queue') /\ queue'[Len(queue) + 1] = "DATA"
      BY <3>1 DEF TypeOK
    <3>3. QED
      BY <3>2 DEF NothingLostElsewhere
  <2>2. CASE ~(Len(queue) < QueueLength)
    BY <1>4, <2>2 DEF ReceiveData, NothingLostElsewhere
  <2>3. QED
    BY <2>1, <2>2
<1>5. CASE UNCHANGED <<fresh, lost>>
  BY <1>2, <1>3, <1>5 DEF NothingLostElsewhere
<1>6. QED
  BY <1>4, <1>5 DEF Line, FillBuffer, OverflowFifo, Disturb

\* Reading and flushing make no data fresh, and forget no reason while some is.
LEMMA TakeKeepsReasons ==
  ASSUME NEW n, Take(n), fresh'
  PROVE  fresh /\ lost' = lost
BY DEF Take

LEMMA EventTaskKeepsData ==
  ASSUME TypeOK, NothingLostElsewhere, EventTask
  PROVE  NothingLostElsewhere'
<1> SUFFICES ASSUME fresh' PROVE NothingLostElsewhere'
  BY DEF NothingLostElsewhere
<1>1. CASE TakeEvent
  <2>1. task = "receive" /\ queue # <<>> /\ queue' = Tail(queue)
        /\ UNCHANGED <<detector, fresh, lost>>
    BY <1>1 DEF TakeEvent, Handling, idle, history
  <2>2. CASE Head(queue) = "DATA"
    <3>1. task' = "stamp"
      BY <1>1, <2>2 DEF TakeEvent, Handling
    <3>2. QED
      BY <3>1 DEF NothingLostElsewhere
  <2>3. CASE Head(queue) # "DATA"
    <3>1. ASSUME NEW i \in 1 .. Len(queue), queue[i] = "DATA"
          PROVE  i - 1 \in 1 .. Len(queue') /\ queue'[i - 1] = "DATA"
      BY <2>1, <2>3, <3>1 DEF TypeOK
    <3>2. QED
      BY <2>1, <3>1 DEF NothingLostElsewhere
  <2>4. QED
    BY <2>2, <2>3
<1>2. CASE StampData
  BY <1>2 DEF StampData, NothingLostElsewhere
<1>3. CASE StartDetector
  <2>1. UNCHANGED <<queue, fresh>>
    BY <1>3 DEF StartDetector, line
  <2>2. detector' \in Watching \/ lost' # {}
    BY <1>3, <2>1 DEF StartDetector, Watching
  <2>3. QED
    BY <2>2 DEF NothingLostElsewhere
<1>4. CASE FlushInput
  <2>1. fresh' => rx' > 0 /\ rx' = rx - rx
    BY <1>4 DEF FlushInput, Take
  <2>2. QED
    BY <2>1 DEF TypeOK
<1>5. CASE ResetQueue
  BY <1>5 DEF ResetQueue, NothingLostElsewhere
<1>6. QED
  BY <1>1, <1>2, <1>3, <1>4, <1>5 DEF EventTask

LEMMA IdleDetectorKeepsData ==
  ASSUME NothingLostElsewhere, IdleDetector
  PROVE  NothingLostElsewhere'
<1>1. UNCHANGED <<queue, task>>
  BY DEF IdleDetector, TestStamp, ReadStamp, Decide, Wake, EndCallback, EndDetector,
         receiver, line
<1>2. fresh' => /\ UNCHANGED <<fresh, lost>>
                /\ detector \in Watching => detector' \in Watching
  BY DEF IdleDetector, TestStamp, ReadStamp, Decide, Wake, EndCallback, EndDetector,
         BeginCallback, history, Watching
<1>3. QED
  BY <1>1, <1>2 DEF NothingLostElsewhere

LEMMA UsersKeepData ==
  ASSUME NothingLostElsewhere, Users
  PROVE  NothingLostElsewhere'
<1>1. UNCHANGED <<queue, task, detector>>
  BY DEF Users, Read, Measure, Fetch, Others, receiver, idle
<1>2. fresh' => fresh /\ lost' = lost
  BY TakeKeepsReasons DEF Users, Read, Measure, Fetch
<1>3. QED
  BY <1>1, <1>2 DEF NothingLostElsewhere

LEMMA NextKeepsData ==
  TypeOK /\ NothingLostElsewhere /\ [Next]_vars => NothingLostElsewhere'
<1> SUFFICES ASSUME TypeOK, NothingLostElsewhere, [Next]_vars PROVE NothingLostElsewhere'
  OBVIOUS
<1>1. CASE Tick
  BY <1>1 DEF Tick, line, receiver, NothingLostElsewhere
<1>2. CASE UNCHANGED vars
  BY <1>2 DEF vars, NothingLostElsewhere
<1>3. QED
  BY <1>1, <1>2, LineKeepsData, EventTaskKeepsData, IdleDetectorKeepsData, UsersKeepData
  DEF Next

\* Received data is announced, on its way to be, or lost in one of the three
\* ways that uartEventTask has, for queues and buffers of every size.
THEOREM NothingElseIsLost == Spec => []NothingLostElsewhere
<1>1. Init => NothingLostElsewhere
  BY DEF Init, NothingLostElsewhere
<1>2. QED
  BY <1>1, NextKeepsData, UartTypeCorrect, PTL DEF Spec

-----------------------------------------------------------------------------
(* When the line is announced to be idle.                                  *)

\* Since data was last handled, the clock has moved on by as many milliseconds
\* as the history counts, wrapping at most once.
Stamped ==
  quiet < Period => now = last + quiet \/ now = last + quiet - Modulus

\* The clock and a time in its range.
LEMMA ClockArithmetic ==
  ASSUME NEW m \in Nat \ {0}, NEW t \in 0 .. m - 1
  PROVE  /\ (t + 1) % m = IF t + 1 < m THEN t + 1 ELSE 0
         /\ t % m = t
<1>1. t % m = t
  OBVIOUS
<1>2. CASE t + 1 < m
  BY <1>1, <1>2
<1>3. CASE ~(t + 1 < m)
  <2>1. t + 1 = m
    BY <1>3
  <2>2. m % m = 0
    OBVIOUS
  <2>3. QED
    BY <1>1, <1>3, <2>1, <2>2
<1>4. QED
  BY <1>2, <1>3

LEMMA TickStamped ==
  ASSUME TypeOK, Stamped, Tick
  PROVE  Stamped'
<1> SUFFICES ASSUME quiet' < Period
             PROVE  now' = last' + quiet' \/ now' = last' + quiet' - Modulus
  BY DEF Stamped
<1>1. /\ now \in 0 .. Modulus - 1 /\ last \in 0 .. Modulus - 1 /\ quiet \in 0 .. Period
      /\ Modulus \in Nat \ {0} /\ Period \in 1 .. Modulus - 1
  BY UartAssumption DEF TypeOK
<1>2. quiet < Period /\ quiet' = quiet + 1 /\ last' = last /\ now' = (now + 1) % Modulus
  BY <1>1 DEF Tick, receiver
<1>3. now' = IF now + 1 < Modulus THEN now + 1 ELSE 0
  <2>1. (now + 1) % Modulus = IF now + 1 < Modulus THEN now + 1 ELSE 0
    BY <1>1, ClockArithmetic, Zenon
  <2>2. QED
    BY <1>2, <2>1, Zenon
<1>4. now = last + quiet \/ now = last + quiet - Modulus
  BY <1>2 DEF Stamped
<1>5. QED
  BY <1>1, <1>2, <1>3, <1>4

LEMMA NextStamped ==
  ASSUME TypeOK, Stamped, [Next]_vars
  PROVE  Stamped'
<1>1. CASE StampData
  BY <1>1 DEF StampData, Stamped, TypeOK
<1>2. CASE Tick
  BY <1>2, TickStamped
<1>3. CASE UNCHANGED <<now, last, quiet>>
  BY <1>3 DEF Stamped
<1>4. [Next]_vars => StampData \/ Tick \/ UNCHANGED <<now, last, quiet>>
  <2>1. Line => UNCHANGED <<now, last, quiet>>
    BY DEF Line, ReceiveData, FillBuffer, OverflowFifo, Disturb, Happens, receiver
  <2>2. EventTask => StampData \/ UNCHANGED <<now, last, quiet>>
    BY DEF EventTask, TakeEvent, StartDetector, FlushInput, ResetQueue, history
  <2>3. IdleDetector => UNCHANGED <<now, last, quiet>>
    BY DEF IdleDetector, TestStamp, ReadStamp, Decide, Wake, EndCallback, EndDetector,
           receiver, history
  <2>4. Users => UNCHANGED <<now, last, quiet>>
    BY DEF Users, Read, Measure, Fetch, Others, receiver
  <2>5. QED
    BY <2>1, <2>2, <2>3, <2>4 DEF Next, vars
<1>5. QED
  BY <1>1, <1>2, <1>3, <1>4

\* isPeriodPassed is false while the period lasts, unless its end wraps.
LEMMA NotYetPassed ==
  ASSUME TypeOK, Stamped, quiet < Period, last + Period < Modulus
  PROVE  ~IsPeriodPassed(now, last, Period)
<1>1. /\ now \in 0 .. Modulus - 1 /\ last \in 0 .. Modulus - 1 /\ quiet \in 0 .. Period
      /\ Modulus \in Nat \ {0} /\ Period \in 1 .. Modulus - 1
  BY UartAssumption DEF TypeOK
<1>2. now < last + Period
  BY <1>1 DEF Stamped
<1>3. last + Period \in 0 .. Modulus - 1
  BY <1>1
<1>4. (last + Period) % Modulus = last + Period
  BY <1>1, <1>3, ClockArithmetic
<1>5. QED
  BY <1>1, <1>2, <1>4 DEF IsPeriodPassed

LEMMA StepAnnouncesQuiet ==
  ASSUME TypeOK, Stamped, [Next]_vars
  PROVE  [AnnouncesQuiet]_vars
<1> SUFFICES ASSUME Next, Announces, quiet # Period
             PROVE  \/ detector = "test" /\ last = 0
                    \/ detector = "decide" /\ (start # last \/ start + Period >= Modulus)
  BY DEF AnnouncesQuiet
<1>1. ~Line /\ ~EventTask /\ ~Users /\ ~Tick
  BY DEF Announces, Line, ReceiveData, FillBuffer, OverflowFifo, Disturb, Happens, EventTask,
     TakeEvent, StampData, StartDetector, FlushInput, ResetQueue, Users, Read, Measure, Fetch,
     Others, idle, Tick
<1>2. ~ReadStamp /\ ~Wake /\ ~EndCallback /\ ~EndDetector
  BY DEF Announces, ReadStamp, Wake, EndCallback, EndDetector
<1>3. CASE TestStamp
  BY <1>3 DEF TestStamp, Announces
<1>4. CASE Decide
  <2>1. detector = "decide" /\ IsPeriodPassed(now, start, Period)
    BY <1>4 DEF Decide, Announces
  <2>2. quiet < Period /\ start + Period \in Int /\ Modulus \in Int
    BY UartAssumption DEF TypeOK
  <2>3. QED
    BY <2>1, <2>2, NotYetPassed
<1>5. QED
  BY <1>1, <1>2, <1>3, <1>4 DEF Next, IdleDetector

\* The line is announced to be idle only after a period without data, but for
\* the exceptions of idleDetectionTask that the property names: for a clock and
\* a period of every length, whatever the line and the scheduler do.
THEOREM AnnouncedCorrect == Spec => QuietWhenAnnounced
<1>1. Init => Stamped
  BY UartAssumption DEF Init, Stamped
<1>2. TypeOK /\ Stamped /\ [Next]_vars => Stamped'
  BY NextStamped
<1>3. TypeOK /\ Stamped /\ [Next]_vars => [AnnouncesQuiet]_vars
  BY StepAnnouncesQuiet
<1>4. QED
  BY <1>1, <1>2, <1>3, UartTypeCorrect, PTL DEF Spec, QuietWhenAnnounced
=============================================================================
