--------------------------- MODULE ThreadSafeDbg ---------------------------
(***************************************************************************)
(* ThreadSafeDbg: tasks cut their messages into pieces, each in a buffer   *)
(* of its own, and queue them; the printing task prints the pieces and     *)
(* frees the buffers.  Lines printed by printX do not take that way.       *)
(*                                                                         *)
(* The bytes that a task hands to doPrint are numbered 1, 2, ... over all  *)
(* its messages, so that a piece is the interval (from, to].  A buffer is  *)
(* identified with the piece that it was filled with.  Messages are free   *)
(* of conversion specifications, which printf would act on.                *)
(***************************************************************************)
EXTENDS Naturals, Sequences, FiniteSets
LOCAL INSTANCE SequencesExt

CONSTANTS
  Producers,    \* the tasks that print
  Lengths,      \* possible lengths of their messages
  MaxPiece,     \* MAX_MSG_LENGTH
  QueueLength,  \* MAX_QUEUE_LENGTH
  None,         \* no buffer
  MaxCalls      \* bound of the model: calls per task

Pieces == [by : Producers, call : Nat, from : Nat, to : Nat]

ASSUME DbgAssumption ==
  /\ IsFiniteSet(Producers)
  /\ Lengths \subseteq Nat
  /\ MaxPiece \in Nat \ {0}
  /\ QueueLength \in Nat \ {0}
  /\ None \notin Pieces
  /\ MaxCalls \in Nat

VARIABLES
  allowPrint,
  queue,    \* _dbgQueue
  heap,     \* the buffers that are allocated
  pc,       \* per task, its next step in doPrint
  buff,     \* per task, the buffer it has filled and not yet queued
  at,       \* per task, the bytes before "message + offset"
  asked,    \* per task, the bytes before the end of its message
  calls,    \* per task, its calls so far, bounded by MaxCalls
  printer,  \* next step of the printing task, "off" before it is started
  pointer,  \* message.pointer of the printing task
  output,   \* per task, the bytes of its messages that have been printed
  lines     \* per task, the number of lines that it has printed itself

producer == <<pc, buff, at, asked, calls>>
printing == <<printer, pointer>>
printed == <<output, lines>>
vars == <<allowPrint, queue, heap, pc, buff, at, asked, calls, printer, pointer, output, lines>>

Piece(p, from, to) == [by |-> p, call |-> calls[p], from |-> from, to |-> to]

\* The bytes of a piece, by their numbers.
Bytes(b) == [i \in 1 .. b.to - b.from |-> b.from + i]

Init ==
  /\ allowPrint = TRUE
  /\ queue = <<>>
  /\ heap = {}
  /\ pc = [p \in Producers |-> "idle"]
  /\ buff = [p \in Producers |-> None]
  /\ at = [p \in Producers |-> 0]
  /\ asked = [p \in Producers |-> 0]
  /\ calls = [p \in Producers |-> 0]
  /\ printer = "off"
  /\ pointer = None
  /\ output = [p \in Producers |-> <<>>]
  /\ lines = [p \in Producers |-> 0]

SetAllowPrint ==
  /\ allowPrint' \in BOOLEAN \ {allowPrint}
  /\ UNCHANGED <<queue, heap, producer, printing, printed>>

Call(p) ==
  /\ pc[p] = "idle"
  /\ calls[p] < MaxCalls
  /\ calls' = [calls EXCEPT ![p] = @ + 1]

-----------------------------------------------------------------------------
(* doPrint.  allowPrint is read when a call begins and not again.          *)

DoPrint(p, length) ==
  /\ Call(p)
  /\ allowPrint
  /\ asked' = [asked EXCEPT ![p] = @ + length]
  /\ pc' = [pc EXCEPT ![p] = "cut"]
  /\ UNCHANGED <<allowPrint, queue, heap, buff, at, printing, printed>>

\* Mutant: the loop ends a byte early.
IsLastPieceEarly(p) == asked[p] - at[p] <= MaxPiece + 1

\* The loop runs while more than a piece is left; the rest is the last piece.
IsLastPiece(p) == asked[p] - at[p] <= MaxPiece

Size(p) == IF IsLastPiece(p) THEN asked[p] - at[p] ELSE MaxPiece

\* Mutant: the loop copies from the start of the message, offset forgotten.
CutFromStart(p) ==
  /\ pc[p] = "cut"
  /\ buff' = [buff EXCEPT ![p] = Piece(p, 0, Size(p))]
  /\ heap' = heap \cup {buff'[p]}
  /\ pc' = [pc EXCEPT ![p] = "send"]
  /\ UNCHANGED <<allowPrint, queue, at, asked, calls, printing, printed>>

\* A new buffer is filled with the next piece.
Cut(p) ==
  /\ pc[p] = "cut"
  /\ buff' = [buff EXCEPT ![p] = Piece(p, at[p], at[p] + Size(p))]
  /\ heap' = heap \cup {buff'[p]}
  /\ pc' = [pc EXCEPT ![p] = "send"]
  /\ UNCHANGED <<allowPrint, queue, at, asked, calls, printing, printed>>

\* Mutant: the piece is given up when the queue is full.
SendWithoutWaiting(p) ==
  /\ pc[p] = "send"
  /\ queue' = IF Len(queue) < QueueLength THEN Append(queue, buff[p]) ELSE queue
  /\ buff' = [buff EXCEPT ![p] = None]
  /\ at' = [at EXCEPT ![p] = IF IsLastPiece(p) THEN asked[p] ELSE @ + MaxPiece]
  /\ pc' = [pc EXCEPT ![p] = IF IsLastPiece(p) THEN "idle" ELSE "cut"]
  /\ UNCHANGED <<allowPrint, heap, asked, calls, printing, printed>>

\* xQueueSendToBack, which waits for room without limit.
Send(p) ==
  /\ pc[p] = "send"
  /\ Len(queue) < QueueLength
  /\ queue' = Append(queue, buff[p])
  /\ buff' = [buff EXCEPT ![p] = None]
  /\ at' = [at EXCEPT ![p] = IF IsLastPiece(p) THEN asked[p] ELSE @ + MaxPiece]
  /\ pc' = [pc EXCEPT ![p] = IF IsLastPiece(p) THEN "idle" ELSE "cut"]
  /\ UNCHANGED <<allowPrint, heap, asked, calls, printing, printed>>

\* printX writes a line to the output itself, between any two pieces, and does
\* not look at allowPrint.
PrintX(p) ==
  /\ Call(p)
  /\ lines' = [lines EXCEPT ![p] = @ + 1]
  /\ UNCHANGED <<allowPrint, queue, heap, pc, buff, at, asked, printing, output>>

\* printLine of a text, printHex and printWithTag look at it.
PrintLine(p) == allowPrint /\ PrintX(p)

-----------------------------------------------------------------------------
(* The printing task.                                                      *)

StartTask ==
  /\ printer = "off"
  /\ printer' = "receive"
  /\ UNCHANGED <<allowPrint, queue, heap, producer, pointer, printed>>

Receive ==
  /\ printer = "receive"
  /\ queue # <<>>
  /\ pointer' = Head(queue)
  /\ queue' = Tail(queue)
  /\ printer' = "print"
  /\ UNCHANGED <<allowPrint, heap, producer, printed>>

PrintPiece ==
  /\ printer = "print"
  /\ output' = [output EXCEPT ![pointer.by] = @ \o Bytes(pointer)]
  /\ printer' = "delete"
  /\ UNCHANGED <<allowPrint, queue, heap, producer, pointer, lines>>

\* Mutant: the task ends after one message.
DeleteAndEnd ==
  /\ printer = "delete"
  /\ heap' = heap \ {pointer}
  /\ pointer' = None
  /\ printer' = "off"
  /\ UNCHANGED <<allowPrint, queue, producer, printed>>

Delete ==
  /\ printer = "delete"
  /\ heap' = heap \ {pointer}
  /\ pointer' = None
  /\ printer' = "receive"
  /\ UNCHANGED <<allowPrint, queue, producer, printed>>

Run == Receive \/ PrintPiece \/ Delete

-----------------------------------------------------------------------------
Next ==
  \/ \E p \in Producers, n \in Lengths : DoPrint(p, n)
  \/ \E p \in Producers : Cut(p) \/ Send(p) \/ PrintX(p) \/ PrintLine(p)
  \/ SetAllowPrint
  \/ StartTask
  \/ Run

\* Every task is scheduled, and of the tasks that wait for room in the queue
\* the one that waits longest is served first, as FreeRTOS does among equals.
Fairness ==
  /\ WF_vars(Run)
  /\ \A p \in Producers : WF_vars(Cut(p)) /\ SF_vars(Send(p))

Spec == Init /\ [][Next]_vars
FairSpec == Spec /\ Fairness

-----------------------------------------------------------------------------
(* Properties.                                                             *)

\* The types of the variables; the queue keeps to its limit, and a task that
\* has returned from doPrint has queued its message to the end.
TypeOK ==
  /\ allowPrint \in BOOLEAN
  /\ queue \in Seq(Pieces) /\ Len(queue) <= QueueLength
  /\ heap \subseteq Pieces /\ \A b \in heap : b.from <= b.to /\ b.to - b.from <= MaxPiece
  /\ pc \in [Producers -> {"idle", "cut", "send"}]
  /\ buff \in [Producers -> Pieces \cup {None}]
  /\ \A p \in Producers : at[p] <= asked[p] /\ (pc[p] = "idle" => at[p] = asked[p])
  /\ calls \in [Producers -> 0 .. MaxCalls]
  /\ printer \in {"off", "receive", "print", "delete"}
  /\ pointer \in Pieces \cup {None}

\* Each allocated buffer has exactly one owner: it is queued once, or held by
\* the task that filled it, or by the printing task.  So none is leaked, freed
\* twice, or printed after it was freed.
OneOwner ==
  /\ heap = (ToSet(queue) \cup {buff[p] : p \in Producers} \cup {pointer}) \ {None}
  /\ Cardinality(heap) = Len(queue) + Cardinality({p \in Producers : buff[p] # None})
                         + (IF pointer = None THEN 0 ELSE 1)

\* However the pieces of several tasks mix in the queue, the bytes of each task
\* come out once each and in order.
Promise == INSTANCE PrintStreams WITH shown <- output
ImplementsStreams == Promise!Spec

\* Once the printing task is started, doPrint returns to every task, though the
\* task may find the queue full at each of its pieces.
EveryTaskReturns ==
  <>(printer # "off") => \A p \in Producers : pc[p] # "idle" ~> pc[p] = "idle"
=============================================================================
