------------------------ MODULE ThreadSafeDbgProofs ------------------------
(***************************************************************************)
(* Proofs about ThreadSafeDbg, for every number of tasks, every length of  *)
(* the pieces and of the queue, and any number of calls: each buffer has   *)
(* one owner, and each task's bytes come out once each and in order.       *)
(*                                                                         *)
(* Both rest on what a piece in flight may be.  A new piece differs from   *)
(* all that are allocated, though its buffer may hold the same bytes; and  *)
(* the pieces of one task, from the one that is being printed to the one   *)
(* that is being queued, begin where the last one ended.                   *)
(***************************************************************************)
EXTENDS ThreadSafeDbg, FiniteSetTheorems, SequenceTheorems, TLAPS
LOCAL INSTANCE SequencesExt

-----------------------------------------------------------------------------
(* The inductive invariant.                                                *)

Queued == {queue[i] : i \in 1 .. Len(queue)}
Filled == {buff[p] : p \in Producers} \ {None}
Filling == {p \in Producers : buff[p] # None}

Types ==
  /\ TypeOK
  /\ asked \in [Producers -> Nat]
  /\ at \in [Producers -> Nat]
  /\ output \in [Producers -> Seq(Nat)]

\* Who holds a buffer: a task that is to queue it, and the printing task from
\* the receipt of a piece to the end of its deletion.
Control ==
  /\ \A p \in Producers : pc[p] = "send" <=> buff[p] # None
  /\ printer \in {"print", "delete"} <=> pointer # None

\* A task's buffer holds the piece that its offset and length say.
Holds ==
  \A p \in Producers : buff[p] # None => buff[p] = Piece(p, at[p], at[p] + Size(p))

\* Every allocated buffer, but the one that the task holds, is of an earlier
\* call of its task, or of the same call and an earlier part of its message.
Earlier(b) ==
  \/ b.call < calls[b.by]
  \/ b.call = calls[b.by] /\ (pc[b.by] = "idle" \/ b.from < at[b.by])

Fresh == \A b \in heap : b = buff[b.by] \/ Earlier(b)

\* No buffer is in two places.
Apart ==
  /\ \A i, j \in 1 .. Len(queue) : queue[i] = queue[j] => i = j
  /\ pointer \notin Queued
  /\ \A p \in Producers : buff[p] # None => buff[p] \notin Queued /\ buff[p] # pointer

Places == heap = (Queued \cup Filled \cup {pointer}) \ {None}

Count ==
  /\ IsFiniteSet(heap)
  /\ Cardinality(heap) = Len(queue) + Cardinality(Filling) + (IF pointer = None THEN 0 ELSE 1)

OwnerInvariant == Types /\ Control /\ Holds /\ Fresh /\ Apart /\ Places /\ Count

\* Where the pieces of task p have ended that were printed, that are being
\* printed, and that are among the first i of the queue.
Ends(p, i) ==
  {Len(output[p])}
    \cup {pointer.to : x \in {y \in {pointer} : printer = "print" /\ y.by = p}}
    \cup {queue[j].to : j \in {k \in 1 .. i : queue[k].by = p}}

IsLast(x, S) == x \in S /\ \A y \in S : y <= x

\* Each piece in flight begins where the task's pieces before it end, and the
\* offset is where they all end.
StreamInvariant ==
  /\ printer = "print" => pointer.from = Len(output[pointer.by])
  /\ \A i \in 1 .. Len(queue) : IsLast(queue[i].from, Ends(queue[i].by, i - 1))
  /\ \A p \in Producers : IsLast(at[p], Ends(p, Len(queue)))

-----------------------------------------------------------------------------
(* Types, control and what a task's buffer holds.                          *)

LEMMA InitOwner == Init => OwnerInvariant /\ StreamInvariant
<1> SUFFICES ASSUME Init PROVE OwnerInvariant /\ StreamInvariant
  OBVIOUS
<1>1. Queued = {} /\ Filled = {} /\ Filling = {} /\ Len(queue) = 0
  BY DEF Init, Queued, Filled, Filling
<1>2. Types
  BY DbgAssumption DEF Init, Types, TypeOK
<1>3. Control /\ Holds /\ Fresh /\ Apart /\ Places
  BY <1>1 DEF Init, Control, Holds, Fresh, Apart, Places
<1>4. Count
  BY <1>1, FS_EmptySet DEF Init, Count
<1>5. StreamInvariant
  BY <1>1 DEF Init, StreamInvariant, Ends, IsLast
<1>6. QED
  BY <1>2, <1>3, <1>4, <1>5 DEF OwnerInvariant

\* A step of Next, with printLine as the printX that it is.
LEMMA Steps ==
  ASSUME [Next]_vars
  PROVE  \/ \E p \in Producers : \/ \E n \in Lengths : DoPrint(p, n)
                                 \/ Cut(p) \/ Send(p) \/ PrintX(p)
         \/ SetAllowPrint \/ StartTask \/ Receive \/ PrintPiece \/ Delete
         \/ UNCHANGED vars
BY DEF Next, Run, PrintLine

\* What is left of the message is more than a piece, or the last one.
LEMMA SizeFacts ==
  ASSUME Types, NEW p \in Producers
  PROVE  /\ Size(p) \in 0 .. MaxPiece
         /\ at[p] \in Nat /\ asked[p] \in Nat /\ calls[p] \in Nat
         /\ at[p] + Size(p) <= asked[p]
         /\ IF IsLastPiece(p) THEN Size(p) = asked[p] - at[p]
            ELSE Size(p) = MaxPiece /\ MaxPiece > 0
BY DbgAssumption DEF Types, TypeOK, Size, IsLastPiece

LEMMA PieceFacts ==
  ASSUME Types, NEW p \in Producers
  PROVE  LET b == Piece(p, at[p], at[p] + Size(p)) IN
         /\ b \in Pieces /\ b # None
         /\ b.by = p /\ b.call = calls[p] /\ b.from = at[p] /\ b.to = at[p] + Size(p)
BY SizeFacts, DbgAssumption DEF Piece, Pieces

LEMMA BytesFacts ==
  ASSUME NEW b \in Pieces, b.from <= b.to
  PROVE  /\ Bytes(b) \in Seq(Nat)
         /\ Len(Bytes(b)) = b.to - b.from
<1>1. b.from \in Nat /\ b.to \in Nat
  BY DEF Pieces
<1>2. PICK n \in Nat : n = b.to - b.from
  BY <1>1
<1>3. Bytes(b) = [i \in 1 .. n |-> b.from + i]
  BY <1>2 DEF Bytes
<1>4. Bytes(b) \in [1 .. n -> Nat]
  BY <1>1, <1>3
<1>5. QED
  BY <1>2, <1>4

LEMMA TypesNext ==
  ASSUME Types, Control, Places, [Next]_vars
  PROVE  Types'
<1> USE DEF Types
<1>1. ASSUME NEW p \in Producers, NEW n \in Lengths, DoPrint(p, n) PROVE Types'
  BY <1>1, DbgAssumption DEF TypeOK, DoPrint, Call, printing, printed
<1>2. ASSUME NEW p \in Producers, Cut(p) PROVE Types'
  <2>1. LET b == Piece(p, at[p], at[p] + Size(p)) IN
        /\ b \in Pieces /\ b.from <= b.to /\ b.to - b.from <= MaxPiece
        /\ buff' = [buff EXCEPT ![p] = b] /\ heap' = heap \cup {b}
    BY <1>2, PieceFacts, SizeFacts DEF Cut, TypeOK
  <2>2. QED
    BY <1>2, <2>1 DEF TypeOK, Cut, printing, printed
<1>3. ASSUME NEW p \in Producers, Send(p) PROVE Types'
  <2>1. buff[p] \in Pieces
    BY <1>3 DEF Control, TypeOK, Send
  <2>2. queue' \in Seq(Pieces) /\ Len(queue') <= QueueLength
    BY <1>3, <2>1, DbgAssumption DEF TypeOK, Send
  <2>3. /\ at' \in [Producers -> Nat]
        /\ \A q \in Producers : at'[q] <= asked[q] /\ (pc'[q] = "idle" => at'[q] = asked[q])
    BY <1>3, SizeFacts, DbgAssumption DEF TypeOK, Send
  <2>4. QED
    BY <1>3, <2>2, <2>3 DEF TypeOK, Send, printing, printed
<1>4. ASSUME NEW p \in Producers, PrintX(p) PROVE Types'
  BY <1>4, DbgAssumption DEF TypeOK, PrintX, Call, printing
<1>5. CASE SetAllowPrint
  BY <1>5 DEF TypeOK, SetAllowPrint, producer, printing, printed
<1>6. CASE StartTask
  BY <1>6 DEF TypeOK, StartTask, producer, printed
<1>7. CASE Receive
  <2>1. Head(queue) \in Pieces /\ Tail(queue) \in Seq(Pieces) /\ Len(Tail(queue)) <= Len(queue)
    BY <1>7 DEF TypeOK, Receive
  <2>2. QED
    BY <1>7, <2>1, DbgAssumption DEF TypeOK, Receive, producer, printed
<1>8. CASE PrintPiece
  <2>1. pointer \in Pieces /\ pointer \in heap
    BY <1>8, DbgAssumption DEF Control, Places, TypeOK, PrintPiece
  <2>2. Bytes(pointer) \in Seq(Nat) /\ pointer.by \in Producers
    BY <2>1, BytesFacts DEF TypeOK, Pieces
  <2>3. output' \in [Producers -> Seq(Nat)]
    BY <1>8, <2>2 DEF PrintPiece
  <2>4. QED
    BY <1>8, <2>3 DEF TypeOK, PrintPiece, producer
<1>9. CASE Delete
  BY <1>9 DEF TypeOK, Delete, producer, printed
<1>10. CASE UNCHANGED vars
  BY <1>10 DEF TypeOK, vars
<1>11. QED
  BY <1>1, <1>2, <1>3, <1>4, <1>5, <1>6, <1>7, <1>8, <1>9, <1>10, Steps

LEMMA ControlNext ==
  ASSUME Types, Control, [Next]_vars
  PROVE  Control'
<1> USE DEF Control
<1>1. ASSUME NEW p \in Producers, NEW n \in Lengths, DoPrint(p, n) PROVE Control'
  BY <1>1 DEF Types, TypeOK, DoPrint, Call, printing
<1>2. ASSUME NEW p \in Producers, Cut(p) PROVE Control'
  BY <1>2, PieceFacts DEF Types, TypeOK, Cut, printing
<1>3. ASSUME NEW p \in Producers, Send(p) PROVE Control'
  BY <1>3 DEF Types, TypeOK, Send, printing
<1>4. ASSUME NEW p \in Producers, PrintX(p) PROVE Control'
  BY <1>4 DEF PrintX, printing
<1>5. CASE SetAllowPrint \/ StartTask \/ PrintPiece \/ Delete \/ UNCHANGED vars
  BY <1>5 DEF SetAllowPrint, StartTask, PrintPiece, Delete, producer, printing, vars
<1>6. CASE Receive
  BY <1>6, DbgAssumption DEF Types, TypeOK, Receive, producer
<1>7. QED
  BY <1>1, <1>2, <1>3, <1>4, <1>5, <1>6, Steps

LEMMA HoldsNext ==
  ASSUME Types, Control, Holds, [Next]_vars
  PROVE  Holds'
<1> USE DEF Holds, Piece, Size, IsLastPiece
<1>1. ASSUME NEW p \in Producers, NEW n \in Lengths, DoPrint(p, n) PROVE Holds'
  BY <1>1 DEF Types, TypeOK, Control, DoPrint, Call
<1>2. ASSUME NEW p \in Producers, Cut(p) PROVE Holds'
  BY <1>2 DEF Types, TypeOK, Cut
<1>3. ASSUME NEW p \in Producers, Send(p) PROVE Holds'
  BY <1>3 DEF Types, TypeOK, Send
<1>4. ASSUME NEW p \in Producers, PrintX(p) PROVE Holds'
  BY <1>4 DEF Types, TypeOK, Control, PrintX, Call
<1>5. CASE SetAllowPrint \/ StartTask \/ Receive \/ PrintPiece \/ Delete \/ UNCHANGED vars
  BY <1>5 DEF SetAllowPrint, StartTask, Receive, PrintPiece, Delete, producer, vars
<1>6. QED
  BY <1>1, <1>2, <1>3, <1>4, <1>5, Steps

-----------------------------------------------------------------------------
(* Owners.                                                                 *)

\* A new piece is none of the buffers in use.
LEMMA NewPiece ==
  ASSUME Types, Control, Fresh, NEW p \in Producers, pc[p] = "cut"
  PROVE  Piece(p, at[p], at[p] + Size(p)) \notin heap
<1> DEFINE b == Piece(p, at[p], at[p] + Size(p))
<1>1. b # None /\ b.by = p /\ b.call = calls[p] /\ b.from = at[p] /\ b.from \in Nat
  BY PieceFacts, SizeFacts
<1>2. b # buff[p]
  BY <1>1 DEF Control
<1>3. ~Earlier(b)
  BY <1>1, SizeFacts DEF Earlier
<1>4. QED
  BY <1>1, <1>2, <1>3 DEF Fresh

LEMMA FreshNext ==
  ASSUME Types, Control, Holds, Fresh, Places, [Next]_vars
  PROVE  Fresh'
<1> USE DEF Fresh, Earlier
<1>0. \A b \in heap : b \in Pieces /\ b.by \in Producers /\ b.call \in Nat /\ b.from \in Nat
  BY DEF Types, TypeOK, Pieces
<1>1. ASSUME NEW p \in Producers, NEW n \in Lengths, DoPrint(p, n) PROVE Fresh'
  BY <1>0, <1>1, DbgAssumption DEF Types, TypeOK, Control, Holds, DoPrint, Call
<1>2. ASSUME NEW p \in Producers, Cut(p) PROVE Fresh'
  <2>1. buff[p] = None /\ None \notin heap
    BY <1>2, <1>0, DbgAssumption DEF Control, Cut
  <2>2. LET b == Piece(p, at[p], at[p] + Size(p)) IN
        /\ b.by = p /\ buff' = [buff EXCEPT ![p] = b] /\ heap' = heap \cup {b}
    BY <1>2, PieceFacts DEF Cut, Types, TypeOK
  <2>3. pc' = [pc EXCEPT ![p] = "send"] /\ UNCHANGED <<at, calls>>
    BY <1>2 DEF Cut
  <2>4. QED
    BY <1>0, <1>2, <2>1, <2>2, <2>3 DEF Types, TypeOK, Cut
<1>3. ASSUME NEW p \in Producers, Send(p) PROVE Fresh'
  <2>1. /\ buff[p] # None /\ buff[p] = Piece(p, at[p], at[p] + Size(p))
        /\ buff[p].by = p /\ buff[p].call = calls[p] /\ buff[p].from = at[p]
    BY <1>3, PieceFacts DEF Control, Holds, Send
  <2>2. /\ pc'[p] = "idle" \/ (at'[p] > at[p] /\ pc'[p] = "cut")
        /\ at'[p] \in Nat /\ at'[p] >= at[p]
        /\ \A q \in Producers \ {p} : at'[q] = at[q] /\ pc'[q] = pc[q] /\ buff'[q] = buff[q]
    BY <1>3, SizeFacts, DbgAssumption DEF Types, TypeOK, Send, IsLastPiece
  <2>3. heap' = heap /\ calls' = calls /\ pc[p] = "send"
    BY <1>3 DEF Send
  <2>4. ASSUME NEW b \in heap, b.by = p PROVE Earlier(b)'
    <3>1. CASE b = buff[p]
      BY <2>1, <2>2, <2>3, <2>4, <3>1, SizeFacts
    <3>2. CASE b.call < calls[p]
      BY <2>3, <2>4, <3>2
    <3>3. CASE b.call = calls[p] /\ b.from < at[p]
      BY <1>0, <2>2, <2>3, <2>4, <3>3, SizeFacts
    <3>4. QED
      BY <2>3, <2>4, <3>1, <3>2, <3>3
  <2>5. ASSUME NEW b \in heap, b.by # p PROVE b = buff'[b.by] \/ Earlier(b)'
    BY <1>0, <2>2, <2>3, <2>5
  <2>6. QED
    BY <2>3, <2>4, <2>5
<1>4. ASSUME NEW p \in Producers, PrintX(p) PROVE Fresh'
  <2>1. /\ calls' = [calls EXCEPT ![p] = calls[p] + 1] /\ calls[p] \in Nat
        /\ UNCHANGED <<heap, pc, buff, at>>
    BY <1>4, SizeFacts DEF PrintX, Call
  <2>2. \A q \in Producers : calls'[q] = IF q = p THEN calls[p] + 1 ELSE calls[q]
    BY <2>1 DEF Types, TypeOK
  <2>3. QED
    BY <1>0, <2>1, <2>2
<1>5. CASE SetAllowPrint \/ StartTask \/ Receive \/ PrintPiece \/ UNCHANGED vars
  BY <1>5 DEF SetAllowPrint, StartTask, Receive, PrintPiece, producer, vars
<1>6. CASE Delete
  BY <1>6 DEF Delete, producer
<1>7. QED
  BY <1>1, <1>2, <1>3, <1>4, <1>5, <1>6, Steps

LEMMA ApartPlacesNext ==
  ASSUME Types, Control, Holds, Fresh, Apart, Places, [Next]_vars
  PROVE  Apart' /\ Places'
<1>0. queue \in Seq(Pieces) /\ None \notin Pieces /\ None \notin Queued
  BY DbgAssumption DEF Types, TypeOK, Queued
<1>1. ASSUME UNCHANGED <<queue, heap, buff, pointer>> PROVE Apart' /\ Places'
  BY <1>1 DEF Apart, Places, Queued, Filled
<1>2. ASSUME NEW p \in Producers, Cut(p) PROVE Apart' /\ Places'
  <2> DEFINE b == Piece(p, at[p], at[p] + Size(p))
  <2>1. /\ buff' = [buff EXCEPT ![p] = b] /\ heap' = heap \cup {b}
        /\ b \notin heap /\ b # None /\ b.by = p /\ buff[p] = None
        /\ UNCHANGED <<queue, pointer>>
    BY <1>2, PieceFacts, NewPiece DEF Cut, Control, Types, TypeOK, printing
  <2>2. Queued' = Queued /\ Filled' = Filled \cup {b}
    BY <2>1 DEF Queued, Filled, Types, TypeOK
  <2>3. b \notin Queued /\ b # pointer
    BY <2>1, <1>0 DEF Places
  <2>4. Apart'
    BY <2>1, <2>2, <2>3 DEF Apart, Types, TypeOK
  <2>5. Places'
    BY <2>1, <2>2 DEF Places
  <2>6. QED
    BY <2>4, <2>5
<1>3. ASSUME NEW p \in Producers, Send(p) PROVE Apart' /\ Places'
  <2>1. /\ buff[p] # None /\ buff[p] \in Pieces /\ buff[p].by = p
        /\ \A q \in Producers : buff[q] # None => buff[q].by = q
        /\ buff' = [buff EXCEPT ![p] = None]
        /\ queue' = Append(queue, buff[p])
        /\ UNCHANGED <<heap, pointer>>
    BY <1>3, PieceFacts DEF Control, Holds, Types, TypeOK, Send, printing
  <2>2. /\ Len(queue') = Len(queue) + 1 /\ queue'[Len(queue) + 1] = buff[p]
        /\ \A i \in 1 .. Len(queue) : queue'[i] = queue[i]
    BY <1>0, <2>1
  <2>3. Queued' = Queued \cup {buff[p]}
    BY <1>0, <2>2 DEF Queued
  <2>4. Filled' = Filled \ {buff[p]}
    BY <2>1 DEF Filled, Types, TypeOK
  <2>5. \A i, j \in 1 .. Len(queue') : queue'[i] = queue'[j] => i = j
    BY <1>0, <2>1, <2>2 DEF Apart, Queued
  <2>6. \A q \in Producers : buff'[q] # None => buff'[q] \notin Queued' /\ buff'[q] # pointer
    BY <2>1, <2>3 DEF Apart, Types, TypeOK
  <2>7. Apart'
    BY <2>1, <2>3, <2>5, <2>6 DEF Apart
  <2>8. Places'
    BY <2>1, <2>3, <2>4 DEF Places, Filled
  <2>9. QED
    BY <2>7, <2>8
<1>4. CASE Receive
  <2>1. /\ pointer = None /\ queue # <<>> /\ pointer' = queue[1] /\ queue' = Tail(queue)
        /\ UNCHANGED <<heap, buff>>
    BY <1>4 DEF Receive, Control, producer
  <2>2. /\ Len(queue) > 0 /\ Len(queue') = Len(queue) - 1
        /\ \A i \in 1 .. Len(queue') : queue'[i] = queue[i + 1]
    BY <1>0, <2>1
  <2>3. Queued' = Queued \ {queue[1]} /\ queue[1] \in Queued
    <3>1. \A i \in 2 .. Len(queue) : queue[i] = queue'[i - 1] /\ i - 1 \in 1 .. Len(queue')
      BY <1>0, <2>2
    <3>2. \A i \in 1 .. Len(queue') : i + 1 \in 2 .. Len(queue)
      BY <1>0, <2>2
    <3>3. \A i \in 1 .. Len(queue) : queue[i] = queue[1] <=> i = 1
      BY <1>0, <2>2 DEF Apart
    <3>4. 1 \in 1 .. Len(queue) /\ (1 .. Len(queue)) = {1} \cup (2 .. Len(queue))
      BY <1>0, <2>2
    <3>5. Queued = {queue[1]} \cup {queue[i] : i \in 2 .. Len(queue)}
      BY <3>4 DEF Queued
    <3>6. Queued' = {queue[i] : i \in 2 .. Len(queue)}
      BY <2>2, <3>1, <3>2 DEF Queued
    <3>7. queue[1] \notin {queue[i] : i \in 2 .. Len(queue)}
      BY <1>0, <3>3, <3>4
    <3>8. QED
      BY <3>4, <3>5, <3>6, <3>7
  <2>4. \A i, j \in 1 .. Len(queue') : queue'[i] = queue'[j] => i = j
    <3>1. SUFFICES ASSUME NEW i \in 1 .. Len(queue'), NEW j \in 1 .. Len(queue'),
                          queue'[i] = queue'[j]
                   PROVE  i = j
      OBVIOUS
    <3>2. i + 1 \in 1 .. Len(queue) /\ j + 1 \in 1 .. Len(queue)
      BY <1>0, <2>2
    <3>3. queue[i + 1] = queue[j + 1]
      BY <2>2, <3>1
    <3>4. i + 1 = j + 1
      BY <1>0, <3>2, <3>3 DEF Apart
    <3>5. QED
      BY <3>4
  <2>5. Apart'
    BY <2>1, <2>3, <2>4 DEF Apart
  <2>6. Places'
    BY <1>0, <2>1, <2>3 DEF Places, Filled
  <2>7. QED
    BY <2>5, <2>6
<1>5. CASE Delete
  <2>1. /\ pointer # None /\ pointer' = None /\ heap' = heap \ {pointer}
        /\ UNCHANGED <<queue, buff>>
    BY <1>5 DEF Delete, Control, producer
  <2>2. Queued' = Queued /\ Filled' = Filled /\ pointer \notin Filled
    BY <2>1 DEF Queued, Filled, Apart
  <2>3. QED
    BY <1>0, <2>1, <2>2 DEF Apart, Places
<1>6. \/ UNCHANGED <<queue, heap, buff, pointer>>
      \/ \E p \in Producers : Cut(p) \/ Send(p)
      \/ Receive \/ Delete
  BY Steps DEF DoPrint, PrintX, SetAllowPrint, StartTask, PrintPiece, producer, printing, vars
<1>7. QED
  BY <1>1, <1>2, <1>3, <1>4, <1>5, <1>6

LEMMA CountNext ==
  ASSUME Types, Control, Holds, Fresh, Apart, Places, Count, [Next]_vars
  PROVE  Count'
<1>0. queue \in Seq(Pieces) /\ Len(queue) \in Nat /\ IsFiniteSet(Filling)
      /\ Cardinality(Filling) \in Nat
  BY DbgAssumption, FS_Subset, FS_CardinalityType DEF Types, TypeOK, Filling
<1>1. ASSUME UNCHANGED <<queue, heap, buff, pointer>> PROVE Count'
  BY <1>1 DEF Count, Filling
<1>2. ASSUME NEW p \in Producers, Cut(p) PROVE Count'
  <2> DEFINE b == Piece(p, at[p], at[p] + Size(p))
  <2>1. /\ buff' = [buff EXCEPT ![p] = b] /\ heap' = heap \cup {b}
        /\ b \notin heap /\ b # None /\ buff[p] = None
        /\ UNCHANGED <<queue, pointer>>
    BY <1>2, PieceFacts, NewPiece DEF Cut, Control, Types, TypeOK, printing
  <2>2. Filling' = Filling \cup {p} /\ p \notin Filling
    BY <2>1 DEF Filling, Types, TypeOK
  <2>3. Cardinality(Filling') = Cardinality(Filling) + 1
    BY <1>0, <2>2, FS_AddElement
  <2>4. IsFiniteSet(heap') /\ Cardinality(heap') = Cardinality(heap) + 1
    BY <2>1, FS_AddElement DEF Count
  <2>5. QED
    BY <1>0, <2>1, <2>3, <2>4 DEF Count
<1>3. ASSUME NEW p \in Producers, Send(p) PROVE Count'
  <2>1. /\ buff[p] # None /\ buff[p] \in Pieces
        /\ buff' = [buff EXCEPT ![p] = None]
        /\ queue' = Append(queue, buff[p])
        /\ UNCHANGED <<heap, pointer>>
    BY <1>3 DEF Control, Types, TypeOK, Send, printing
  <2>2. Filling' = Filling \ {p} /\ p \in Filling
    BY <2>1 DEF Filling, Types, TypeOK
  <2>3. Cardinality(Filling') = Cardinality(Filling) - 1
    BY <1>0, <2>2, FS_RemoveElement
  <2>4. Len(queue') = Len(queue) + 1
    BY <1>0, <2>1
  <2>5. QED
    BY <1>0, <2>1, <2>3, <2>4 DEF Count
<1>4. CASE Receive
  <2>1. /\ pointer = None /\ queue # <<>> /\ pointer' = queue[1] /\ queue' = Tail(queue)
        /\ UNCHANGED <<heap, buff>>
    BY <1>4 DEF Receive, Control, producer
  <2>2. pointer' # None /\ Len(queue') = Len(queue) - 1
    BY <1>0, <2>1, DbgAssumption
  <2>3. Filling' = Filling
    BY <2>1 DEF Filling
  <2>4. QED
    BY <1>0, <2>1, <2>2, <2>3 DEF Count
<1>5. CASE Delete
  <2>1. /\ pointer # None /\ pointer' = None /\ heap' = heap \ {pointer}
        /\ UNCHANGED <<queue, buff>>
    BY <1>5 DEF Delete, Control, producer
  <2>2. pointer \in heap /\ Filling' = Filling
    BY <2>1 DEF Places, Filling
  <2>3. IsFiniteSet(heap') /\ Cardinality(heap') = Cardinality(heap) - 1
    BY <2>1, <2>2, FS_RemoveElement DEF Count
  <2>4. QED
    BY <1>0, <2>1, <2>2, <2>3, FS_CardinalityType DEF Count
<1>6. \/ UNCHANGED <<queue, heap, buff, pointer>>
      \/ \E p \in Producers : Cut(p) \/ Send(p)
      \/ Receive \/ Delete
  BY Steps DEF DoPrint, PrintX, SetAllowPrint, StartTask, PrintPiece, producer, printing, vars
<1>7. QED
  BY <1>1, <1>2, <1>3, <1>4, <1>5, <1>6

LEMMA OwnerInvariantHolds == Spec => []OwnerInvariant
<1>1. Init => OwnerInvariant
  BY InitOwner
<1>2. OwnerInvariant /\ [Next]_vars => OwnerInvariant'
  BY TypesNext, ControlNext, HoldsNext, FreshNext, ApartPlacesNext, CountNext
     DEF OwnerInvariant
<1>3. QED
  BY <1>1, <1>2, PTL DEF Spec

\* The queue keeps to its limit, a buffer to its size, and a task that is not
\* in doPrint has queued its message to the end.
THEOREM TypeCorrect == Spec => []TypeOK
<1>1. OwnerInvariant => TypeOK
  BY DEF OwnerInvariant, Types
<1>2. QED
  BY <1>1, OwnerInvariantHolds, PTL

\* No buffer is leaked, freed twice or printed after it was freed: each that is
\* allocated is in one place, and all that are in a place are allocated.
THEOREM OneOwnerEach == Spec => []OneOwner
<1>1. OwnerInvariant => OneOwner
  <2> SUFFICES ASSUME OwnerInvariant PROVE OneOwner
    OBVIOUS
  <2>0. DOMAIN queue = 1 .. Len(queue)
    <3>1. queue \in Seq(Pieces)
      BY DEF OwnerInvariant, Types, TypeOK
    <3>2. QED
      BY <3>1
  <2>1. ToSet(queue) = Queued
    BY <2>0 DEF ToSet, Queued
  <2>2. heap = (ToSet(queue) \cup {buff[p] : p \in Producers} \cup {pointer}) \ {None}
    BY <2>1 DEF OwnerInvariant, Places, Filled
  <2>3. QED
    BY <2>2 DEF OwnerInvariant, Count, Filling, OneOwner
<1>2. QED
  BY <1>1, OwnerInvariantHolds, PTL

-----------------------------------------------------------------------------
(* Streams.                                                                *)

\* The pieces in flight have a beginning and an end.
LEMMA InFlight ==
  ASSUME Types, Control, Places
  PROVE  /\ \A i \in 1 .. Len(queue) :
              /\ queue[i] \in Pieces /\ queue[i].by \in Producers
              /\ queue[i].from \in Nat /\ queue[i].to \in Nat /\ queue[i].from <= queue[i].to
         /\ printer = "print" =>
              /\ pointer \in Pieces /\ pointer.by \in Producers
              /\ pointer.from \in Nat /\ pointer.to \in Nat /\ pointer.from <= pointer.to
<1>1. queue \in Seq(Pieces) /\ None \notin Pieces
  BY DbgAssumption DEF Types, TypeOK
<1>2. \A i \in 1 .. Len(queue) : queue[i] \in heap
  BY <1>1 DEF Places, Queued
<1>3. printer = "print" => pointer \in heap
  BY DEF Places, Control
<1>4. \A b \in heap : /\ b \in Pieces /\ b.by \in Producers
                      /\ b.from \in Nat /\ b.to \in Nat /\ b.from <= b.to
  BY DEF Types, TypeOK, Pieces
<1>5. QED
  BY <1>2, <1>3, <1>4

\* What is among the ends, without the construction of the set.
LEMMA EndFacts ==
  ASSUME Types, Control, Places, NEW p \in Producers, NEW i \in 0 .. Len(queue)
  PROVE  /\ Ends(p, i) \subseteq Int
         /\ Len(output[p]) \in Nat
         /\ \A x : x \in Ends(p, i) <=>
              \/ x = Len(output[p])
              \/ printer = "print" /\ pointer.by = p /\ x = pointer.to
              \/ \E j \in 1 .. i : queue[j].by = p /\ x = queue[j].to
<1>1. queue \in Seq(Pieces) /\ Len(queue) \in Nat
  BY DEF Types, TypeOK
<1>2. Len(output[p]) \in Nat
  BY DEF Types
<1>3. \A x : x \in Ends(p, i) <=>
              \/ x = Len(output[p])
              \/ printer = "print" /\ pointer.by = p /\ x = pointer.to
              \/ \E j \in 1 .. i : queue[j].by = p /\ x = queue[j].to
  BY DEF Ends
<1>4. QED
  BY <1>1, <1>2, <1>3, InFlight

LEMMA StreamSame ==
  ASSUME StreamInvariant, Types, UNCHANGED <<queue, at, output>>,
         printer' = "print" <=> printer = "print",
         printer = "print" => pointer' = pointer
  PROVE  StreamInvariant'
<1>1. \A p, i : Ends(p, i)' = Ends(p, i)
  BY DEF Ends
<1>2. QED
  BY <1>1 DEF StreamInvariant

LEMMA StreamSend ==
  ASSUME OwnerInvariant, OwnerInvariant', StreamInvariant, NEW p \in Producers, Send(p)
  PROVE  StreamInvariant'
<1> USE DEF OwnerInvariant
<1>0. PICK n \in Nat : n = Len(queue)
  BY DEF Types, TypeOK
<1>1. /\ buff[p].by = p /\ buff[p].from = at[p] /\ buff[p].to = at[p] + Size(p)
      /\ at[p] \in Nat /\ Size(p) \in Nat
      /\ at'[p] = at[p] + Size(p) /\ \A q \in Producers : q # p => at'[q] = at[q]
  BY PieceFacts, SizeFacts DEF Control, Holds, Send, Types
<1>2. /\ n \in Nat /\ n = Len(queue) /\ Len(queue') = n + 1 /\ queue'[n + 1] = buff[p]
      /\ \A i \in 1 .. n : queue'[i] = queue[i]
      /\ UNCHANGED <<printer, pointer, output>>
  BY <1>0 DEF Types, TypeOK, Send, printing, printed
<1>3. \A q \in Producers, i \in 0 .. n : Ends(q, i)' = Ends(q, i)
  <2> SUFFICES ASSUME NEW q \in Producers, NEW i \in 0 .. n PROVE Ends(q, i)' = Ends(q, i)
    OBVIOUS
  <2>1. \A j \in 1 .. i : j \in 1 .. n /\ queue'[j] = queue[j]
    BY <1>2
  <2>2. QED
    BY <1>2, <2>1 DEF Ends
<1>4. \A q \in Producers : Ends(q, n + 1)' = Ends(q, n) \cup (IF q = p THEN {buff[p].to} ELSE {})
  <2> SUFFICES ASSUME NEW q \in Producers
               PROVE  Ends(q, n + 1)' = Ends(q, n) \cup (IF q = p THEN {buff[p].to} ELSE {})
    OBVIOUS
  <2>1. 1 .. (n + 1) = (1 .. n) \cup {n + 1}
    BY <1>2
  <2>2. \A x : x \in Ends(q, n + 1)' <=> x \in Ends(q, n) \/ (q = p /\ x = buff[p].to)
    <3>1. n + 1 \in 0 .. Len(queue') /\ n \in 0 .. n
      BY <1>2
    <3>2. \A x : x \in Ends(q, n + 1)' <=>
              \/ x = Len(output[q])
              \/ printer = "print" /\ pointer.by = q /\ x = pointer.to
              \/ \E j \in 1 .. (n + 1) : queue'[j].by = q /\ x = queue'[j].to
      BY <1>2 DEF Ends
    <3>3. \A x : x \in Ends(q, n) <=>
              \/ x = Len(output[q])
              \/ printer = "print" /\ pointer.by = q /\ x = pointer.to
              \/ \E j \in 1 .. n : queue[j].by = q /\ x = queue[j].to
      BY DEF Ends
    <3>4. ASSUME NEW x
          PROVE  (\E j \in 1 .. (n + 1) : queue'[j].by = q /\ x = queue'[j].to)
                 <=> \/ \E j \in 1 .. n : queue[j].by = q /\ x = queue[j].to
                     \/ q = p /\ x = buff[p].to
      <4>1. \A j \in 1 .. n : j \in 1 .. (n + 1) /\ queue'[j] = queue[j]
        BY <1>2
      <4>2. n + 1 \in 1 .. (n + 1) /\ queue'[n + 1].by = p /\ queue'[n + 1].to = buff[p].to
        BY <1>1, <1>2
      <4>3. QED
        BY <2>1, <4>1, <4>2
    <3>5. QED
      BY <3>2, <3>3, <3>4
  <2>3. QED
    BY <2>2
<1>5. ASSUME NEW i \in 1 .. (n + 1) PROVE IsLast(queue[i].from, Ends(queue[i].by, i - 1))'
  <2>1. CASE i = n + 1
    <3>1. i - 1 = n /\ n \in 0 .. n
      BY <1>2, <2>1
    <3>2. IsLast(at[p], Ends(p, n)')
      BY <1>2, <1>3, <3>1 DEF StreamInvariant
    <3>3. queue'[i].by = p /\ queue'[i].from = at[p]
      BY <1>1, <1>2, <2>1
    <3>4. QED
      BY <3>1, <3>2, <3>3 DEF IsLast, Ends
  <2>2. CASE i \in 1 .. n
    <3>1. i - 1 \in 0 .. n /\ queue'[i] = queue[i]
      BY <1>2, <2>2
    <3>2. PICK q \in Producers : q = queue[i].by
      BY <1>2, <2>2, InFlight
    <3>3. IsLast(queue[i].from, Ends(q, i - 1)')
      BY <1>2, <1>3, <2>2, <3>1, <3>2 DEF StreamInvariant
    <3>4. QED
      BY <3>1, <3>2, <3>3 DEF IsLast, Ends
  <2>3. QED
    BY <1>2, <2>1, <2>2
<1>6. \A q \in Producers : IsLast(at'[q], Ends(q, n + 1)')
  <2>1. \A q \in Producers : IsLast(at[q], Ends(q, n)) /\ Ends(q, n) \subseteq Int
    BY <1>2, EndFacts DEF StreamInvariant
  <2>2. QED
    BY <1>1, <1>4, <2>1 DEF IsLast
<1>7. printer' = "print" => pointer'.from = Len(output'[pointer'.by])
  BY <1>2 DEF StreamInvariant
<1>8. QED
  BY <1>2, <1>5, <1>6, <1>7 DEF StreamInvariant

LEMMA StreamReceive ==
  ASSUME OwnerInvariant, OwnerInvariant', StreamInvariant, Receive
  PROVE  StreamInvariant'
<1> USE DEF OwnerInvariant
<1>0. PICK n \in Nat : n = Len(queue)
  BY DEF Types, TypeOK
<1>1. /\ n \in Nat \ {0} /\ n = Len(queue) /\ Len(queue') = n - 1
      /\ \A i \in 1 .. n - 1 : queue'[i] = queue[i + 1]
      /\ pointer' = queue[1] /\ printer = "receive" /\ printer' = "print"
      /\ UNCHANGED <<at, output>>
  <2>1. queue \in Seq(Pieces) /\ queue # <<>>
    BY DEF Types, TypeOK, Receive
  <2>2. QED
    BY <1>0, <2>1 DEF Receive, producer, printed
<1>2. ASSUME NEW q \in Producers, NEW i \in 0 .. n - 1 PROVE Ends(q, i)' = Ends(q, i + 1)
  <2>1. \A x : x \in Ends(q, i)' <=>
            \/ x = Len(output[q])
            \/ queue[1].by = q /\ x = queue[1].to
            \/ \E j \in 1 .. i : queue'[j].by = q /\ x = queue'[j].to
    BY <1>1 DEF Ends
  <2>2. \A x : x \in Ends(q, i + 1) <=>
            \/ x = Len(output[q])
            \/ \E j \in 1 .. (i + 1) : queue[j].by = q /\ x = queue[j].to
    BY <1>1 DEF Ends
  <2>3. /\ \A j \in 1 .. i : j + 1 \in 1 .. (i + 1) /\ queue'[j] = queue[j + 1]
        /\ \A j \in 1 .. (i + 1) : j = 1 \/ (j - 1 \in 1 .. i /\ queue'[j - 1] = queue[j])
        /\ 1 \in 1 .. (i + 1)
    BY <1>1
  <2>4. ASSUME NEW x
        PROVE  (\E j \in 1 .. (i + 1) : queue[j].by = q /\ x = queue[j].to)
               <=> \/ queue[1].by = q /\ x = queue[1].to
                   \/ \E j \in 1 .. i : queue'[j].by = q /\ x = queue'[j].to
    <3>1. ASSUME NEW j \in 1 .. (i + 1), queue[j].by = q, x = queue[j].to
          PROVE  \/ queue[1].by = q /\ x = queue[1].to
                 \/ \E k \in 1 .. i : queue'[k].by = q /\ x = queue'[k].to
      BY <2>3, <3>1
    <3>2. ASSUME NEW j \in 1 .. i, queue'[j].by = q, x = queue'[j].to
          PROVE  \E k \in 1 .. (i + 1) : queue[k].by = q /\ x = queue[k].to
      BY <2>3, <3>2
    <3>3. QED
      BY <2>3, <3>1, <3>2
  <2>5. \A x : x \in Ends(q, i)' <=> x \in Ends(q, i + 1)
    BY <2>1, <2>2, <2>4
  <2>6. QED
    BY <2>5
<1>3. pointer'.from = Len(output'[pointer'.by])
  <2>1. IsLast(queue[1].from, Ends(queue[1].by, 0))
    BY <1>1 DEF StreamInvariant
  <2>2. \A q \in Producers : Ends(q, 0) = {Len(output[q])}
    BY <1>1 DEF Ends
  <2>3. queue[1].by \in Producers
    BY <1>1, InFlight
  <2>4. QED
    BY <1>1, <2>1, <2>2, <2>3 DEF IsLast
<1>4. ASSUME NEW i \in 1 .. n - 1 PROVE IsLast(queue[i].from, Ends(queue[i].by, i - 1))'
  <2>1. /\ i + 1 \in 1 .. n /\ i - 1 \in 0 .. n - 1 /\ (i - 1) + 1 = i /\ (i + 1) - 1 = i
        /\ queue'[i] = queue[i + 1]
    BY <1>1
  <2>2. PICK q \in Producers : q = queue[i + 1].by
    BY <1>1, <2>1, InFlight
  <2>3. IsLast(queue[i + 1].from, Ends(q, i))
    BY <1>1, <2>1, <2>2 DEF StreamInvariant
  <2>4. Ends(q, i - 1)' = Ends(q, i)
    BY <1>2, <2>1
  <2>5. QED
    BY <2>1, <2>2, <2>3, <2>4 DEF IsLast, Ends
<1>5. ASSUME NEW q \in Producers PROVE IsLast(at'[q], Ends(q, n - 1)')
  <2>1. n - 1 \in 0 .. n - 1 /\ (n - 1) + 1 = n
    BY <1>1
  <2>2. QED
    BY <1>1, <1>2, <2>1 DEF StreamInvariant
<1>6. QED
  BY <1>1, <1>3, <1>4, <1>5 DEF StreamInvariant

LEMMA StreamPrint ==
  ASSUME OwnerInvariant, OwnerInvariant', StreamInvariant, PrintPiece
  PROVE  /\ StreamInvariant'
         /\ Len(output'[pointer.by]) = pointer.to
<1> USE DEF OwnerInvariant
<1>0. PICK p \in Producers : p = pointer.by
  BY InFlight DEF PrintPiece
<1>1. /\ printer = "print" /\ printer' = "delete" /\ UNCHANGED <<queue, at>>
      /\ output' = [output EXCEPT ![p] = output[p] \o Bytes(pointer)]
      /\ p = pointer.by /\ pointer \in Pieces /\ pointer.from <= pointer.to
      /\ pointer.from \in Nat /\ pointer.to \in Nat
      /\ pointer.from = Len(output[p])
  BY <1>0, InFlight DEF PrintPiece, producer, StreamInvariant
<1>2. Len(output'[p]) = pointer.to /\ \A q \in Producers : q # p => output'[q] = output[q]
  <2>1. output[p] \in Seq(Nat) /\ output'[p] = output[p] \o Bytes(pointer)
        /\ \A q \in Producers : q # p => output'[q] = output[q]
    BY <1>1 DEF Types
  <2>2. Bytes(pointer) \in Seq(Nat) /\ Len(Bytes(pointer)) = pointer.to - pointer.from
    BY <1>1, BytesFacts
  <2>3. Len(output[p] \o Bytes(pointer)) = Len(output[p]) + Len(Bytes(pointer))
    BY <2>1, <2>2, ConcatProperties
  <2>4. QED
    BY <1>1, <2>1, <2>2, <2>3
<1>3. ASSUME NEW q \in Producers, NEW i \in 0 .. Len(queue), NEW x, IsLast(x, Ends(q, i))
      PROVE  IsLast(x, Ends(q, i)')
  <2>1. \A y : y \in Ends(q, i) <=>
              \/ y = Len(output[q])
              \/ p = q /\ y = pointer.to
              \/ \E j \in 1 .. i : queue[j].by = q /\ y = queue[j].to
    BY <1>1, EndFacts
  <2>2. \A y : y \in Ends(q, i)' <=>
              \/ y = Len(output'[q])
              \/ \E j \in 1 .. i : queue[j].by = q /\ y = queue[j].to
    BY <1>1 DEF Ends
  <2>3. CASE q = p
    <3>1. x = Len(output[p]) => x = pointer.to
      BY <1>1, <1>3, <2>1, <2>3 DEF IsLast
    <3>2. x \in Ends(q, i)'
      BY <1>2, <1>3, <2>1, <2>2, <2>3, <3>1 DEF IsLast
    <3>3. \A y \in Ends(q, i)' : y \in Ends(q, i)
      BY <1>2, <2>1, <2>2, <2>3
    <3>4. QED
      BY <1>3, <3>2, <3>3 DEF IsLast
  <2>4. CASE q # p
    BY <1>2, <1>3, <2>1, <2>2, <2>4 DEF IsLast
  <2>5. QED
    BY <2>3, <2>4
<1>4. ASSUME NEW i \in 1 .. Len(queue) PROVE IsLast(queue[i].from, Ends(queue[i].by, i - 1))'
  <2>1. i - 1 \in 0 .. Len(queue)
    BY DEF Types, TypeOK
  <2>2. PICK q \in Producers : q = queue[i].by
    BY InFlight
  <2>3. IsLast(queue[i].from, Ends(q, i - 1)')
    BY <1>3, <2>1, <2>2 DEF StreamInvariant
  <2>4. QED
    BY <1>1, <2>2, <2>3 DEF IsLast, Ends
<1>5. ASSUME NEW q \in Producers PROVE IsLast(at[q], Ends(q, Len(queue)))'
  <2>1. PICK n \in 0 .. Len(queue) : n = Len(queue)
    BY DEF Types, TypeOK
  <2>2. IsLast(at[q], Ends(q, n)')
    BY <1>3, <2>1 DEF StreamInvariant
  <2>3. QED
    BY <1>1, <2>1, <2>2 DEF IsLast, Ends
<1>6. QED
  BY <1>1, <1>2, <1>4, <1>5 DEF StreamInvariant

LEMMA StreamNext ==
  ASSUME OwnerInvariant, OwnerInvariant', StreamInvariant, [Next]_vars
  PROVE  StreamInvariant'
<1>1. ASSUME NEW p \in Producers, NEW n \in Lengths, DoPrint(p, n) PROVE StreamInvariant'
  BY <1>1, StreamSame DEF OwnerInvariant, DoPrint, printing, printed
<1>2. ASSUME NEW p \in Producers, Cut(p) PROVE StreamInvariant'
  BY <1>2, StreamSame DEF OwnerInvariant, Cut, printing, printed
<1>3. ASSUME NEW p \in Producers, PrintX(p) PROVE StreamInvariant'
  BY <1>3, StreamSame DEF OwnerInvariant, PrintX, printing
<1>4. CASE SetAllowPrint \/ StartTask \/ Delete \/ UNCHANGED vars
  BY <1>4, StreamSame
     DEF OwnerInvariant, SetAllowPrint, StartTask, Delete, producer, printing, printed, vars
<1>5. QED
  BY <1>1, <1>2, <1>3, <1>4, StreamSend, StreamReceive, StreamPrint, Steps

-----------------------------------------------------------------------------
(* The refinement of PrintStreams.                                         *)

\* Only the piece at hand is shown, and it is the next that its task asked for.
LEMMA PrintShows ==
  ASSUME OwnerInvariant, OwnerInvariant', StreamInvariant, PrintPiece
  PROVE  Promise!Next
<1> USE DEF OwnerInvariant
<1>1. PICK p \in Producers : p = pointer.by
  BY InFlight DEF PrintPiece
<1>2. /\ printer = "print" /\ UNCHANGED asked
      /\ output' = [output EXCEPT ![p] = output[p] \o Bytes(pointer)]
      /\ pointer.from \in Nat /\ pointer.to \in Nat /\ pointer.from <= pointer.to
      /\ pointer.from = Len(output[p])
  BY <1>1, InFlight DEF PrintPiece, producer, StreamInvariant
<1>3. PICK n \in Nat : n = pointer.to - pointer.from
  BY <1>2
<1>4. n \in 0 .. asked[p] - Len(output[p])
  <2>1. PICK m \in 0 .. Len(queue) : m = Len(queue)
    BY DEF Types, TypeOK
  <2>2. pointer.to \in Ends(p, m)
    BY <1>1, <1>2, <2>1, EndFacts
  <2>3. pointer.to <= at[p]
    BY <2>1, <2>2 DEF StreamInvariant, IsLast
  <2>4. at[p] <= asked[p] /\ at[p] \in Nat /\ asked[p] \in Nat
    BY DEF Types, TypeOK
  <2>5. QED
    BY <1>2, <1>3, <2>3, <2>4
<1>5. Bytes(pointer) = [i \in 1 .. n |-> Len(output[p]) + i]
  BY <1>2, <1>3 DEF Bytes
<1>6. Promise!Show(p, n)
  BY <1>2, <1>5 DEF Promise!Show
<1>7. QED
  BY <1>4, <1>6 DEF Promise!Next

LEMMA StepPromise ==
  ASSUME OwnerInvariant, OwnerInvariant', StreamInvariant, [Next]_vars
  PROVE  [Promise!Next]_<<asked, output>>
<1>1. ASSUME NEW p \in Producers, NEW n \in Lengths, DoPrint(p, n) PROVE Promise!Next
  <2>1. /\ asked' = [asked EXCEPT ![p] = asked[p] + n] /\ UNCHANGED output
        /\ n \in Nat /\ asked[p] \in Nat /\ asked \in [Producers -> Nat]
    BY <1>1, DbgAssumption DEF DoPrint, printed, OwnerInvariant, Types
  <2>2. asked'[p] = asked[p] + n /\ asked'[p] >= asked[p]
    BY <2>1
  <2>3. Promise!Ask(p)
    BY <2>1, <2>2 DEF Promise!Ask
  <2>4. QED
    BY <2>3 DEF Promise!Next
<1>2. ASSUME NEW p \in Producers, Cut(p) \/ Send(p) \/ PrintX(p)
      PROVE  UNCHANGED <<asked, output>>
  BY <1>2 DEF Cut, Send, PrintX, printed
<1>3. CASE SetAllowPrint \/ StartTask \/ Receive \/ Delete \/ UNCHANGED vars
  BY <1>3 DEF SetAllowPrint, StartTask, Receive, Delete, producer, printed, vars
<1>4. QED
  BY <1>1, <1>2, <1>3, PrintShows, Steps

\* However the pieces of the tasks mix in the queue, each task's bytes come out
\* once each, in order, and none that it did not ask for.
THEOREM Streams == Spec => ImplementsStreams
<1>1. Init => Promise!Init
  BY DEF Init, Promise!Init
<1>2. Init => StreamInvariant
  BY InitOwner
<1>3. OwnerInvariant /\ OwnerInvariant' /\ StreamInvariant /\ [Next]_vars
      => StreamInvariant' /\ [Promise!Next]_<<asked, output>>
  BY StreamNext, StepPromise
<1>4. QED
  BY <1>1, <1>2, <1>3, OwnerInvariantHolds, PTL DEF Spec, ImplementsStreams, Promise!Spec
=============================================================================
