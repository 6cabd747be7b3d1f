----------------------------- MODULE NVSProofs -----------------------------
(***************************************************************************)
(* Proofs about NVS, for any tasks, storages, tags and values, and any     *)
(* number of calls.  The invariants build on each other: the control of    *)
(* the operations, then the handles, then what a task knows of the value   *)
(* that it was the last to change.                                         *)
(***************************************************************************)
EXTENDS NVS, TLAPS

Operations == Writes \cup Erases \cup Reads
Changing(c) == c.kind \in {"write", "erase"}

\* Each label belongs to some kinds of operations; until it closes, an
\* operation has not succeeded, and it uses a handle that was opened.
ControlInvariant ==
  \A t \in Tasks :
    /\ pc[t] # "idle" => call[t] \in Operations /\ answer[t] = "pending"
    /\ pc[t] \in {"change", "commit"} => Changing(call[t])
    /\ pc[t] = "measure" => call[t].kind = "readString"
    /\ pc[t] = "get" => call[t].kind \in {"readNumber", "readString"}
    /\ pc[t] \in Labels \ {"idle", "close"} => ret[t] = FALSE
    /\ pc[t] \in Using => Handle(t) # 0

IInv == TypeOK /\ ControlInvariant

\* A task's own handle: within the table, open for the task's operation, and
\* no other task's.
HandleInvariant ==
  /\ \A t \in Tasks : pc[t] \in Using =>
       /\ Handle(t) \in 1 .. Len(opened)
       /\ opened[Handle(t)] = [storage |-> call[t].storage, writable |-> Changing(call[t])]
  /\ \A t, u \in Tasks : pc[t] \in Using /\ pc[u] \in Using /\ Handle(t) = Handle(u) => t = u
  /\ \A h \in 1 .. Len(opened) : opened[h] # Closed =>
       \E t \in Tasks : pc[t] \in Using /\ Handle(t) = h

\* What a task changed stays as it left it while nobody else tries to change
\* it, and is saved when the commit has succeeded.
ValueInvariant ==
  \A t \in Tasks :
    pc[t] \in {"commit", "close"} /\ Changing(call[t]) /\ LastWord(t) =>
      /\ value[call[t].storage][call[t].tag] = call[t].value
      /\ ret[t] => saved[call[t].storage][call[t].tag] = call[t].value

-----------------------------------------------------------------------------
(* Types and control.                                                      *)

LEMMA OperationFacts ==
  ASSUME NEW c \in Operations
  PROVE  /\ c.storage \in Storages /\ c.tag \in Tags /\ c.value \in Values \cup {Absent}
         /\ c.kind \in {"write", "erase", "readNumber", "readString"}
         /\ FirstStep[c.kind] \in {"change", "get", "measure"}
         /\ FirstStep[c.kind] = "change" => Changing(c)
         /\ FirstStep[c.kind] = "measure" => c.kind = "readString"
         /\ FirstStep[c.kind] = "get" => c.kind = "readNumber"
BY DEF Operations, Writes, Erases, Reads, FirstStep, Changing

\* What the library finds for a call is a value of the type asked for.
LEMMA FoundType ==
  ASSUME TypeOK, NEW t \in Tasks, call[t] \in Operations, Handle(t) # 0, NEW type
  PROVE  /\ Found(t, type) \in Values \cup {Absent}
         /\ Found(t, type) # Absent => Found(t, type).type = type
<1>1. Handle(t) \in 1 .. Len(opened)
  BY NvsAssumption DEF TypeOK, Handle, FieldOf
<1>2. Behind(t) \in [storage : Storages, writable : BOOLEAN] \cup {Closed}
  BY <1>1 DEF TypeOK, Behind
<1>3. Behind(t) # Closed => value[Behind(t).storage][call[t].tag] \in Values \cup {Absent}
  BY <1>2, OperationFacts DEF TypeOK
<1>4. QED
  BY <1>3 DEF Found

LEMMA InitIInv == Init => IInv
<1> SUFFICES ASSUME Init PROVE IInv
  OBVIOUS
<1>1. opened = <<>> /\ Len(opened) = 0 /\ opened \in Seq([storage : Storages, writable : BOOLEAN] \cup {Closed})
  BY DEF Init
<1>2. TypeOK
  BY <1>1, NvsAssumption DEF Init, TypeOK, Keys, Labels
<1>3. ControlInvariant
  BY DEF Init, ControlInvariant, Using, Labels
<1>4. QED
  BY <1>2, <1>3 DEF IInv

LEMMA BeginIInv ==
  ASSUME IInv, NEW t \in Tasks, NEW c \in Operations, Begin(t, c)
  PROVE  IInv'
<1>1. TypeOK'
  BY NvsAssumption DEF IInv, TypeOK, Begin, Goto, Labels, flash, handles, Operations
<1>2. ControlInvariant'
  BY DEF IInv, TypeOK, ControlInvariant, Begin, Goto, Labels, Using, flash, handles, Handle, FieldOf,
         Changing
<1>3. QED
  BY <1>1, <1>2 DEF IInv

LEMMA OpenIInv ==
  ASSUME IInv, NEW t \in Tasks, Open(t)
  PROVE  IInv'
<1> USE DEF IInv, locals, flash, handles
<1>1. call[t] \in Operations /\ pc[t] = "open"
  BY DEF ControlInvariant, Open
<1>2. CASE Return(t, "false") /\ UNCHANGED handles
  <2>1. TypeOK'
    BY <1>2 DEF TypeOK, Open, Return, Goto, Labels
  <2>2. ControlInvariant'
    BY <1>2 DEF TypeOK, ControlInvariant, Open, Return, Goto, Labels, Using, Handle, FieldOf
  <2>3. QED
    BY <2>1, <2>2
<1>3. CASE /\ opened' = Append(opened, [storage |-> call[t].storage,
                                       writable |-> call[t].kind \in {"write", "erase"}])
           /\ field' = [field EXCEPT ![FieldOf(t)] = Len(opened')]
           /\ Goto(t, FirstStep[call[t].kind])
           /\ UNCHANGED <<call, answer>>
  <2>1. [storage |-> call[t].storage, writable |-> call[t].kind \in {"write", "erase"}]
          \in [storage : Storages, writable : BOOLEAN]
    BY <1>1, OperationFacts
  <2>2. /\ opened' \in Seq([storage : Storages, writable : BOOLEAN] \cup {Closed})
        /\ Len(opened') = Len(opened) + 1
        /\ Len(opened) \in Nat
    BY <1>3, <2>1 DEF TypeOK
  <2>3. field' \in [Tasks -> 0 .. Len(opened')]
    <3>1. 0 .. Len(opened) \subseteq 0 .. Len(opened') /\ Len(opened') \in 0 .. Len(opened')
      BY <2>2
    <3>2. QED
      BY <1>3, <3>1 DEF TypeOK
  <2>4. FirstStep[call[t].kind] \in Labels
    BY <1>1, OperationFacts DEF Labels
  <2>5. TypeOK'
    BY <1>3, <2>2, <2>3, <2>4 DEF TypeOK, Open, Goto
  <2>6. \A u \in Tasks : Handle(u)' = IF FieldOf(u) = FieldOf(t) THEN Len(opened') ELSE Handle(u)
    BY <1>3, NvsAssumption DEF TypeOK, Handle, FieldOf
  <2>7. ControlInvariant'
    <3> SUFFICES ASSUME NEW u \in Tasks
                 PROVE  /\ pc'[u] # "idle" => call'[u] \in Operations /\ answer'[u] = "pending"
                        /\ pc'[u] \in {"change", "commit"} => Changing(call'[u])
                        /\ pc'[u] = "measure" => call'[u].kind = "readString"
                        /\ pc'[u] = "get" => call'[u].kind \in {"readNumber", "readString"}
                        /\ pc'[u] \in Labels \ {"idle", "close"} => ret'[u] = FALSE
                        /\ pc'[u] \in Using => Handle(u)' # 0
      BY DEF ControlInvariant, Changing
    <3>1. UNCHANGED <<call, answer, ret>>
      BY <1>3 DEF Open
    <3>2. CASE u = t
      BY <1>1, <1>3, <2>2, <2>6, <3>1, <3>2, OperationFacts DEF TypeOK, ControlInvariant, Goto, Labels
    <3>3. CASE u # t
      BY <1>3, <2>2, <2>6, <3>1, <3>3 DEF TypeOK, ControlInvariant, Goto
    <3>4. QED
      BY <3>2, <3>3
  <2>8. QED
    BY <2>5, <2>7
<1>4. QED
  BY <1>2, <1>3 DEF Open

\* A value set under a storage and a tag.
LEMMA KeySet ==
  ASSUME NEW V, NEW f \in [Storages -> [Tags -> V]], NEW s, NEW g, NEW v \in V
  PROVE  /\ [f EXCEPT ![s][g] = v] \in [Storages -> [Tags -> V]]
         /\ \A r \in Storages, h \in Tags :
              [f EXCEPT ![s][g] = v][r][h] = IF r = s /\ h = g THEN v ELSE f[r][h]
OBVIOUS

LEMMA ChangeIInv ==
  ASSUME IInv, NEW t \in Tasks, Change(t)
  PROVE  IInv'
<1>1. call[t] \in Operations /\ Changing(call[t])
  BY DEF IInv, ControlInvariant, Change
<1>2. call[t].value \in Values \cup {Absent}
  BY <1>1, OperationFacts
<1>3. TypeOK'
  <2> DEFINE K == [Storages -> [Tags -> Values \cup {Absent}]]
  <2>1. PICK s, g :
          /\ value' \in {value, [value EXCEPT ![s][g] = call[t].value]}
          /\ saved' \in {saved, [saved EXCEPT ![s][g] = call[t].value]}
    BY DEF Change
  <2>2. value \in K /\ saved \in K /\ author \in [Storages -> [Tags -> Tasks \cup {NoCall}]]
    BY DEF IInv, TypeOK
  <2>3. [value EXCEPT ![s][g] = call[t].value] \in K
    BY <2>2, <1>2, KeySet
  <2>4. [saved EXCEPT ![s][g] = call[t].value] \in K
    BY <2>2, <1>2, KeySet
  <2>5. author' \in [Storages -> [Tags -> Tasks \cup {NoCall}]]
    BY <2>2, KeySet DEF Change
  <2>6. value' \in K /\ saved' \in K
    BY <2>1, <2>2, <2>3, <2>4
  <2>7. QED
    BY <2>5, <2>6 DEF IInv, TypeOK, Change, Goto, Labels, handles, locals
<1>4. ControlInvariant'
  BY <1>1 DEF IInv, TypeOK, ControlInvariant, Change, Goto, Labels, Using, Handle, FieldOf, Changing,
              handles, locals
<1>5. QED
  BY <1>3, <1>4 DEF IInv

LEMMA CommitIInv ==
  ASSUME IInv, NEW t \in Tasks, Commit(t)
  PROVE  IInv'
<1>1. call[t] \in Operations /\ Handle(t) # 0
  BY DEF IInv, ControlInvariant, Commit, Using, Labels
<1>2. Behind(t) \in [storage : Storages, writable : BOOLEAN] \cup {Closed}
  BY <1>1, NvsAssumption DEF IInv, TypeOK, Handle, FieldOf, Behind
<1>3. Behind(t).writable => Behind(t).storage \in Storages
  BY <1>2 DEF Closed
<1>4. TypeOK'
  <2>1. saved' \in [Storages -> [Tags -> Values \cup {Absent}]]
    BY <1>3 DEF IInv, TypeOK, Commit
  <2>2. QED
    BY <2>1 DEF IInv, TypeOK, Commit, Goto, Labels, handles
<1>5. ControlInvariant'
  BY DEF IInv, TypeOK, ControlInvariant, Commit, Goto, Labels, Using, Handle, FieldOf, Changing,
         handles
<1>6. QED
  BY <1>4, <1>5 DEF IInv

LEMMA MeasureIInv ==
  ASSUME IInv, NEW t \in Tasks, Measure(t)
  PROVE  IInv'
<1>1. call[t] \in Operations /\ Handle(t) # 0 /\ call[t].kind = "readString"
  BY DEF IInv, ControlInvariant, Measure, Using, Labels
<1>2. PICK v \in {Found(t, "str")} \cup {Absent} :
        length' = [length EXCEPT ![t] = IF v = Absent THEN 0 ELSE v.of]
  BY DEF Measure
<1>3. v # Absent => v.of \in Sizes
  BY <1>1, FoundType DEF IInv, Values
<1>4. length' \in [Tasks -> {0} \cup Sizes]
  BY <1>2, <1>3 DEF IInv, TypeOK
<1>5. TypeOK'
  BY <1>4 DEF IInv, TypeOK, Measure, Goto, Labels, handles, flash
<1>6. ControlInvariant'
  BY <1>1 DEF IInv, TypeOK, ControlInvariant, Measure, Goto, Labels, Using, Handle, FieldOf, Changing,
              handles, flash
<1>7. QED
  BY <1>5, <1>6 DEF IInv

LEMMA GetIInv ==
  ASSUME IInv, NEW t \in Tasks, Get(t)
  PROVE  IInv'
<1>1. call[t] \in Operations /\ Handle(t) # 0
  BY DEF IInv, ControlInvariant, Get, Using, Labels
<1>2. \A type : Found(t, type) \in Values \cup {Absent}
  BY <1>1, FoundType DEF IInv
<1>3. result' \in [Tasks -> Values \cup {Absent}] /\ ret' \in [Tasks -> BOOLEAN]
  BY <1>2 DEF IInv, TypeOK, Get
<1>4. TypeOK'
  BY <1>3 DEF IInv, TypeOK, Get, Goto, Labels, handles, flash
<1>5. ControlInvariant'
  BY <1>1 DEF IInv, TypeOK, ControlInvariant, Get, Goto, Labels, Using, Handle, FieldOf, Changing,
              handles, flash
<1>6. QED
  BY <1>4, <1>5 DEF IInv

LEMMA CloseIInv ==
  ASSUME IInv, NEW t \in Tasks, Close(t)
  PROVE  IInv'
<1>1. Handle(t) \in 1 .. Len(opened)
  BY NvsAssumption DEF IInv, TypeOK, ControlInvariant, Close, Using, Labels, Handle, FieldOf
<1>2. /\ opened' \in Seq([storage : Storages, writable : BOOLEAN] \cup {Closed})
      /\ Len(opened') = Len(opened)
  BY <1>1 DEF IInv, TypeOK, Close
<1>3. TypeOK'
  BY <1>2 DEF IInv, TypeOK, Close, Return, Goto, Labels, flash, locals
<1>4. ControlInvariant'
  BY <1>1 DEF IInv, TypeOK, ControlInvariant, Close, Return, Goto, Labels, Using, Handle, FieldOf,
              Changing, flash, locals
<1>5. QED
  BY <1>3, <1>4 DEF IInv

LEMMA ResetIInv ==
  ASSUME IInv, Reset
  PROVE  IInv'
<1>1. opened' = <<>> /\ Len(opened') = 0
      /\ opened' \in Seq([storage : Storages, writable : BOOLEAN] \cup {Closed})
  BY DEF Reset
<1>2. TypeOK'
  BY <1>1 DEF IInv, TypeOK, Reset, Keys, Labels
<1>3. ControlInvariant'
  BY DEF Reset, ControlInvariant, Using, Labels
<1>4. QED
  BY <1>2, <1>3 DEF IInv

\* The control of the operations and the types of the variables, in every
\* reachable state: an operation that runs has its arguments and a handle, and
\* has not succeeded before its last call of the library.
THEOREM ControlCorrect == Spec => []IInv
<1>1. Init => IInv
  BY InitIInv
<1>2. IInv /\ [Next]_vars => IInv'
  <2> SUFFICES ASSUME IInv, [Next]_vars PROVE IInv'
    OBVIOUS
  <2>1. ASSUME NEW t \in Tasks, Step(t) PROVE IInv'
    BY <2>1, OpenIInv, ChangeIInv, CommitIInv, MeasureIInv, GetIInv, CloseIInv DEF Step
  <2>2. ASSUME NEW t \in Tasks, NEW c \in Operations, Begin(t, c) PROVE IInv'
    BY <2>2, BeginIInv
  <2>3. CASE Reset
    BY <2>3, ResetIInv
  <2>4. CASE UNCHANGED vars
    BY <2>4 DEF vars, IInv, TypeOK, ControlInvariant, Handle, FieldOf
  <2>5. QED
    BY <2>1, <2>2, <2>3, <2>4 DEF Next, Operations
<1>3. QED
  BY <1>1, <1>2, PTL DEF Spec

\* Every variable keeps its type, for any tasks, objects and faults.
THEOREM TypeCorrect == Spec => []TypeOK
<1>1. IInv => TypeOK
  BY DEF IInv
<1>2. QED
  BY <1>1, ControlCorrect, PTL

-----------------------------------------------------------------------------
(* Handles.  No two tasks share an object.                                 *)

\* The handles do not change, nor does the task leave its operation.
LEMMA UsingHandle ==
  ASSUME OwnObjects, IInv, HandleInvariant, NEW t \in Tasks,
         Change(t) \/ Commit(t) \/ Measure(t) \/ Get(t)
  PROVE  HandleInvariant'
<1>1. UNCHANGED <<opened, field, call>>
  BY DEF Change, Commit, Measure, Get, handles
<1>2. \A u \in Tasks : pc'[u] \in Using <=> pc[u] \in Using
  BY DEF IInv, TypeOK, Change, Commit, Measure, Get, Goto, Using, Labels
<1>3. QED
  BY <1>1, <1>2 DEF HandleInvariant, Handle, FieldOf, Changing

LEMMA OpenHandle ==
  ASSUME OwnObjects, IInv, HandleInvariant, NEW t \in Tasks, Open(t)
  PROVE  HandleInvariant'
<1>1. call[t] \in Operations /\ pc[t] = "open"
  BY DEF IInv, ControlInvariant, Open
<1>2. CASE Return(t, "false") /\ UNCHANGED handles
  <2>1. \A u \in Tasks : pc'[u] \in Using <=> pc[u] \in Using
    BY <1>1, <1>2 DEF IInv, TypeOK, Return, Goto, Using, Labels
  <2>2. \A u \in Tasks : pc[u] \in Using => call'[u] = call[u]
    BY <1>1, <1>2 DEF IInv, TypeOK, Return, Using, Labels
  <2>3. UNCHANGED <<opened, field>>
    BY <1>2 DEF handles
  <2>4. QED
    BY <2>1, <2>2, <2>3 DEF HandleInvariant, Handle, FieldOf, Changing
<1>3. CASE /\ opened' = Append(opened, [storage |-> call[t].storage,
                                       writable |-> call[t].kind \in {"write", "erase"}])
           /\ field' = [field EXCEPT ![FieldOf(t)] = Len(opened')]
           /\ Goto(t, FirstStep[call[t].kind])
           /\ UNCHANGED <<call, answer>>
  <2> DEFINE new == [storage |-> call[t].storage, writable |-> Changing(call[t])]
  <2>1. /\ Len(opened) \in Nat /\ Len(opened') = Len(opened) + 1
        /\ opened'[Len(opened')] = new
        /\ \A h \in 1 .. Len(opened) : opened'[h] = opened[h]
    <3>1. opened' = Append(opened, new)
      BY <1>3 DEF Changing
    <3>2. \E S : opened \in Seq(S) /\ new \in S
      <4>1. new \in [storage : Storages, writable : BOOLEAN] \cup {Closed}
        BY <1>1, OperationFacts DEF Changing
      <4>2. QED
        BY <4>1 DEF IInv, TypeOK
    <3>3. QED
      BY <3>1, <3>2
  <2>2. /\ Handle(t)' = Len(opened')
        /\ \A u \in Tasks \ {t} : Handle(u)' = Handle(u)
    BY <1>3, NvsAssumption DEF IInv, TypeOK, OwnObjects, Handle, FieldOf
  <2>3. /\ pc'[t] \in Using
        /\ \A u \in Tasks \ {t} : pc'[u] = pc[u]
    BY <1>1, <1>3, OperationFacts DEF IInv, TypeOK, Goto, Using, Labels
  <2>4. \A u \in Tasks : pc'[u] \in Using =>
          /\ Handle(u)' \in 1 .. Len(opened')
          /\ opened'[Handle(u)'] = [storage |-> call'[u].storage, writable |-> Changing(call'[u])]
    BY <1>3, <2>1, <2>2, <2>3 DEF HandleInvariant
  <2>5. \A u, v \in Tasks : pc'[u] \in Using /\ pc'[v] \in Using /\ Handle(u)' = Handle(v)' => u = v
    <3>1. \A u \in Tasks \ {t} : pc'[u] \in Using => Handle(u)' # Handle(t)'
      <4> SUFFICES ASSUME NEW u \in Tasks \ {t}, pc'[u] \in Using
                   PROVE  Handle(u)' # Handle(t)'
        OBVIOUS
      <4>1. Handle(u) \in 1 .. Len(opened)
        BY <2>3 DEF HandleInvariant
      <4>2. QED
        BY <4>1, <2>1, <2>2
    <3>2. \A u, v \in Tasks \ {t} :
            pc'[u] \in Using /\ pc'[v] \in Using /\ Handle(u)' = Handle(v)' => u = v
      BY <2>2, <2>3 DEF HandleInvariant
    <3>3. QED
      BY <3>1, <3>2
  <2>6. \A h \in 1 .. Len(opened') : opened'[h] # Closed =>
          \E u \in Tasks : pc'[u] \in Using /\ Handle(u)' = h
    <3> SUFFICES ASSUME NEW h \in 1 .. Len(opened'), opened'[h] # Closed
                 PROVE  \E u \in Tasks : pc'[u] \in Using /\ Handle(u)' = h
      OBVIOUS
    <3>1. CASE h = Len(opened')
      BY <3>1, <2>2, <2>3
    <3>2. CASE h # Len(opened')
      <4>1. h \in 1 .. Len(opened) /\ opened[h] # Closed
        BY <3>2, <2>1
      <4>2. PICK u \in Tasks : pc[u] \in Using /\ Handle(u) = h
        BY <4>1 DEF HandleInvariant
      <4>3. u # t
        BY <4>2, <1>1 DEF Using
      <4>4. QED
        BY <4>2, <4>3, <2>2, <2>3
    <3>3. QED
      BY <3>1, <3>2
  <2>7. QED
    BY <2>4, <2>5, <2>6 DEF HandleInvariant, Changing
<1>4. QED
  BY <1>2, <1>3 DEF Open

LEMMA CloseHandle ==
  ASSUME OwnObjects, IInv, HandleInvariant, NEW t \in Tasks, Close(t)
  PROVE  HandleInvariant'
<1>1. pc[t] \in Using /\ Handle(t) \in 1 .. Len(opened)
  BY DEF HandleInvariant, Close, Using, Labels
<1>2. /\ Len(opened') = Len(opened)
      /\ \A h \in 1 .. Len(opened) : opened'[h] = IF h = Handle(t) THEN Closed ELSE opened[h]
  BY <1>1 DEF IInv, TypeOK, Close
<1>3. /\ pc'[t] = "idle"
      /\ \A u \in Tasks \ {t} : pc'[u] = pc[u] /\ call'[u] = call[u]
      /\ \A u \in Tasks : Handle(u)' = Handle(u)
  BY DEF IInv, TypeOK, Close, Return, Goto, Handle, FieldOf
<1>4. pc'[t] \notin Using
  BY <1>3 DEF Using
<1>5. \A u \in Tasks : pc'[u] \in Using =>
        /\ u # t /\ Handle(u) # Handle(t)
        /\ Handle(u)' \in 1 .. Len(opened')
        /\ opened'[Handle(u)'] = [storage |-> call'[u].storage, writable |-> Changing(call'[u])]
  BY <1>1, <1>2, <1>3, <1>4 DEF HandleInvariant
<1>6. \A u, v \in Tasks : pc'[u] \in Using /\ pc'[v] \in Using /\ Handle(u)' = Handle(v)' => u = v
  BY <1>3, <1>4 DEF HandleInvariant
<1>7. \A h \in 1 .. Len(opened') : opened'[h] # Closed =>
        \E u \in Tasks : pc'[u] \in Using /\ Handle(u)' = h
  <2> SUFFICES ASSUME NEW h \in 1 .. Len(opened'), opened'[h] # Closed
               PROVE  \E u \in Tasks : pc'[u] \in Using /\ Handle(u)' = h
    OBVIOUS
  <2>1. h # Handle(t) /\ opened[h] # Closed /\ h \in 1 .. Len(opened)
    BY <1>2
  <2>2. PICK u \in Tasks : pc[u] \in Using /\ Handle(u) = h
    BY <2>1 DEF HandleInvariant
  <2>3. QED
    BY <2>1, <2>2, <1>3
<1>8. QED
  BY <1>5, <1>6, <1>7 DEF HandleInvariant, Changing

LEMMA BeginHandle ==
  ASSUME OwnObjects, IInv, HandleInvariant, NEW t \in Tasks, NEW c \in Operations, Begin(t, c)
  PROVE  HandleInvariant'
<1>1. \A u \in Tasks : pc'[u] \in Using => u # t /\ pc'[u] = pc[u] /\ call'[u] = call[u]
  BY DEF IInv, TypeOK, Begin, Goto, Using, Labels
<1>2. \A u \in Tasks : pc[u] \in Using => pc'[u] = pc[u]
  BY DEF IInv, TypeOK, Begin, Goto, Using, Labels
<1>3. UNCHANGED <<opened, field>>
  BY DEF Begin, handles
<1>4. QED
  BY <1>1, <1>2, <1>3 DEF HandleInvariant, Handle, FieldOf, Changing

LEMMA NextHandle ==
  ASSUME OwnObjects, IInv, HandleInvariant, [Next]_vars
  PROVE  HandleInvariant'
<1>1. ASSUME NEW t \in Tasks, Step(t) PROVE HandleInvariant'
  BY <1>1, UsingHandle, OpenHandle, CloseHandle DEF Step
<1>2. ASSUME NEW t \in Tasks, NEW c \in Operations, Begin(t, c) PROVE HandleInvariant'
  BY <1>2, BeginHandle
<1>3. CASE Reset
  <2>1. Len(opened') = 0
    BY <1>3 DEF Reset
  <2>2. \A t \in Tasks : pc'[t] \notin Using
    BY <1>3 DEF Reset, Using
  <2>3. QED
    BY <2>1, <2>2 DEF HandleInvariant
<1>4. CASE UNCHANGED vars
  BY <1>4 DEF vars, HandleInvariant, Handle, FieldOf, Changing
<1>5. QED
  BY <1>1, <1>2, <1>3, <1>4 DEF Next, Operations

LEMMA InitHandle == Init => HandleInvariant
<1>1. Init => Len(opened) = 0 /\ \A t \in Tasks : pc[t] \notin Using
  BY DEF Init, Using
<1>2. QED
  BY <1>1 DEF HandleInvariant

LEMMA OwnAlways == Spec => [](OwnObjects => HandleInvariant)
<1> DEFINE Own == OwnObjects => HandleInvariant
<1>1. Init => Own
  BY InitHandle
<1>2. IInv /\ Own /\ [Next]_vars => Own'
  <2>1. OwnObjects' <=> OwnObjects
    BY DEF OwnObjects
  <2>2. QED
    BY <2>1, NextHandle
<1>3. QED
  BY <1>1, <1>2, ControlCorrect, PTL DEF Spec

\* What a caller may rely on follows from the invariant.
LEMMA HandlesFollow == IInv /\ (OwnObjects => HandleInvariant) => HandlesBelong
<1> SUFFICES ASSUME IInv, HandleInvariant, OwnObjects PROVE HandlesBelong
  BY DEF HandlesBelong
<1>1. \A t \in Tasks : pc[t] \in Using => Handle(t) # 0
  BY DEF HandleInvariant, IInv, ControlInvariant
<1>2. QED
  BY <1>1 DEF HandlesBelong, HandleInvariant, Behind, Changing

\* Tasks with an object each do not meet in a handle, and leave none open,
\* whatever fails and wherever the chip restarts.
THEOREM HandlesCorrect == Spec => []HandlesBelong
<1>1. IInv /\ (OwnObjects => HandleInvariant) => HandlesBelong
  BY HandlesFollow
<1>2. QED
  BY <1>1, OwnAlways, ControlCorrect, PTL

-----------------------------------------------------------------------------
(* Values.                                                                 *)

\* A change meets the storage of its own call.
LEMMA ChangeIsOwn ==
  ASSUME OwnObjects, IInv, HandleInvariant, NEW t \in Tasks, Change(t)
  PROVE  /\ call[t] \in Operations /\ Changing(call[t]) /\ pc[t] = "change"
         /\ Behind(t).storage = call[t].storage /\ Behind(t).writable = TRUE
<1>1. pc[t] \in Using /\ call[t] \in Operations /\ Changing(call[t]) /\ Handle(t) # 0
      /\ pc[t] = "change"
  BY DEF Change, Using, Labels, IInv, ControlInvariant
<1>2. opened[Handle(t)] = [storage |-> call[t].storage, writable |-> TRUE]
  BY <1>1 DEF HandleInvariant
<1>3. Behind(t) = [storage |-> call[t].storage, writable |-> TRUE]
  BY <1>1, <1>2 DEF Behind
<1>4. QED
  BY <1>1, <1>3

LEMMA CommitIsOwn ==
  ASSUME OwnObjects, IInv, HandleInvariant, NEW t \in Tasks, Commit(t)
  PROVE  /\ call[t] \in Operations /\ Changing(call[t]) /\ pc[t] = "commit"
         /\ Behind(t).storage = call[t].storage /\ Behind(t).writable = TRUE
<1>1. pc[t] \in Using /\ call[t] \in Operations /\ Changing(call[t]) /\ Handle(t) # 0
      /\ pc[t] = "commit"
  BY DEF Commit, Using, Labels, IInv, ControlInvariant
<1>2. opened[Handle(t)] = [storage |-> call[t].storage, writable |-> TRUE]
  BY <1>1 DEF HandleInvariant
<1>3. Behind(t) = [storage |-> call[t].storage, writable |-> TRUE]
  BY <1>1, <1>2 DEF Behind
<1>4. QED
  BY <1>1, <1>3

LEMMA StepChangesOwnKey ==
  ASSUME OwnObjects, IInv, HandleInvariant, [Next]_vars,
         NEW s \in Storages, NEW g \in Tags, value'[s][g] # value[s][g]
  PROVE  \/ \E t \in Tasks : /\ pc[t] = "change" /\ pc'[t] = "commit"
                             /\ call[t].storage = s /\ call[t].tag = g
                             /\ value'[s][g] = call[t].value
         \/ Reset
<1>1. \/ \E t \in Tasks : Change(t)
      \/ Reset
  BY DEF Next, Step, Open, Commit, Measure, Get, Close, Begin, flash, vars
<1>2. ASSUME NEW t \in Tasks, Change(t)
      PROVE  /\ pc[t] = "change" /\ pc'[t] = "commit"
             /\ call[t].storage = s /\ call[t].tag = g
             /\ value'[s][g] = call[t].value
  <2>1. call[t] \in Operations /\ Behind(t).storage = call[t].storage
    BY <1>2, ChangeIsOwn
  <2>2. value' = [value EXCEPT ![call[t].storage][call[t].tag] = call[t].value]
    BY <1>2, <2>1 DEF Change
  <2>3. call[t].value \in Values \cup {Absent} /\ value \in [Storages -> [Tags -> Values \cup {Absent}]]
    BY <2>1, OperationFacts DEF IInv, TypeOK
  <2>4. value'[s][g] = IF s = call[t].storage /\ g = call[t].tag THEN call[t].value ELSE value[s][g]
    BY <2>2, <2>3, KeySet
  <2>5. pc[t] = "change" /\ pc'[t] = "commit"
    BY <1>2 DEF Change, Goto, IInv, TypeOK
  <2>6. QED
    BY <2>4, <2>5
<1>3. QED
  BY <1>1, <1>2

\* A task's value is changed by nobody but the task that the value belongs to:
\* no task's write reaches another key, however their calls interleave.
THEOREM OwnKeysOnly == Spec => OnlyOwnKeys
<1> DEFINE Own == OwnObjects => HandleInvariant
<1>1. IInv /\ Own /\ [Next]_vars => [ChangesOwnKey]_vars
  BY StepChangesOwnKey DEF ChangesOwnKey
<1>2. QED
  BY <1>1, OwnAlways, ControlCorrect, PTL DEF Spec, OnlyOwnKeys

\* A library in which setting and erasing a value succeed; what read, write and
\* erase make of a failure there is to ignore it.
ChangesSucceed == "set" \notin Faults /\ "erase" \notin Faults

LEMMA ValueChange ==
  ASSUME ChangesSucceed, OwnObjects, IInv, HandleInvariant, ValueInvariant,
         NEW t \in Tasks, Change(t)
  PROVE  ValueInvariant'
<1> DEFINE K == [Storages -> [Tags -> Values \cup {Absent}]]
           s == call[t].storage
           g == call[t].tag
<1>1. /\ call[t] \in Operations /\ Changing(call[t]) /\ pc[t] = "change"
      /\ Behind(t).storage = s /\ Behind(t).writable = TRUE
  BY ChangeIsOwn
<1>2. /\ value' = [value EXCEPT ![s][g] = call[t].value]
      /\ saved' \in {saved, [saved EXCEPT ![s][g] = call[t].value]}
  BY <1>1 DEF Change, ChangesSucceed
<1>3. /\ s \in Storages /\ g \in Tags /\ call[t].value \in Values \cup {Absent}
      /\ value \in K /\ saved \in K /\ author \in [Storages -> [Tags -> Tasks \cup {NoCall}]]
  BY <1>1, OperationFacts DEF IInv, TypeOK
<1>4. \A r \in Storages, h \in Tags :
        /\ value'[r][h] = IF r = s /\ h = g THEN call[t].value ELSE value[r][h]
        /\ ~(r = s /\ h = g) => saved'[r][h] = saved[r][h]
  <2>1. \A r \in Storages, h \in Tags :
          [value EXCEPT ![s][g] = call[t].value][r][h]
            = IF r = s /\ h = g THEN call[t].value ELSE value[r][h]
    BY <1>3, KeySet
  <2>2. \A r \in Storages, h \in Tags :
          [saved EXCEPT ![s][g] = call[t].value][r][h]
            = IF r = s /\ h = g THEN call[t].value ELSE saved[r][h]
    BY <1>3, KeySet
  <2>3. CASE saved' = saved
    BY <1>2, <2>1, <2>3
  <2>4. CASE saved' = [saved EXCEPT ![s][g] = call[t].value]
    BY <1>2, <2>1, <2>2, <2>4
  <2>5. QED
    BY <1>2, <2>3, <2>4
<1>5. \A r \in Storages, h \in Tags : author'[r][h] = IF r = s /\ h = g THEN t ELSE author[r][h]
  <2>1. author' = [author EXCEPT ![s][g] = t]
    BY DEF Change
  <2>2. QED
    BY <2>1, <1>3, KeySet
<1>6. /\ pc' = [pc EXCEPT ![t] = "commit"]
      /\ UNCHANGED <<call, ret>>
      /\ pc'[t] = "commit" /\ ret[t] = FALSE
  BY <1>1 DEF Change, Goto, handles, locals, IInv, TypeOK, ControlInvariant, Labels
<1>7. SUFFICES ASSUME NEW u \in Tasks, pc'[u] \in {"commit", "close"}, Changing(call[u]),
                      author'[call[u].storage][call[u].tag] = u
               PROVE  /\ value'[call[u].storage][call[u].tag] = call[u].value
                      /\ ret[u] => saved'[call[u].storage][call[u].tag] = call[u].value
  BY <1>6 DEF ValueInvariant, LastWord, Changing
<1>8. CASE u = t
  BY <1>8, <1>3, <1>4, <1>6
<1>9. CASE u # t
  <2>1. pc[u] \in {"commit", "close"}
    BY <1>6, <1>7, <1>9 DEF IInv, TypeOK
  <2>2. call[u].storage \in Storages /\ call[u].tag \in Tags
    BY <2>1, OperationFacts DEF IInv, ControlInvariant
  <2>3. ~(call[u].storage = s /\ call[u].tag = g) /\ LastWord(u)
    BY <1>5, <1>7, <1>9, <2>2 DEF LastWord
  <2>4. QED
    BY <1>4, <1>7, <2>1, <2>2, <2>3 DEF ValueInvariant
<1>10. QED
  BY <1>8, <1>9

LEMMA ValueCommit ==
  ASSUME OwnObjects, IInv, HandleInvariant, ValueInvariant, NEW t \in Tasks, Commit(t)
  PROVE  ValueInvariant'
<1> DEFINE s == call[t].storage
<1>1. /\ call[t] \in Operations /\ Changing(call[t]) /\ pc[t] = "commit"
      /\ Behind(t).storage = s /\ Behind(t).writable = TRUE
  BY CommitIsOwn
<1>2. \/ saved' = [saved EXCEPT ![s] = value[s]] /\ ret' = [ret EXCEPT ![t] = TRUE]
      \/ UNCHANGED <<saved, ret>>
  BY <1>1 DEF Commit
<1>3. /\ UNCHANGED <<value, author, call>>
      /\ pc' = [pc EXCEPT ![t] = "close"]
      /\ ret[t] = FALSE
  BY <1>1 DEF Commit, Goto, IInv, ControlInvariant, Labels
<1>4. s \in Storages
  BY <1>1, OperationFacts
<1>5. SUFFICES ASSUME NEW u \in Tasks, pc'[u] \in {"commit", "close"}, Changing(call[u]), LastWord(u)
               PROVE  /\ value[call[u].storage][call[u].tag] = call[u].value
                      /\ ret'[u] => saved'[call[u].storage][call[u].tag] = call[u].value
  BY <1>3 DEF ValueInvariant, LastWord, Changing
<1>6. pc[u] \in {"commit", "close"}
  BY <1>1, <1>3, <1>5 DEF IInv, TypeOK
<1>7. call[u].storage \in Storages
  BY <1>6, OperationFacts DEF IInv, ControlInvariant
<1>8. /\ value[call[u].storage][call[u].tag] = call[u].value
      /\ ret[u] => saved[call[u].storage][call[u].tag] = call[u].value
  BY <1>5, <1>6 DEF ValueInvariant
<1>9. CASE UNCHANGED <<saved, ret>>
  BY <1>8, <1>9
<1>10. CASE saved' = [saved EXCEPT ![s] = value[s]] /\ ret' = [ret EXCEPT ![t] = TRUE]
  <2>1. saved'[call[u].storage] = IF call[u].storage = s THEN value[s] ELSE saved[call[u].storage]
    BY <1>7, <1>10 DEF IInv, TypeOK
  <2>2. u # t => ret'[u] = ret[u]
    BY <1>10 DEF IInv, TypeOK
  <2>3. QED
    BY <1>8, <2>1, <2>2
<1>11. QED
  BY <1>2, <1>9, <1>10

\* The other steps change neither values nor what a task that commits or closes
\* knows of them.
LEMMA ValueOthers ==
  ASSUME IInv, ValueInvariant,
         \E t \in Tasks : \/ Open(t) \/ Measure(t) \/ Get(t) \/ Close(t)
                         \/ \E c \in Operations : Begin(t, c)
  PROVE  ValueInvariant'
<1>1. PICK t \in Tasks : \/ Open(t) \/ Measure(t) \/ Get(t) \/ Close(t)
                         \/ \E c \in Operations : Begin(t, c)
  OBVIOUS
<1>2. UNCHANGED <<value, saved, author>>
  BY <1>1 DEF Open, Measure, Get, Close, Begin, flash
<1>3. \A u \in Tasks \ {t} : pc'[u] = pc[u] /\ call'[u] = call[u] /\ ret'[u] = ret[u]
  BY <1>1 DEF Open, Measure, Get, Close, Begin, Return, Goto, locals, IInv, TypeOK
<1>4. pc'[t] \in {"commit", "close"} => ~ Changing(call'[t])
  <2>1. CASE Open(t)
    <3>1. call[t] \in Operations
      BY <2>1 DEF Open, IInv, ControlInvariant
    <3>2. FirstStep[call[t].kind] \notin {"commit", "close"}
      BY <3>1, OperationFacts
    <3>3. QED
      BY <2>1, <3>2 DEF Open, Return, Goto, IInv, TypeOK
  <2>2. CASE Measure(t)
    BY <2>2 DEF Measure, Goto, IInv, TypeOK
  <2>3. CASE Get(t)
    BY <2>3 DEF Get, IInv, ControlInvariant, Changing
  <2>4. CASE Close(t)
    BY <2>4 DEF Close, Return, Goto, IInv, TypeOK
  <2>5. CASE \E c \in Operations : Begin(t, c)
    BY <2>5 DEF Begin, Goto, IInv, TypeOK
  <2>6. QED
    BY <1>1, <2>1, <2>2, <2>3, <2>4, <2>5
<1>5. QED
  BY <1>2, <1>3, <1>4 DEF ValueInvariant, LastWord, Changing

LEMMA NextValue ==
  ASSUME ChangesSucceed, OwnObjects, IInv, HandleInvariant, ValueInvariant, [Next]_vars
  PROVE  ValueInvariant'
<1>1. ASSUME NEW t \in Tasks, Step(t) PROVE ValueInvariant'
  BY <1>1, ValueChange, ValueCommit, ValueOthers DEF Step
<1>2. ASSUME NEW t \in Tasks, NEW c \in Operations, Begin(t, c) PROVE ValueInvariant'
  BY <1>2, ValueOthers
<1>3. CASE Reset
  BY <1>3 DEF Reset, ValueInvariant
<1>4. CASE UNCHANGED vars
  BY <1>4 DEF vars, ValueInvariant, LastWord, Changing
<1>5. QED
  BY <1>1, <1>2, <1>3, <1>4 DEF Next, Operations

LEMMA AnswerTrue ==
  ASSUME OwnObjects, IInv, ValueInvariant, [Next]_vars
  PROVE  DurableWhenTrue
<1> SUFFICES ASSUME NEW t \in Tasks, pc[t] = "close", answer'[t] = "true",
                    call[t].kind \in {"write", "erase"}, LastWord(t)
             PROVE  /\ value[call[t].storage][call[t].tag] = call[t].value
                    /\ saved[call[t].storage][call[t].tag] = call[t].value
  BY DEF DurableWhenTrue
<1>1. answer[t] = "pending"
  BY DEF IInv, ControlInvariant
<1>2. ret[t]
  <2>1. CASE Reset
    BY <2>1 DEF Reset
  <2>2. CASE UNCHANGED vars
    BY <2>2, <1>1 DEF vars
  <2>3. ASSUME NEW u \in Tasks, Step(u) PROVE ret[t]
    <3>1. u = t
      BY <2>3, <1>1 DEF Step, Open, Change, Commit, Measure, Get, Close, Return, IInv, TypeOK
    <3>2. Close(t)
      BY <2>3, <3>1 DEF Step, Open, Change, Commit, Measure, Get
    <3>3. QED
      BY <3>2 DEF Close, Return, IInv, TypeOK
  <2>4. ASSUME NEW u \in Tasks, NEW c \in Operations, Begin(u, c) PROVE ret[t]
    BY <2>4, <1>1 DEF Begin, IInv, TypeOK
  <2>5. QED
    BY <2>1, <2>2, <2>3, <2>4 DEF Next, Operations
<1>3. QED
  BY <1>2 DEF ValueInvariant, Changing

\* When setting and erasing succeed, an answer of true to a write or an erase is
\* durable: the value is read back now and after a restart, unless another task
\* has tried to change it since; whatever else fails, for any number of tasks.
THEOREM DurableCorrect ==
  ASSUME ChangesSucceed
  PROVE  Spec => TrueMeansDurable
<1> DEFINE Own == OwnObjects => HandleInvariant
           Known == OwnObjects => ValueInvariant
<1>1. Init => Known
  BY DEF Init, ValueInvariant
<1>2. IInv /\ Own /\ Known /\ [Next]_vars => Known'
  <2>1. OwnObjects' <=> OwnObjects
    BY DEF OwnObjects
  <2>2. QED
    BY <2>1, NextValue
<1>3. IInv /\ Known /\ [Next]_vars => [DurableWhenTrue]_vars
  <2>1. ~OwnObjects => DurableWhenTrue
    BY DEF DurableWhenTrue
  <2>2. QED
    BY <2>1, AnswerTrue
<1>4. QED
  BY <1>1, <1>2, <1>3, OwnAlways, ControlCorrect, PTL DEF Spec, TrueMeansDurable
=============================================================================
