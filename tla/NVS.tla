-------------------------------- MODULE NVS --------------------------------
(***************************************************************************)
(* NVS: values under a storage and a tag.  Each operation opens a handle   *)
(* of the NVS library, keeps it in the object's _handle, uses it in one or *)
(* two more calls and closes it.  Tasks interleave between those calls;    *)
(* nothing locks an object.                                                *)
(***************************************************************************)
EXTENDS Integers, Sequences

CONSTANTS
  Tasks,
  ObjectOf,  \* the object that a task uses
  Storages,
  Tags,
  Numbers,   \* the int64_t values considered
  Sizes,     \* the strings considered, each stood for by its size
  Faults,    \* library calls that may fail, and "reset"
  MaxCalls,  \* bound of the model: calls altogether
  Absent,    \* no value
  NoCall

ASSUME NvsAssumption ==
  /\ ObjectOf \in [Tasks -> Tasks]
  /\ Sizes \subseteq Nat \ {0}
  /\ Faults \subseteq {"open", "set", "erase", "commit", "get", "reset"}
  /\ MaxCalls \in Nat

Values == [type : {"i64"}, of : Numbers] \cup [type : {"str"}, of : Sizes]

VARIABLES
  value,    \* what the library reads back, per storage and tag
  saved,    \* what survives a restart
  opened,   \* the library's handles, numbered as they were opened
  field,    \* _handle, per object
  pc,       \* per task, the next call of the library
  call,     \* per task, the operation in progress
  ret,      \* per task, ret
  length,   \* per task, readLength
  result,   \* per task, readRes, or res when the operation has returned
  answer,   \* per task, what the last operation returned
  calls,    \* calls so far, bounded by MaxCalls
  author    \* history: the task that last tried to change the value

flash == <<value, saved, author>>
handles == <<opened, field>>
locals == <<ret, length, result>>
vars == <<value, saved, opened, field, pc, call, ret, length, result, answer, calls, author>>

Writes == [kind : {"write"}, storage : Storages, tag : Tags, value : Values]
Erases == [kind : {"erase"}, storage : Storages, tag : Tags, value : {Absent}]
Reads == [kind : {"readNumber", "readString"}, storage : Storages, tag : Tags, value : {Absent}]

Keys(v) == [s \in Storages |-> [g \in Tags |-> v]]

Init ==
  /\ value = Keys(Absent)
  /\ saved = Keys(Absent)
  /\ author = Keys(NoCall)
  /\ opened = <<>>
  /\ field = [t \in Tasks |-> 0]
  /\ pc = [t \in Tasks |-> "idle"]
  /\ call = [t \in Tasks |-> NoCall]
  /\ ret = [t \in Tasks |-> FALSE]
  /\ length = [t \in Tasks |-> 0]
  /\ result = [t \in Tasks |-> Absent]
  /\ answer = [t \in Tasks |-> "none"]
  /\ calls = 0

-----------------------------------------------------------------------------
\* Mutant: _handle is static.
FieldOfAll(t) == CHOOSE u \in Tasks : TRUE

\* The object whose _handle the task's call uses.
FieldOf(t) == ObjectOf[t]

\* A handle of the library, as nvs_close leaves it.
Closed == [storage |-> "none", writable |-> FALSE]

\* _handle, and what the library finds behind it.
Handle(t) == field[FieldOf(t)]
Behind(t) == IF Handle(t) = 0 THEN Closed ELSE opened[Handle(t)]

Goto(t, label) == pc' = [pc EXCEPT ![t] = label]

\* A task calls read, write or erase.
Begin(t, c) ==
  /\ pc[t] = "idle"
  /\ calls < MaxCalls
  /\ calls' = calls + 1
  /\ call' = [call EXCEPT ![t] = c]
  /\ ret' = [ret EXCEPT ![t] = FALSE]
  /\ length' = [length EXCEPT ![t] = 0]
  /\ result' = [result EXCEPT ![t] = Absent]
  /\ answer' = [answer EXCEPT ![t] = "pending"]
  /\ Goto(t, "open")
  /\ UNCHANGED <<flash, handles>>

Return(t, r) ==
  /\ Goto(t, "idle")
  /\ call' = [call EXCEPT ![t] = NoCall]
  /\ answer' = [answer EXCEPT ![t] = r]

FirstStep == [write |-> "change", erase |-> "change", readNumber |-> "get",
              readString |-> "measure"]

\* openToRead and openToWrite; a failing nvs_open leaves _handle as it was.
\* Opening a storage that was never written, to read it, is one way to fail.
Open(t) ==
  /\ pc[t] = "open"
  /\ \/ /\ opened' = Append(opened, [storage |-> call[t].storage,
                                     writable |-> call[t].kind \in {"write", "erase"}])
        /\ field' = [field EXCEPT ![FieldOf(t)] = Len(opened')]
        /\ Goto(t, FirstStep[call[t].kind])
        /\ UNCHANGED <<call, answer>>
     \/ /\ "open" \in Faults
        /\ Return(t, "false")
        /\ UNCHANGED handles
  /\ UNCHANGED <<flash, locals, calls>>

\* nvs_set_i64, nvs_set_str and nvs_erase_key: the error is logged only.  The
\* library may, and need not, write to the flash before the commit.
Change(t) ==
  /\ pc[t] = "change"
  /\ LET s == Behind(t).storage
         g == call[t].tag
     IN \/ /\ Behind(t).writable
           /\ value' = [value EXCEPT ![s][g] = call[t].value]
           /\ saved' \in {saved, [saved EXCEPT ![s][g] = call[t].value]}
        \/ /\ ~Behind(t).writable \/ (IF call[t].kind = "write" THEN "set" ELSE "erase") \in Faults
           /\ UNCHANGED <<value, saved>>
  /\ author' = [author EXCEPT ![call[t].storage][call[t].tag] = t]
  /\ Goto(t, "commit")
  /\ UNCHANGED <<handles, call, locals, answer, calls>>

\* Mutant: the result of nvs_commit is not tested.
CommitUnchecked(t) ==
  /\ pc[t] = "commit"
  /\ ret' = [ret EXCEPT ![t] = TRUE]
  /\ \/ Behind(t).writable
        /\ saved' = [saved EXCEPT ![Behind(t).storage] = value[Behind(t).storage]]
     \/ (~Behind(t).writable \/ "commit" \in Faults) /\ UNCHANGED saved
  /\ Goto(t, "close")
  /\ UNCHANGED <<value, author, handles, call, length, result, answer, calls>>

\* nvs_commit alone decides the answer.
Commit(t) ==
  /\ pc[t] = "commit"
  /\ \/ /\ Behind(t).writable
        /\ saved' = [saved EXCEPT ![Behind(t).storage] = value[Behind(t).storage]]
        /\ ret' = [ret EXCEPT ![t] = TRUE]
     \/ /\ ~Behind(t).writable \/ "commit" \in Faults
        /\ UNCHANGED <<saved, ret>>
  /\ Goto(t, "close")
  /\ UNCHANGED <<value, author, handles, call, length, result, answer, calls>>

\* The value that nvs_get finds, if it has the type asked for.
Found(t, type) ==
  IF Behind(t) = Closed THEN Absent
  ELSE LET v == value[Behind(t).storage][call[t].tag]
       IN IF v # Absent /\ v.type = type THEN v ELSE Absent

\* Mutant: a failed nvs_get_str leaves an undefined readLength.
MeasureUnset(t) ==
  /\ pc[t] = "measure"
  /\ \E v \in {Found(t, "str")} \cup (IF "get" \in Faults THEN {Absent} ELSE {}) :
       length' = [length EXCEPT ![t] = IF v = Absent THEN -1 ELSE v.of]
  /\ Goto(t, "get")
  /\ UNCHANGED <<flash, handles, call, ret, result, answer, calls>>

\* The first nvs_get_str asks for the size; its error is overwritten.
Measure(t) ==
  /\ pc[t] = "measure"
  /\ \E v \in {Found(t, "str")} \cup (IF "get" \in Faults THEN {Absent} ELSE {}) :
       length' = [length EXCEPT ![t] = IF v = Absent THEN 0 ELSE v.of]
  /\ Goto(t, "get")
  /\ UNCHANGED <<flash, handles, call, ret, result, answer, calls>>

\* nvs_get_i64, or the second nvs_get_str, which fails when the string has
\* grown beyond the buffer since its size was read.
Get(t) ==
  /\ pc[t] = "get"
  /\ LET v == Found(t, IF call[t].kind = "readNumber" THEN "i64" ELSE "str")
         fits == v # Absent /\ (call[t].kind = "readString" => v.of <= length[t])
     IN \/ /\ fits
           /\ ret' = [ret EXCEPT ![t] = TRUE]
           /\ result' = [result EXCEPT ![t] = v]
        \/ (~fits \/ "get" \in Faults) /\ UNCHANGED <<ret, result>>
  /\ Goto(t, "close")
  /\ UNCHANGED <<flash, handles, call, length, answer, calls>>

\* Mutant: a failed operation returns without closing its handle.
CloseWhenDone(t) ==
  /\ pc[t] = "close"
  /\ opened' = IF ret[t] THEN [opened EXCEPT ![Handle(t)] = Closed] ELSE opened
  /\ Return(t, IF ret[t] THEN "true" ELSE "false")
  /\ UNCHANGED <<flash, field, locals, calls>>

\* nvs_close, and the return.
Close(t) ==
  /\ pc[t] = "close"
  /\ opened' = [opened EXCEPT ![Handle(t)] = Closed]
  /\ Return(t, IF ret[t] THEN "true" ELSE "false")
  /\ UNCHANGED <<flash, field, locals, calls>>

\* The chip restarts: what was not committed may be lost.
Reset ==
  /\ "reset" \in Faults
  /\ value' = saved
  /\ author' = Keys(NoCall)
  /\ opened' = <<>>
  /\ field' = [t \in Tasks |-> 0]
  /\ pc' = [t \in Tasks |-> "idle"]
  /\ call' = [t \in Tasks |-> NoCall]
  /\ ret' = [t \in Tasks |-> FALSE]
  /\ length' = [t \in Tasks |-> 0]
  /\ result' = [t \in Tasks |-> Absent]
  /\ answer' = [t \in Tasks |-> "none"]
  /\ UNCHANGED <<saved, calls>>

Step(t) == Open(t) \/ Change(t) \/ Commit(t) \/ Measure(t) \/ Get(t) \/ Close(t)

Next ==
  \/ \E t \in Tasks : Step(t) \/ \E c \in Writes \cup Erases \cup Reads : Begin(t, c)
  \/ Reset

Spec == Init /\ [][Next]_vars

-----------------------------------------------------------------------------
(* Properties.                                                             *)

Labels == {"idle", "open", "change", "commit", "measure", "get", "close"}
Using == Labels \ {"idle", "open"}

\* The types of the variables.
TypeOK ==
  /\ value \in [Storages -> [Tags -> Values \cup {Absent}]]
  /\ saved \in [Storages -> [Tags -> Values \cup {Absent}]]
  /\ author \in [Storages -> [Tags -> Tasks \cup {NoCall}]]
  /\ opened \in Seq([storage : Storages, writable : BOOLEAN] \cup {Closed})
  /\ field \in [Tasks -> 0 .. Len(opened)]
  /\ pc \in [Tasks -> Labels]
  /\ call \in [Tasks -> Writes \cup Erases \cup Reads \cup {NoCall}]
  /\ ret \in [Tasks -> BOOLEAN]
  /\ length \in [Tasks -> {0} \cup Sizes]
  /\ result \in [Tasks -> Values \cup {Absent}]
  /\ answer \in [Tasks -> {"none", "pending", "true", "false"}]
  /\ calls \in 0 .. MaxCalls

OwnObjects == \A t, u \in Tasks : ObjectOf[t] = ObjectOf[u] => t = u

\* When no two tasks share an object, the handle that a call finds in _handle
\* is open for its own storage, and the library's handles are those of the
\* calls in progress: none is left open when read, write or erase has returned.
HandlesBelong ==
  OwnObjects =>
    /\ \A t \in Tasks : pc[t] \in Using =>
         Behind(t) = [storage |-> call[t].storage,
                      writable |-> call[t].kind \in {"write", "erase"}]
    /\ \A h \in 1 .. Len(opened) : opened[h] # Closed =>
         \E t \in Tasks : pc[t] \in Using /\ Handle(t) = h

\* When no two tasks share an object, a value changes only by a write or an
\* erase of its own storage and tag, or by a restart, whatever other tasks do.
ChangesOwnKey ==
  OwnObjects =>
    \A s \in Storages, g \in Tags : value'[s][g] # value[s][g] =>
      \/ \E t \in Tasks : /\ pc[t] = "change" /\ pc'[t] = "commit"
                          /\ call[t].storage = s /\ call[t].tag = g
                          /\ value'[s][g] = call[t].value
      \/ Reset

OnlyOwnKeys == [][ChangesOwnKey]_vars

\* The task's change is the last one tried of its value.
LastWord(t) == author[call[t].storage][call[t].tag] = t

\* A write or an erase that answers true, and that no other task has
\* overwritten since, can be read back, now and after a restart.
DurableWhenTrue ==
  OwnObjects =>
    \A t \in Tasks :
      pc[t] = "close" /\ answer'[t] = "true" /\ call[t].kind \in {"write", "erase"}
      /\ LastWord(t)
      => /\ value[call[t].storage][call[t].tag] = call[t].value
         /\ saved[call[t].storage][call[t].tag] = call[t].value

TrueMeansDurable == [][DurableWhenTrue]_vars
=============================================================================
