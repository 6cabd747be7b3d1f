---------------------------- MODULE PrintStreams ----------------------------
(***************************************************************************)
(* What the printing task promises to the tasks that queue messages: the   *)
(* bytes of each task come out once each, in the order in which the task   *)
(* asked for them, and none that it did not ask for.  Nothing is promised  *)
(* about the order between two tasks.                                      *)
(***************************************************************************)
EXTENDS Naturals, Sequences

CONSTANT Producers

VARIABLES
  asked,   \* per task, the number of bytes it has asked for so far
  shown    \* per task, its bytes in the output, each by its number

Init ==
  /\ asked = [p \in Producers |-> 0]
  /\ shown = [p \in Producers |-> <<>>]

Ask(p) ==
  /\ asked'[p] >= asked[p]
  /\ asked' = [asked EXCEPT ![p] = asked'[p]]
  /\ UNCHANGED shown

\* The next n of the bytes asked for.
Show(p, n) ==
  /\ shown' = [shown EXCEPT ![p] = @ \o [i \in 1 .. n |-> Len(@) + i]]
  /\ UNCHANGED asked

Next == \E p \in Producers : Ask(p) \/ \E n \in 0 .. asked[p] - Len(shown[p]) : Show(p, n)

Spec == Init /\ [][Next]_<<asked, shown>>
=============================================================================
