----------------------------- MODULE MCSafeFile -----------------------------
(***************************************************************************)
(* Small instances of SafeFileManipulator for TLC.  Names, texts and       *)
(* sentinels are model values; each cfg chooses a driver, the faults that  *)
(* occur and the modes.                                                    *)
(***************************************************************************)
EXTENDS SafeFileManipulator, TLC

\* Where no name is special, permuting the names changes no behaviour.
NameSymmetry == Permutations(Names)
=============================================================================
