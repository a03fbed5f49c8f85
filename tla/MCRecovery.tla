----------------------------- MODULE MCRecovery -----------------------------
(***************************************************************************)
(* Instances of Recovery for TLC.                                          *)
(***************************************************************************)
EXTENDS Recovery, TLC

CONSTANTS t1, t2      \* tasks

OnlyT1      == {t1}
NoCommand   == {}
AllCommands == Command

\* Slots are interchangeable: no definition names one.
Interchangeable == Permutations(Job)
=============================================================================
