----------------------------- MODULE SyncRegister -----------------------------
(***************************************************************************)
(* What a slot of the sync protocol promises at its best: a register with  *)
(* one writer and one reader.  The writer replaces the value, the reader   *)
(* gets to see some of the values, each of them whole and in the order in  *)
(* which they were written.  Values are numbered by the writer.            *)
(***************************************************************************)
EXTENDS Naturals

CONSTANT MaxVersion

VARIABLES written, read

Init == written = 0 /\ read = 0

Write ==
    /\ written < MaxVersion
    /\ written' = written + 1
    /\ UNCHANGED read

Read ==
    /\ read' \in read .. written
    /\ UNCHANGED written

Spec == Init /\ [][Write \/ Read]_<<written, read>>
=============================================================================
