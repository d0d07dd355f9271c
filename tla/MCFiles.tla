------------------------------- MODULE MCFiles -------------------------------
(***************************************************************************)
(* The two files the SDK keeps across runs, for TLC: the crash record      *)
(* (CrashRecord) and the spill file (SpillFile).  They share no state, so  *)
(* a behaviour is one of either.                                           *)
(***************************************************************************)
EXTENDS CrashRecord, SpillFile

VARIABLE file  \* which of the two this behaviour is about

fileRunVars == <<file, recordVars, spillVars>>

(* Two sizes of batch: of three records the spill file holds two.          *)
Lengths == [b \in Batches |-> 1 + (b % 2)]

FilesInit == RecordInit /\ SpillInit /\ file \in {"crash", "spill"}

FilesNext ==
  \/ file = "crash" /\ RecordNext /\ UNCHANGED <<file, spillVars>>
  \/ file = "spill" /\ SpillNext /\ UNCHANGED <<file, recordVars>>

FilesSpec == FilesInit /\ [][FilesNext]_fileRunVars
=============================================================================
