---------------------------- MODULE MCCrashRecord ----------------------------
(* TLC instances of CrashRecord.                                           *)
EXTENDS CrashRecord
=============================================================================
