---------------------------- MODULE MCFlagReload ----------------------------
(* TLC instances of FlagReload.                                            *)
EXTENDS FlagReload
=============================================================================
