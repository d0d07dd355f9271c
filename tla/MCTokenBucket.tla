---------------------------- MODULE MCTokenBucket ----------------------------
(* TLC instances of TokenBucket.                                           *)
EXTENDS TokenBucket
=============================================================================
