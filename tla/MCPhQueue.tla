----------------------------- MODULE MCPhQueue -----------------------------
(* PhQueue with two producers over a small ring, for TLC.                  *)
EXTENDS PhQueue
=============================================================================
