------------------------------ MODULE MCSender ------------------------------
(* Sender on small instances, for TLC.                                     *)
EXTENDS Sender

AllAnswers == Answers
=============================================================================
