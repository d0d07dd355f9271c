----------------------------- MODULE ReportBox ------------------------------
(***************************************************************************)
(* What src/ph_crash.h promises of the crash record: one box on disk that  *)
(* keeps the report of one crash until the next run has handed it off.  A  *)
(* crash that finds the box full leaves it as it is.                       *)
(***************************************************************************)
CONSTANTS Reports, None

VARIABLES box,    \* the report on disk, or None
          taken   \* the report this run offered to the sender, or None

Init ==
  /\ box = None
  /\ taken = None

Publish(r) ==
  /\ box = None
  /\ box' = r
  /\ UNCHANGED taken

Offer ==
  /\ box # None
  /\ taken = None
  /\ taken' = box
  /\ UNCHANGED box

(* Only the report that was offered leaves the box on a hand-off.          *)
Acknowledge ==
  /\ taken # None
  /\ box = taken
  /\ box' = None
  /\ taken' = None

(* The event is lost or the process ends: the report stays for a new run.  *)
Forget ==
  /\ taken' = None
  /\ UNCHANGED box

(* before_send refuses the report: offering it again would change nothing. *)
Refuse ==
  /\ box # None
  /\ taken = None
  /\ box' = None
  /\ UNCHANGED taken

Next ==
  \/ \E r \in Reports : Publish(r)
  \/ Offer \/ Acknowledge \/ Forget \/ Refuse

Spec == Init /\ [][Next]_<<box, taken>>
=============================================================================
