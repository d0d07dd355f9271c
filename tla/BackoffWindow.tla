---------------------------- MODULE BackoffWindow ----------------------------
(***************************************************************************)
(* The window the server's backpressure opens (src/ph_ratelimit.c, and     *)
(* post_and_note of src/ph_native.c): what a Retry-After header asks for,  *)
(* in seconds or as a date, and until when the limiter then holds sends.   *)
(*                                                                         *)
(* Time is in nanoseconds; a millisecond has NsPerMs of them and a second  *)
(* MsPerSec milliseconds, so that the units can be small for TLC.  A date  *)
(* is the second it denotes (CivilDate is about how that is computed).     *)
(*                                                                         *)
(* An answer may come while a window is open: offline_replay goes on after *)
(* a 2xx answer with a quota notice.                                       *)
(***************************************************************************)
EXTENDS Integers

CONSTANTS NsPerMs, MsPerSec,
          DefaultMs,  \* PH_RL_DEFAULT_BACKOFF_MS
          MaxMs,      \* PH_RL_MAX_BACKOFF_MS
          MaxSecs,    \* bound: seconds, and dates, a header may name
          MaxNow,     \* bound: last value of the monotonic clock
          MaxWall     \* bound: last value of the wall clock

ASSUME BackoffAssumption ==
  /\ {NsPerMs, MsPerSec} \subseteq Nat \ {0}
  /\ {DefaultMs, MaxMs, MaxSecs, MaxNow, MaxWall} \subseteq Nat
  /\ DefaultMs <= MaxMs

VARIABLES monoNs,     \* ph_now_mono_ns
          wallNs,  \* ph_now_wall_ns
          until,   \* disabled_until_mono_ns
          asked    \* the answer that set it: when it came, and how long the
                   \* server asked to be left alone

backoffVars == <<monoNs, wallNs, until, asked>>

NsPerSec == NsPerMs * MsPerSec
MaxNs == MaxMs * NsPerMs

Unusable == [form |-> "none", secs |-> 0]
Headers == [form : {"seconds", "date"}, secs : 0..MaxSecs] \cup {Unusable}

BackoffInit ==
  /\ monoNs = 0 /\ wallNs = 0 /\ until = 0
  /\ asked = [at |-> 0, wait |-> 0]

(* Seconds to milliseconds, capped before the multiplication.              *)
CappedMs(secs) == IF secs > MaxMs \div MsPerSec THEN MaxMs ELSE secs * MsPerSec

\* Mutant: the second is rounded up.
ParseRetryAfterRoundsUp(h) ==
  LET rest == h.secs - ((wallNs + NsPerSec - 1) \div NsPerSec)
  IN IF h.form = "seconds" THEN CappedMs(h.secs) ELSE CappedMs(IF rest < 0 THEN 0 ELSE rest)

(* ph_ratelimit_parse_retry_after, of a header that is usable.             *)
ParseRetryAfter(h) ==
  LET rest == h.secs - (wallNs \div NsPerSec)
  IN IF h.form = "seconds" THEN CappedMs(h.secs) ELSE CappedMs(IF rest < 0 THEN 0 ELSE rest)

(* ph_ratelimit_arm: a jitter of up to an eighth, then the cap.            *)
Armed(ms) ==
  LET window == ms + (monoNs % ((ms \div 8) + 1))
  IN monoNs + (IF window > MaxMs THEN MaxMs ELSE window) * NsPerMs

(* What the header means, to the nanosecond, up to the cap.                *)
Wanted(h) ==
  LET ns == IF h.form = "seconds" THEN h.secs * NsPerSec ELSE h.secs * NsPerSec - wallNs
  IN IF ns < 0 THEN 0 ELSE IF ns > MaxNs THEN MaxNs ELSE ns

Arm(ms, wait) ==
  /\ until' = Armed(ms)
  /\ asked' = [at |-> monoNs, wait |-> wait]
  /\ UNCHANGED <<monoNs, wallNs>>

-----------------------------------------------------------------------------
Pass ==
  /\ monoNs < MaxNow /\ wallNs < MaxWall
  /\ monoNs' = monoNs + 1
  /\ wallNs' = wallNs + 1
  /\ UNCHANGED <<until, asked>>

ResetClock ==
  /\ wallNs' \in {0, MaxWall}
  /\ UNCHANGED <<monoNs, until, asked>>

(* 429 or 503 with a header that can be used.                              *)
Throttled ==
  \E h \in Headers \ {Unusable} : Arm(ParseRetryAfter(h), Wanted(h))

(* 429 without one, or a 2xx answer with a quota notice.                   *)
ThrottledForDefault == Arm(DefaultMs, DefaultMs * NsPerMs)

(* Any other answer, a 503 without a header included.                      *)
NotThrottled == UNCHANGED backoffVars

BackoffNext ==
  Pass \/ ResetClock \/ Throttled \/ ThrottledForDefault \/ NotThrottled

BackoffSpec == BackoffInit /\ [][BackoffNext]_backoffVars

-----------------------------------------------------------------------------
BackoffTypeOK ==
  /\ monoNs \in 0..MaxNow /\ wallNs \in 0..MaxWall
  /\ asked \in [at : 0..MaxNow, wait : 0..MaxNs]
  /\ until \in 0..(asked.at + MaxNs)

(* The limiter holds sends at least as long as the server asked, up to the *)
(* cap, whatever the wall clock does meanwhile and however the date or the *)
(* window is rounded; and not longer than the second a date may be rounded *)
(* up by and the jitter of an eighth allow.                                *)
HoldAsAsked ==
  /\ until >= asked.at + asked.wait
  /\ 8 * (until - asked.at) <= 9 * (asked.wait + NsPerSec)
=============================================================================
