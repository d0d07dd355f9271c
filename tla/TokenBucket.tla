----------------------------- MODULE TokenBucket -----------------------------
(***************************************************************************)
(* The client-side rate limit of src/ph_core.c (rate_limit_admit).  A call *)
(* of ph__submit_event reads the monotonic clock, and later, under the     *)
(* mutex, refills the bucket up to the tick it read and takes a token.     *)
(*                                                                         *)
(* Tokens are counted in fractions of 1/Second, so that one tick of the    *)
(* clock refills PerSecond of them and one event costs Second: the code's  *)
(* doubles without their rounding.                                         *)
(***************************************************************************)
EXTENDS Integers, Sequences

CONSTANTS PerSecond,  \* rate_limit_per_sec, also the burst
          Second,     \* clock ticks in a second
          Threads,    \* threads that capture events
          MaxTime,    \* bound: last tick of the clock
          MaxCalls    \* bound: calls that reach the bucket

ASSUME BucketAssumption ==
  /\ PerSecond \in Nat \ {0} /\ Second \in Nat \ {0}
  /\ MaxTime \in Nat /\ MaxCalls \in Nat

Burst == PerSecond * Second

VARIABLES clock,    \* ph_now_mono_ns
          mono,     \* the tick each call in progress has read
          calling,  \* the threads between that read and the mutex
          last,     \* rl_last_mono
          tokens,   \* rl_tokens
          dropped,  \* rl_dropped
          admitted  \* the ticks of the admitted events, in admission order

vars == <<clock, mono, calling, last, tokens, dropped, admitted>>

Init ==
  /\ clock = 0
  /\ mono = [t \in Threads |-> 0]
  /\ calling = {}
  /\ last = 0
  /\ tokens = Burst
  /\ dropped = 0
  /\ admitted = <<>>

Tick ==
  /\ clock < MaxTime
  /\ clock' = clock + 1
  /\ UNCHANGED <<mono, calling, last, tokens, dropped, admitted>>

ReadClock(t) ==
  /\ t \notin calling
  /\ calling' = calling \cup {t}
  /\ mono' = [mono EXCEPT ![t] = clock]
  /\ UNCHANGED <<clock, last, tokens, dropped, admitted>>

(* $identify, $groupidentify and $create_alias are never limited.          *)
Control(t) ==
  /\ t \in calling
  /\ calling' = calling \ {t}
  /\ UNCHANGED <<clock, mono, last, tokens, dropped, admitted>>

Elapsed(m) == IF m >= last THEN m - last ELSE 0

Refilled(m) ==
  LET t == tokens + Elapsed(m) * PerSecond
  IN IF t > Burst THEN Burst ELSE t

(* Mutant: a rejected call also pays.                                      *)
AdmitChargesRejected(t) ==
  LET have == Refilled(mono[t])
  IN /\ t \in calling
     /\ Len(admitted) + dropped < MaxCalls
     /\ calling' = calling \ {t}
     /\ last' = mono[t]
     /\ IF have < Second
        THEN dropped' = dropped + 1 /\ tokens' = 0 /\ UNCHANGED admitted
        ELSE /\ tokens' = have - Second
             /\ admitted' = Append(admitted, mono[t])
             /\ UNCHANGED dropped
     /\ UNCHANGED <<clock, mono>>

(* Mutant: rl_last_mono does not move when an event is rejected, so that   *)
(* the same time refills twice.                                            *)
AdmitKeepsLast(t) ==
  LET have == Refilled(mono[t])
  IN /\ t \in calling
     /\ Len(admitted) + dropped < MaxCalls
     /\ calling' = calling \ {t}
     /\ IF have < Second
        THEN tokens' = have /\ dropped' = dropped + 1 /\ UNCHANGED <<last, admitted>>
        ELSE /\ tokens' = have - Second
             /\ last' = mono[t]
             /\ admitted' = Append(admitted, mono[t])
             /\ UNCHANGED dropped
     /\ UNCHANGED <<clock, mono>>

(* rate_limit_admit for a capture or exception event.                      *)
Admit(t) ==
  LET have == Refilled(mono[t])
  IN /\ t \in calling
     /\ Len(admitted) + dropped < MaxCalls
     /\ calling' = calling \ {t}
     /\ last' = mono[t]
     /\ IF have < Second
        THEN tokens' = have /\ dropped' = dropped + 1 /\ UNCHANGED admitted
        ELSE /\ tokens' = have - Second
             /\ admitted' = Append(admitted, mono[t])
             /\ UNCHANGED dropped
     /\ UNCHANGED <<clock, mono>>

Next ==
  \/ Tick
  \/ \E t \in Threads : ReadClock(t) \/ Control(t) \/ Admit(t)

Spec == Init /\ [][Next]_vars
-----------------------------------------------------------------------------
(* Every variable has its type: rate_limit_admit keeps the bucket between  *)
(* empty and the burst.                                                    *)
TypeOK ==
  /\ clock \in 0 .. MaxTime
  /\ mono \in [Threads -> 0 .. MaxTime]
  /\ calling \subseteq Threads
  /\ last \in 0 .. MaxTime
  /\ tokens \in 0 .. Burst
  /\ dropped \in Nat
  /\ admitted \in Seq(0 .. MaxTime)

(* n events over a stretch of ticks stay within the burst and the rate.    *)
Fits(n, ticks) == n * Second <= Burst + PerSecond * ticks

(* "token-bucket cap on capture/exception events per second (burst == this *)
(* value)" (posthog.h): events admitted in a row whose ticks lie between   *)
(* lo and hi are no more than the burst and what the rate refills from lo  *)
(* to hi (rate_limit_admit).                                               *)
WindowBound ==
  \A i, j \in DOMAIN admitted : \A lo, hi \in 0 .. MaxTime :
    i <= j /\ (\A k \in i .. j : admitted[k] \in lo .. hi) =>
      Fits(j - i + 1, hi - lo)

(* The limiter sheds no more than it must: an event is rejected only if    *)
(* admitting it would break the bound over some stretch ending with it.    *)
DropsOnlyWhenNeeded ==
  [][\A t \in Threads :
       dropped' # dropped /\ t \in calling \ calling' =>
         \E i \in DOMAIN admitted :
           ~Fits(Len(admitted) - i + 2, mono[t] - admitted[i])]_vars
=============================================================================
