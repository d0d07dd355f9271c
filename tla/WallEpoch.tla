------------------------------ MODULE WallEpoch ------------------------------
(***************************************************************************)
(* Timestamps (src/ph_time.c, ph_core.c, ph_native.c, ph_serialize.c).  A  *)
(* capture reads only the monotonic clock, and copies the pair epochWall,  *)
(* epochMono into the event; the serializer makes wall time of the two.    *)
(* The sender compares the pair with the wall clock before each drain and  *)
(* moves epochWall when it is off by more than Threshold.                  *)
(*                                                                         *)
(* Every clock is read in a step of its own, and the wall clock may be     *)
(* set, to any time, between any two steps.                                *)
(***************************************************************************)
EXTENDS Integers

CONSTANTS Threshold,  \* threshold_ns of refresh_clock_epoch
          Top,        \* UINT64_MAX
          MaxTick,    \* bound: last tick of the monotonic clock
          MaxSteps    \* bound: times the wall clock is set

ASSUME EpochAssumption ==
  /\ Threshold \in Nat /\ Top \in Nat
  /\ MaxTick \in Nat /\ MaxTick <= Top /\ MaxSteps \in Nat

VARIABLES tick,       \* ph_now_mono_ns
          wall,       \* ph_now_wall_ns
          steps,      \* times the wall clock was set
          phase,      \* ph_init: "off", "wall" read, then "on"
          epochWall,  \* g_ph.epoch_wall_ns
          epochMono,  \* g_ph.epoch_mono_ns
          refresh,    \* the sender in refresh_clock_epoch
          capture,    \* a caller in ph__submit_event
          event,      \* the event captured last
          sound,      \* the wall clock was not set since its last reading
                      \* went into epochWall, and that reading fitted
          slack       \* ticks between the two readings of that time

epochVars == <<tick, wall, steps, phase, epochWall, epochMono, refresh, capture,
               event, sound, slack>>

Idle == [at |-> "idle", mono |-> 0, wall |-> 0, gap |-> 0, current |-> FALSE]
NoCapture == [at |-> "idle", mono |-> 0]
NoEvent == [mono |-> 0, epochWall |-> 0, epochMono |-> 0, due |-> 0, slack |-> 0,
            sound |-> FALSE]

EpochInit ==
  /\ tick = 0 /\ wall = Top \div 2 /\ steps = 0
  /\ phase = "off" /\ epochWall = 0 /\ epochMono = 0
  /\ refresh = Idle /\ capture = NoCapture /\ event = NoEvent
  /\ sound = FALSE /\ slack = 0

-----------------------------------------------------------------------------
(* The clocks.                                                             *)
Advance ==
  /\ tick < MaxTick /\ wall < Top
  /\ tick' = tick + 1
  /\ wall' = wall + 1
  /\ UNCHANGED <<steps, phase, epochWall, epochMono, refresh, capture, event, sound, slack>>

SetWall ==
  /\ steps < MaxSteps
  /\ steps' = steps + 1
  /\ wall' \in 0..Top
  /\ sound' = FALSE
  /\ refresh' = [refresh EXCEPT !.current = FALSE]
  /\ UNCHANGED <<tick, phase, epochWall, epochMono, capture, event, slack>>

(* ph_init reads the wall clock, then the monotonic clock.                 *)
InitWall ==
  /\ phase = "off"
  /\ phase' = "wall"
  /\ epochWall' = wall
  /\ slack' = tick     \* when the wall clock was read; until InitMono
  /\ sound' = TRUE
  /\ UNCHANGED <<tick, wall, steps, epochMono, refresh, capture, event>>

InitMono ==
  /\ phase = "wall"
  /\ phase' = "on"
  /\ epochMono' = tick
  /\ slack' = tick - slack
  /\ UNCHANGED <<tick, wall, steps, epochWall, refresh, capture, event, sound>>

-----------------------------------------------------------------------------
(* ph_correct_wall_epoch.                                                  *)
Predicted(m) == IF Top - epochWall < m - epochMono THEN Top
                ELSE epochWall + (m - epochMono)

Distance(x, y) == IF x >= y THEN x - y ELSE y - x

Correct(w, m) ==
  LET skew == Distance(w, Predicted(m))
  IN IF m < epochMono \/ skew <= Threshold THEN epochWall
     ELSE IF w >= Predicted(m)
     THEN (IF Top - epochWall < skew THEN Top ELSE epochWall + skew)
     ELSE IF skew > epochWall THEN 0 ELSE epochWall - skew

(* The arithmetic saturates: the wall clock is behind the time since       *)
(* ph_init, or the prediction is past the end of the range.                *)
Saturates(w, m) == w < m - epochMono \/ Top - epochWall < m - epochMono

(* refresh_clock_epoch, three steps.                                       *)
RefreshMono ==
  /\ phase = "on" /\ refresh.at = "idle"
  /\ refresh' = [Idle EXCEPT !.at = "mono", !.mono = tick]
  /\ UNCHANGED <<tick, wall, steps, phase, epochWall, epochMono, capture, event, sound, slack>>

RefreshWall ==
  /\ refresh.at = "mono"
  /\ refresh' = [at |-> "wall", mono |-> refresh.mono, wall |-> wall,
                 gap |-> tick - refresh.mono, current |-> TRUE]
  /\ UNCHANGED <<tick, wall, steps, phase, epochWall, epochMono, capture, event, sound, slack>>

RefreshStore ==
  /\ refresh.at = "wall"
  /\ epochWall' = Correct(refresh.wall, refresh.mono)
  /\ refresh' = Idle
  /\ sound' = (refresh.current /\ ~Saturates(refresh.wall, refresh.mono))
  /\ slack' = refresh.gap
  /\ UNCHANGED <<tick, wall, steps, phase, epochMono, capture, event>>

(* ph__submit_event reads the clock, and copies the epoch under the mutex. *)
CaptureMono ==
  /\ phase = "on" /\ capture.at = "idle"
  /\ capture' = [at |-> "mono", mono |-> tick]
  /\ UNCHANGED <<tick, wall, steps, phase, epochWall, epochMono, refresh, event, sound, slack>>

(* due is what the wall clock, as it is set now, read at that tick.        *)
CaptureEpoch ==
  /\ capture.at = "mono"
  /\ capture' = NoCapture
  /\ event' = [mono |-> capture.mono, epochWall |-> epochWall, epochMono |-> epochMono,
               due |-> wall - (tick - capture.mono), slack |-> slack, sound |-> sound]
  /\ UNCHANGED <<tick, wall, steps, phase, epochWall, epochMono, refresh, sound, slack>>

EpochNext ==
  \/ Advance \/ SetWall \/ InitWall \/ InitMono
  \/ RefreshMono \/ RefreshWall \/ RefreshStore
  \/ CaptureMono \/ CaptureEpoch

EpochSpec == EpochInit /\ [][EpochNext]_epochVars

-----------------------------------------------------------------------------
\* Mutant: the epoch of the moment, not of the capture.
StampFromGlobal(e) ==
  LET sum == epochWall + (e.mono - e.epochMono)
  IN IF sum > Top THEN sum - (Top + 1) ELSE sum

(* serialize_event: wall time of an event, in unsigned arithmetic.         *)
Stamp(e) ==
  LET sum == e.epochWall + (IF e.mono >= e.epochMono THEN e.mono - e.epochMono ELSE 0)
  IN IF sum > Top THEN sum - (Top + 1) ELSE sum

EpochTypeOK ==
  /\ tick \in 0..MaxTick /\ wall \in 0..Top /\ steps \in 0..MaxSteps
  /\ phase \in {"off", "wall", "on"}
  /\ epochWall \in 0..Top /\ epochMono \in 0..tick
  /\ refresh \in [at : {"idle", "mono", "wall"}, mono : 0..tick, wall : 0..Top,
                  gap : 0..tick, current : BOOLEAN]
  /\ capture \in [at : {"idle", "mono"}, mono : 0..tick]
  /\ event \in [mono : 0..tick, epochWall : 0..Top, epochMono : 0..tick,
                due : Int, slack : 0..tick, sound : BOOLEAN]
  /\ sound \in BOOLEAN /\ slack \in 0..tick

(* An event captured while epochWall holds a correction made since the     *)
(* clock was last set is stamped within Threshold of the time it happened, *)
(* but for the ticks that passed between the two readings of that          *)
(* correction; and it keeps that stamp however the clock is set while it   *)
(* waits in the queue.                                                     *)
StampsAccurate ==
  event.sound /\ event.due + Threshold + event.slack <= Top
    => Distance(Stamp(event), event.due) <= Threshold + event.slack
=============================================================================
