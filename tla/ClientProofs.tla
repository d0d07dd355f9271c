---------------------------- MODULE ClientProofs ----------------------------
(***************************************************************************)
(* Proofs about the smaller parts of the client, for every value of their  *)
(* constants: the day number of a date (CivilDate), the window of a        *)
(* Retry-After header (BackoffWindow), the timestamps of events            *)
(* (WallEpoch), the wasm shim (WasmShim) and the rate limit of captures    *)
(* (TokenBucket).                                                          *)
(***************************************************************************)
EXTENDS CivilDate, BackoffWindow, WallEpoch, WasmShim, TokenBucket,
        SequenceTheorems, TLAPS

-----------------------------------------------------------------------------
(* CivilDate.  DaysFromCivil counts in years that start in March: YearDays *)
(* is the day number of 1 March of year y, but for a constant.             *)
YearDays(y) == LET yoe == y - (y \div 400) * 400
               IN (y \div 400) * 146097 + yoe * 365 + (yoe \div 4) - (yoe \div 100)

LEMMA YearLength ==
  ASSUME NEW y \in Int
  PROVE  YearDays(y) = YearDays(y - 1) + (IF Leap(y) THEN 366 ELSE 365)
<1> DEFINE e == y \div 400
           r == y - 400 * e
<1>1. e \in Int /\ r \in 0..399 /\ y = 400 * e + r
  OBVIOUS
<1> HIDE DEF e, r
<1>2. y \div 400 = e /\ y - e * 400 = r
  BY <1>1
<1>3. Leap(y) <=> (r % 4 = 0 /\ (r % 100 # 0 \/ r = 0))
  BY <1>1 DEF Leap
<1>4. CASE r = 0
  BY <1>1, <1>2, <1>3, <1>4 DEF YearDays
<1>5. CASE r > 0
  BY <1>1, <1>2, <1>3, <1>5 DEF YearDays
<1> QED
  BY <1>1, <1>4, <1>5

(* The days before a month in a year that starts in March.                 *)
MonthDays(m) == (153 * (IF m > 2 THEN m - 3 ELSE m + 9) + 2) \div 5

LEMMA MonthStarts ==
  /\ MonthDays(3) = 0 /\ MonthDays(4) = 31 /\ MonthDays(5) = 61 /\ MonthDays(6) = 92
  /\ MonthDays(7) = 122 /\ MonthDays(8) = 153 /\ MonthDays(9) = 184
  /\ MonthDays(10) = 214 /\ MonthDays(11) = 245 /\ MonthDays(12) = 275
  /\ MonthDays(1) = 306 /\ MonthDays(2) = 337
  BY DEF MonthDays

(* The count starts where ph_now_wall_ns does.                             *)
LEMMA EpochDay == DaysFromCivil(1970, 1, 1) = 0
  BY SMT DEF DaysFromCivil

(* The date is one of the calendar, and is numbered as the code does it.   *)
CivilIInv ==
  /\ year \in Nat /\ month \in 1..12 /\ dayNumber \in Int
  /\ dayOfMonth \in 1..MonthLength(year, month)
  /\ CalendarAgrees

(* Of every calendar that starts on a 1 January that days_from_civil       *)
(* numbers correctly: it numbers every later day correctly, for any year.  *)
THEOREM CalendarExact ==
  FirstDay = DaysFromCivil(FirstYear, 1, 1) => (CivilSpec => []CalendarAgrees)
<1> SUFFICES ASSUME FirstDay = DaysFromCivil(FirstYear, 1, 1)
             PROVE  CivilSpec => []CalendarAgrees
  OBVIOUS
<1>1. CivilInit => CivilIInv
  BY CivilAssumption DEF CivilInit, CivilIInv, CalendarAgrees, MonthLength
<1>2. CivilIInv /\ [CivilNext]_civilVars => CivilIInv'
  <2> SUFFICES ASSUME CivilIInv, [CivilNext]_civilVars PROVE CivilIInv'
    OBVIOUS
  <2> DEFINE y == year
             m == month
             d == dayOfMonth
  <2>0. y \in Nat /\ m \in 1..12 /\ d \in Int /\ dayNumber = DaysFromCivil(y, m, d)
        /\ d \in 1..MonthLength(y, m) /\ dayNumber \in Int
    BY DEF CivilIInv, CalendarAgrees, MonthLength
  <2>1. CASE NextDay /\ dayNumber' = dayNumber + 1
    <3>1. DaysFromCivil(y, m, d + 1) = DaysFromCivil(y, m, d) + 1
      BY <2>0, SMT DEF DaysFromCivil
    <3> QED
      BY <2>0, <2>1, <3>1 DEF NextDay, CivilIInv, CalendarAgrees, MonthLength
  <2>2. CASE NextMonth /\ dayNumber' = dayNumber + 1
    <3>1. DaysFromCivil(y, m + 1, 1) = DaysFromCivil(y, m, MonthLength(y, m)) + 1
      <4>1. m \in 1..11
        BY <2>0, <2>2 DEF NextMonth
      <4>2. /\ YearDays(y) \in Int /\ YearDays(y - 1) \in Int
            /\ YearDays(y) = YearDays(y - 1) + (IF Leap(y) THEN 366 ELSE 365)
        BY <2>0, YearLength, SMT DEF YearDays
      <4>3. MonthLength(y, m) \in Int
        BY DEF MonthLength
      <4>4. DaysFromCivil(y, m, MonthLength(y, m)) =
              (IF m <= 2 THEN YearDays(y - 1) ELSE YearDays(y)) + MonthDays(m)
                + MonthLength(y, m) - 719469
        BY <2>0, <4>3, SMT DEF DaysFromCivil, YearDays, MonthDays
      <4>5. DaysFromCivil(y, m + 1, 1) =
              (IF m + 1 <= 2 THEN YearDays(y - 1) ELSE YearDays(y)) + MonthDays(m + 1)
                + 1 - 719469
        BY <2>0, <4>1, SMT DEF DaysFromCivil, YearDays, MonthDays
      <4>6. MonthDays(m + 1) = IF m = 2 THEN 0 ELSE MonthDays(m) + MonthLength(y, m)
        BY <4>1, MonthStarts DEF MonthLength
      <4>7. m = 2 => MonthDays(m) + MonthLength(y, m) = IF Leap(y) THEN 366 ELSE 365
        BY MonthStarts DEF MonthLength
      <4>8. MonthDays(m) \in Int
        BY <4>1, MonthStarts
      <4> QED
        BY <4>1, <4>2, <4>3, <4>4, <4>5, <4>6, <4>7, <4>8, SMT
    <3> QED
      BY <2>0, <2>2, <3>1 DEF NextMonth, CivilIInv, CalendarAgrees, MonthLength
  <2>3. CASE NextYear /\ dayNumber' = dayNumber + 1
    <3>1. DaysFromCivil(y + 1, 1, 1) = DaysFromCivil(y, 12, 31) + 1
      BY <2>0, SMT DEF DaysFromCivil
    <3> QED
      BY <2>0, <2>3, <3>1 DEF NextYear, CivilIInv, CalendarAgrees, MonthLength
  <2>4. CASE UNCHANGED civilVars
    BY <2>4 DEF civilVars, CivilIInv, CalendarAgrees
  <2> QED
    BY <2>1, <2>2, <2>3, <2>4 DEF CivilNext
<1>3. CivilIInv => CalendarAgrees
  BY DEF CivilIInv
<1> QED
  BY <1>1, <1>2, <1>3, PTL DEF CivilSpec

-----------------------------------------------------------------------------
(* BackoffWindow.  The only products are by the units: a fact about them   *)
(* each, and the rest is linear.                                           *)
LEMMA TimesMonotone ==
  ASSUME NEW a \in Int, NEW b \in Int, NEW k \in Nat, a <= b
  PROVE  a * k <= b * k
  OBVIOUS

LEMMA UnitsTyped ==
  /\ NsPerMs \in Nat /\ NsPerMs > 0 /\ MsPerSec \in Nat /\ MsPerSec > 0
  /\ NsPerSec \in Nat /\ NsPerSec > 0
  /\ DefaultMs \in Nat /\ MaxMs \in Nat /\ MaxNs \in Nat /\ DefaultMs <= MaxMs
  /\ MaxNow \in Nat /\ MaxWall \in Nat /\ MaxSecs \in Nat
<1>1. /\ NsPerMs \in Nat /\ NsPerMs > 0 /\ MsPerSec \in Nat /\ MsPerSec > 0
      /\ DefaultMs \in Nat /\ MaxMs \in Nat /\ DefaultMs <= MaxMs
      /\ MaxNow \in Nat /\ MaxWall \in Nat /\ MaxSecs \in Nat
  BY BackoffAssumption
<1>2. NsPerSec \in Nat /\ NsPerSec > 0
  BY <1>1 DEF NsPerSec
<1>3. MaxNs \in Nat
  BY <1>1 DEF MaxNs
<1> QED
  BY <1>1, <1>2, <1>3

(* The cap in milliseconds is the cap in nanoseconds.                      *)
LEMMA CappedBounds ==
  ASSUME NEW secs \in Nat
  PROVE  /\ CappedMs(secs) \in 0..MaxMs
         /\ CappedMs(secs) * NsPerMs =
              IF secs * NsPerSec > MaxNs THEN MaxNs ELSE secs * NsPerSec
<1> DEFINE q == MaxMs \div MsPerSec
<1>1. q \in Nat /\ q * MsPerSec <= MaxMs /\ MaxMs < (q + 1) * MsPerSec
  BY UnitsTyped
<1>2. secs * NsPerSec = (secs * MsPerSec) * NsPerMs /\ secs * MsPerSec \in Nat
  BY UnitsTyped DEF NsPerSec
<1>3. CASE secs > q
  <2>1. (q + 1) * MsPerSec <= secs * MsPerSec
    BY <1>1, <1>3, UnitsTyped, TimesMonotone
  <2>2. MaxMs <= secs * MsPerSec
    BY <1>1, <1>2, <2>1, UnitsTyped
  <2>3. MaxNs <= secs * NsPerSec
    BY <1>2, <2>2, UnitsTyped, TimesMonotone DEF MaxNs
  <2> QED
    BY <1>3, <2>3, UnitsTyped DEF CappedMs, MaxNs
<1>4. CASE ~(secs > q)
  <2>1. secs * MsPerSec <= q * MsPerSec
    BY <1>1, <1>4, UnitsTyped, TimesMonotone
  <2>2. secs * MsPerSec <= MaxMs
    BY <1>1, <1>2, <2>1, UnitsTyped
  <2>3. secs * NsPerSec <= MaxNs
    BY <1>2, <2>2, UnitsTyped, TimesMonotone DEF MaxNs
  <2> QED
    BY <1>2, <1>4, <2>2, <2>3, UnitsTyped DEF CappedMs
<1> QED
  BY <1>3, <1>4

(* What is parsed is what the header means, rounded up by under a second.  *)
LEMMA ParsedBounds ==
  ASSUME NEW h \in Headers \ {Unusable}, wallNs \in Nat
  PROVE  /\ ParseRetryAfter(h) \in 0..MaxMs /\ Wanted(h) \in 0..MaxNs
         /\ Wanted(h) <= ParseRetryAfter(h) * NsPerMs
         /\ ParseRetryAfter(h) * NsPerMs <= Wanted(h) + NsPerSec
<1> DEFINE rest == h.secs - (wallNs \div NsPerSec)
           part == wallNs % NsPerSec
<1>1. h.secs \in Nat /\ h.form \in {"seconds", "date"}
  BY UnitsTyped DEF Headers, Unusable
<1>2. CASE h.form = "seconds"
  <2>1. h.secs * NsPerSec \in Nat
    BY <1>1, UnitsTyped
  <2> QED
    BY <1>1, <1>2, <2>1, CappedBounds, UnitsTyped DEF ParseRetryAfter, Wanted
<1>3. CASE h.form = "date"
  <2>1. rest \in Int /\ part \in 0..(NsPerSec - 1)
    BY <1>1, UnitsTyped
  <2>2. h.secs * NsPerSec - wallNs = rest * NsPerSec - part
    BY <1>1, UnitsTyped
  <2>3. rest * NsPerSec \in Int
    BY <2>1, UnitsTyped
  <2>4. CASE rest < 0
    <3>1. rest * NsPerSec <= 0 * NsPerSec
      BY <2>1, <2>4, UnitsTyped, TimesMonotone
    <3>2. ParseRetryAfter(h) = 0
      BY <1>3, <2>4, UnitsTyped DEF ParseRetryAfter, CappedMs
    <3>3. Wanted(h) = 0
      BY <1>3, <2>1, <2>2, <2>3, <3>1, UnitsTyped DEF Wanted
    <3> QED
      BY <3>2, <3>3, UnitsTyped
  <2>5. CASE ~(rest < 0)
    <3>1. ParseRetryAfter(h) = CappedMs(rest)
      BY <1>3, <2>5 DEF ParseRetryAfter
    <3>2. /\ CappedMs(rest) \in 0..MaxMs
          /\ CappedMs(rest) * NsPerMs =
               IF rest * NsPerSec > MaxNs THEN MaxNs ELSE rest * NsPerSec
      BY <2>1, <2>5, CappedBounds
    <3>3. rest * NsPerSec >= 0
      BY <2>1, <2>5, UnitsTyped
    <3>4. Wanted(h) = LET ns == rest * NsPerSec - part
                      IN IF ns < 0 THEN 0 ELSE IF ns > MaxNs THEN MaxNs ELSE ns
      BY <1>3, <2>2 DEF Wanted
    <3> HIDE DEF rest, part
    <3> QED
      BY <2>1, <2>3, <3>1, <3>2, <3>3, <3>4, UnitsTyped
  <2> QED
    BY <2>4, <2>5
<1> QED
  BY <1>1, <1>2, <1>3

LEMMA ArmedBounds ==
  ASSUME NEW ms \in 0..MaxMs, NEW wait \in Nat, monoNs \in Nat,
         wait <= ms * NsPerMs, ms * NsPerMs <= wait + NsPerSec
  PROVE  /\ Armed(ms) \in Nat /\ Armed(ms) >= monoNs + wait
         /\ 8 * (Armed(ms) - monoNs) <= 9 * (wait + NsPerSec)
         /\ Armed(ms) <= monoNs + MaxNs
<1> DEFINE jitter == monoNs % ((ms \div 8) + 1)
           w == IF ms + jitter > MaxMs THEN MaxMs ELSE ms + jitter
<1>1. jitter \in Nat /\ jitter <= ms \div 8
  BY UnitsTyped
<1>2. 8 * jitter <= ms
  BY <1>1, UnitsTyped
<1>3. w \in Nat /\ ms <= w /\ 8 * w <= 9 * ms /\ w <= MaxMs
  BY <1>1, <1>2, UnitsTyped
<1>4. Armed(ms) = monoNs + w * NsPerMs
  BY DEF Armed
<1> HIDE DEF w, jitter
<1>5. /\ ms * NsPerMs <= w * NsPerMs /\ w * NsPerMs <= MaxNs
      /\ (8 * w) * NsPerMs <= (9 * ms) * NsPerMs
  BY <1>3, UnitsTyped, TimesMonotone DEF MaxNs
<1>6. /\ w * NsPerMs \in Nat /\ ms * NsPerMs \in Nat
      /\ (8 * w) * NsPerMs = 8 * (w * NsPerMs)
      /\ (9 * ms) * NsPerMs = 9 * (ms * NsPerMs)
  BY <1>3, UnitsTyped
<1> QED
  BY <1>4, <1>5, <1>6, UnitsTyped

(* The limiter holds sends as long as the last throttling answer asked,    *)
(* for any units, default and cap: ph_ratelimit_note_response and          *)
(* ph_ratelimit_arm round and add jitter towards later only.               *)
THEOREM HoldsAsAsked == BackoffSpec => [](BackoffTypeOK /\ HoldAsAsked)
<1> DEFINE Inv == BackoffTypeOK /\ HoldAsAsked
<1>1. BackoffInit => Inv
  BY UnitsTyped DEF BackoffInit, BackoffTypeOK, HoldAsAsked
<1>2. Inv /\ [BackoffNext]_backoffVars => Inv'
  <2> SUFFICES ASSUME Inv, [BackoffNext]_backoffVars PROVE Inv'
    OBVIOUS
  <2>0. monoNs \in 0..MaxNow /\ monoNs \in Nat /\ wallNs \in Nat
    BY UnitsTyped DEF BackoffTypeOK
  <2>1. ASSUME NEW ms \in 0..MaxMs, NEW wait \in 0..MaxNs, Arm(ms, wait),
               wait <= ms * NsPerMs, ms * NsPerMs <= wait + NsPerSec
        PROVE  Inv'
    <3>1. /\ Armed(ms) \in Nat /\ Armed(ms) >= monoNs + wait
          /\ 8 * (Armed(ms) - monoNs) <= 9 * (wait + NsPerSec)
          /\ Armed(ms) <= monoNs + MaxNs
      BY <2>0, <2>1, ArmedBounds, UnitsTyped
    <3>2. /\ until' = Armed(ms) /\ asked' = [at |-> monoNs, wait |-> wait]
          /\ monoNs' = monoNs /\ wallNs' = wallNs
      BY <2>1 DEF Arm
    <3> QED
      BY <2>0, <2>1, <3>1, <3>2, UnitsTyped DEF BackoffTypeOK, HoldAsAsked
  <2>2. CASE Pass
    BY <2>2, UnitsTyped DEF Pass, BackoffTypeOK, HoldAsAsked
  <2>3. CASE ResetClock
    BY <2>3, UnitsTyped DEF ResetClock, BackoffTypeOK, HoldAsAsked
  <2>4. CASE Throttled
    <3>1. PICK h \in Headers \ {Unusable} : Arm(ParseRetryAfter(h), Wanted(h))
      BY <2>4 DEF Throttled
    <3> QED
      BY <2>0, <2>1, <3>1, ParsedBounds
  <2>5. CASE ThrottledForDefault
    <3>1. DefaultMs * NsPerMs \in 0..MaxNs /\ DefaultMs \in 0..MaxMs
      BY UnitsTyped, TimesMonotone DEF MaxNs
    <3> QED
      BY <2>1, <2>5, <3>1, UnitsTyped DEF ThrottledForDefault
  <2>6. CASE NotThrottled \/ UNCHANGED backoffVars
    BY <2>6 DEF NotThrottled, backoffVars, BackoffTypeOK, HoldAsAsked
  <2> QED
    BY <2>2, <2>3, <2>4, <2>5, <2>6 DEF BackoffNext
<1> QED
  BY <1>1, <1>2, PTL DEF BackoffSpec

-----------------------------------------------------------------------------
(* WallEpoch.  Away is how far the epoch is from the clock: the stamp of   *)
(* an event less what the clock read.  While the epoch is sound that is at *)
(* most Threshold and the gap between the two readings it was made from.   *)
Away == epochWall - epochMono + tick - wall

EpochIInv ==
  /\ EpochTypeOK
  /\ phase = "off" => ~sound
  /\ phase = "wall" => slack <= tick
  /\ phase = "wall" /\ sound => wall = epochWall + (tick - slack)
  /\ phase # "on" => refresh.at = "idle" /\ capture.at = "idle"
  /\ phase = "on" /\ sound => Away <= Threshold + slack /\ -Away <= Threshold + slack
  /\ refresh.at # "idle" => refresh.mono >= epochMono
  /\ refresh.at = "wall" => refresh.mono + refresh.gap <= tick
  /\ refresh.at = "wall" /\ refresh.current =>
       wall = refresh.wall + (tick - refresh.mono - refresh.gap)
  /\ capture.at = "mono" => capture.mono >= epochMono
  /\ StampsAccurate

LEMMA StoreAccurate ==
  ASSUME EpochIInv, refresh.at = "wall", refresh.current,
         ~Saturates(refresh.wall, refresh.mono), phase = "on"
  PROVE  LET new == Correct(refresh.wall, refresh.mono) - epochMono + tick - wall
         IN new <= Threshold + refresh.gap /\ -new <= Threshold + refresh.gap
<1> DEFINE w == refresh.wall
           m == refresh.mono
           g == refresh.gap
<1>1. /\ w \in 0..Top /\ m \in Nat /\ g \in Nat /\ epochMono \in Nat /\ epochWall \in 0..Top
      /\ tick \in Nat /\ wall \in Nat /\ Top \in Nat /\ Threshold \in Nat
      /\ m >= epochMono /\ wall = w + (tick - m - g) /\ m + g <= tick
  BY EpochAssumption DEF EpochIInv, EpochTypeOK
<1>2. w >= m - epochMono /\ Top - epochWall >= m - epochMono
  BY <1>1 DEF Saturates
<1>3. Predicted(m) = epochWall + (m - epochMono)
  BY <1>1, <1>2 DEF Predicted
<1> DEFINE c == Correct(w, m)
<1>4. \/ c = epochWall /\ Distance(w, Predicted(m)) <= Threshold
      \/ c = epochWall + (w - Predicted(m))
  BY <1>1, <1>2, <1>3 DEF Correct, Distance
<1> HIDE DEF w, m, g, c
<1>5. c - epochMono + tick - wall <= Threshold + g /\ -(c - epochMono + tick - wall) <= Threshold + g
  BY <1>1, <1>3, <1>4 DEF Distance
<1> QED
  BY <1>5 DEF w, m, g, c

LEMMA CorrectTyped ==
  ASSUME EpochTypeOK, NEW w \in 0..Top, NEW m \in Nat
  PROVE  Correct(w, m) \in 0..Top
<1>1. epochWall \in 0..Top /\ epochMono \in Nat /\ Top \in Nat /\ Threshold \in Nat
  BY EpochAssumption DEF EpochTypeOK
<1> QED
  BY <1>1 DEF Correct, Distance, Predicted

(* An event's stamp depends on nothing but the event.                      *)
LEMMA StampFixed ==
  ASSUME event' = event, StampsAccurate PROVE StampsAccurate'
  BY DEF StampsAccurate, Stamp, Distance

LEMMA CaptureAccurate ==
  ASSUME EpochIInv, CaptureEpoch PROVE StampsAccurate'
<1>1. /\ phase = "on" /\ capture.mono >= epochMono /\ capture.mono \in 0..tick
      /\ epochWall \in 0..Top /\ epochMono \in Nat /\ tick \in Nat /\ wall \in Nat
      /\ slack \in Nat /\ Top \in Nat /\ Threshold \in Nat
      /\ sound => Away <= Threshold + slack /\ -Away <= Threshold + slack
  BY EpochAssumption DEF EpochIInv, EpochTypeOK, CaptureEpoch
<1>2. /\ event'.mono = capture.mono /\ event'.epochWall = epochWall
      /\ event'.epochMono = epochMono /\ event'.due = wall - (tick - capture.mono)
      /\ event'.slack = slack /\ event'.sound = sound
  BY SMTT(15) DEF CaptureEpoch
<1> SUFFICES ASSUME sound, event'.due + Threshold + slack <= Top
             PROVE  Distance(Stamp(event'), event'.due) <= Threshold + slack
  BY <1>2 DEF StampsAccurate, Stamp, Distance
<1> DEFINE sum == epochWall + (capture.mono - epochMono)
<1>3. sum - event'.due <= Threshold + slack /\ event'.due - sum <= Threshold + slack
  BY <1>1, <1>2 DEF Away
<1>4. sum \in Nat /\ sum <= Top /\ event'.due \in Int
  BY <1>1, <1>2, <1>3
<1>5. Stamp(event') = sum
  BY <1>1, <1>2, <1>4 DEF Stamp
<1> HIDE DEF sum
<1> QED
  BY <1>1, <1>3, <1>4, <1>5 DEF Distance

(* Timestamps are accurate whatever the threshold and the range of the     *)
(* clocks, however often the wall clock is set, and wherever the sender    *)
(* and the capturing thread are when it is: the three steps of             *)
(* refresh_clock_epoch and the two of ph__submit_event interleave freely.  *)
THEOREM StampsStayAccurate == EpochSpec => [](EpochTypeOK /\ StampsAccurate)
<1>1. EpochInit => EpochIInv
  <2> SUFFICES ASSUME EpochInit PROVE EpochIInv
    OBVIOUS
  <2>1. Top \div 2 \in 0..Top
    BY EpochAssumption
  <2>2. EpochTypeOK
    <3>1. tick = 0 /\ 0 \in 0..tick /\ 0 \in 0..Top /\ 0 \in 0..MaxTick /\ 0 \in 0..MaxSteps
          /\ 0 \in Int
      BY EpochAssumption DEF EpochInit
    <3> QED
      BY <2>1, <3>1, Zenon DEF EpochInit, EpochTypeOK, Idle, NoCapture, NoEvent
  <2> QED
    BY <2>2 DEF EpochInit, EpochIInv, StampsAccurate, Idle, NoCapture, NoEvent
<1>2. EpochIInv /\ [EpochNext]_epochVars => EpochIInv'
  <2> SUFFICES ASSUME EpochIInv, [EpochNext]_epochVars PROVE EpochIInv'
    OBVIOUS
  <2> USE EpochAssumption
  <2>1. CASE Advance
    BY <2>1, StampFixed DEF Advance, EpochIInv, EpochTypeOK, Away
  <2>2. CASE SetWall
    <3>1. refresh' = [at |-> refresh.at, mono |-> refresh.mono, wall |-> refresh.wall,
                      gap |-> refresh.gap, current |-> FALSE]
      BY <2>2, Zenon DEF SetWall, EpochIInv, EpochTypeOK
    <3>2. EpochTypeOK'
      <4>1. refresh' \in [at : {"idle", "mono", "wall"}, mono : 0..tick, wall : 0..Top,
                     gap : 0..tick, current : BOOLEAN]
        BY <3>1, Zenon DEF EpochIInv, EpochTypeOK
      <4>2. steps' \in 0..MaxSteps
        BY <2>2 DEF SetWall, EpochIInv, EpochTypeOK
      <4> QED
        BY <2>2, <4>1, <4>2, Zenon DEF SetWall, EpochIInv, EpochTypeOK
    <3> QED
      BY <2>2, <3>1, <3>2, StampFixed DEF SetWall, EpochIInv
  <2>3. CASE InitWall
    BY <2>3, StampFixed DEF InitWall, EpochIInv, EpochTypeOK, Away
  <2>4. CASE InitMono
    BY <2>4, StampFixed DEF InitMono, EpochIInv, EpochTypeOK, Away
  <2>5. CASE RefreshMono
    <3>1. refresh' = [at |-> "mono", mono |-> tick, wall |-> 0, gap |-> 0, current |-> FALSE]
      BY <2>5, Zenon DEF RefreshMono, Idle
    <3>2. EpochTypeOK'
      <4>1. tick \in 0..tick /\ 0 \in 0..tick /\ 0 \in 0..Top
        BY DEF EpochIInv, EpochTypeOK
      <4>2. refresh' \in [at : {"idle", "mono", "wall"}, mono : 0..tick, wall : 0..Top,
                     gap : 0..tick, current : BOOLEAN]
        BY <3>1, <4>1, Zenon
      <4> QED
        BY <2>5, <4>2 DEF RefreshMono, EpochIInv, EpochTypeOK
    <3> QED
      BY <2>5, <3>1, <3>2, StampFixed DEF RefreshMono, EpochIInv, EpochTypeOK, Away
  <2>6. CASE RefreshWall
    BY <2>6, StampFixed DEF RefreshWall, EpochIInv, EpochTypeOK, Away
  <2>7. CASE RefreshStore
    <3>1. /\ phase = "on" /\ refresh.wall \in 0..Top /\ refresh.mono \in Nat
          /\ refresh.gap \in 0..tick /\ refresh.current \in BOOLEAN
      BY <2>7 DEF RefreshStore, EpochIInv, EpochTypeOK
    <3>2. epochWall' \in 0..Top
      BY <2>7, <3>1, CorrectTyped, Zenon DEF RefreshStore, EpochIInv
    <3>3. sound' => Away' <= Threshold + slack' /\ -Away' <= Threshold + slack'
      BY <2>7, <3>1, StoreAccurate DEF RefreshStore, Away
    <3>4. sound' \in BOOLEAN
      BY <2>7 DEF RefreshStore
    <3>5. /\ tick' = tick /\ wall' = wall /\ steps' = steps /\ phase' = phase
          /\ epochMono' = epochMono /\ capture' = capture /\ event' = event
          /\ refresh' = Idle /\ slack' = refresh.gap
      BY <2>7 DEF RefreshStore
    <3> QED
      BY <3>1, <3>2, <3>3, <3>4, <3>5, StampFixed DEF EpochIInv, EpochTypeOK, Idle
  <2>8. CASE CaptureMono
    BY <2>8, StampFixed DEF CaptureMono, EpochIInv, EpochTypeOK, Away
  <2>9. CASE CaptureEpoch
    <3>1. StampsAccurate'
      BY <2>9, CaptureAccurate
    <3>2. EpochTypeOK'
      BY <2>9 DEF CaptureEpoch, EpochIInv, EpochTypeOK, NoCapture
    <3> QED
      BY <2>9, <3>1, <3>2 DEF CaptureEpoch, EpochIInv, EpochTypeOK, Away, NoCapture
  <2>10. CASE UNCHANGED epochVars
    BY <2>10, StampFixed DEF epochVars, EpochIInv, EpochTypeOK, Away
  <2> QED
    BY <2>1, <2>2, <2>3, <2>4, <2>5, <2>6, <2>7, <2>8, <2>9, <2>10 DEF EpochNext
<1>3. EpochIInv => EpochTypeOK /\ StampsAccurate
  BY DEF EpochIInv
<1> QED
  BY <1>1, <1>2, <1>3, PTL DEF EpochSpec
-----------------------------------------------------------------------------
(* WasmShim.  A call in progress belongs to the session in force, because  *)
(* ph_shutdown does nothing inside a callback: this is what HandedInSession*)
(* needs besides the types.                                                *)
Frame == [op : Scrubbing \cup Direct, session : Nat, props : SUBSET Nat,
          at : {"hook", "log", "bridge"}]

FramesInSession ==
  /\ stack \in Seq(Frame)
  /\ \A i \in DOMAIN stack : stack[i].session = session /\ stack[i].props \subseteq {session}
  /\ stack # <<>> => enabled
  /\ enabled => session # 0

ShimIInv == ShimTypeOK /\ FramesInSession /\ HandedInSession

LEMMA TailFrames ==
  ASSUME NEW s \in Seq(Frame), s # <<>>
  PROVE  /\ Tail(s) \in Seq(Frame) /\ Len(Tail(s)) = Len(s) - 1
         /\ \A i \in DOMAIN Tail(s) : i + 1 \in DOMAIN s /\ Tail(s)[i] = s[i + 1]
OBVIOUS

LEMMA HeadFrame ==
  ASSUME NEW s \in Seq(Frame), s # <<>>
  PROVE  1 \in DOMAIN s /\ Head(s) = s[1] /\ Head(s) \in Frame
OBVIOUS

LEMMA PushFrame ==
  ASSUME NEW s \in Seq(Frame), NEW f \in Frame
  PROVE  /\ <<f>> \o s \in Seq(Frame) /\ Len(<<f>> \o s) = Len(s) + 1
         /\ \A i \in DOMAIN (<<f>> \o s) :
              (<<f>> \o s)[i] = f \/ \E j \in DOMAIN s : (<<f>> \o s)[i] = s[j]
OBVIOUS

(* A step in which a call in progress ends or moves on to at.              *)
LEMMA StackStep ==
  ASSUME ShimIInv, stack # <<>>, UNCHANGED <<sessions, session, enabled, hook, logger, bound>>,
         superOf' \subseteq {session}, HandedInSession',
         \/ stack' = Tail(stack)
         \/ \E at \in {"hook", "log", "bridge"} :
              stack' = Replace([Head(stack) EXCEPT !.at = at])
  PROVE  ShimIInv'
<1> USE ShimAssumption
<1>1. stack \in Seq(Frame) /\ 1 \in DOMAIN stack /\ Head(stack) = stack[1]
      /\ Head(stack) \in Frame
  BY HeadFrame DEF ShimIInv, FramesInSession
<1>2. /\ stack' \in Seq(Frame) /\ Len(stack') <= Len(stack)
      /\ \A i \in DOMAIN stack' : \E j \in DOMAIN stack :
           stack'[i].session = stack[j].session /\ stack'[i].props = stack[j].props
  <2>1. CASE stack' = Tail(stack)
    BY <1>1, <2>1, TailFrames
  <2>2. CASE \E at \in {"hook", "log", "bridge"} :
               stack' = Replace([Head(stack) EXCEPT !.at = at])
    <3>1. PICK at \in {"hook", "log", "bridge"} :
                 stack' = Replace([Head(stack) EXCEPT !.at = at])
      BY <2>2, Zenon
    <3> DEFINE f == [Head(stack) EXCEPT !.at = at]
    <3>2. f \in Frame /\ f.session = Head(stack).session /\ f.props = Head(stack).props
      BY <1>1 DEF Frame
    <3>3. stack' = [stack EXCEPT ![1] = f]
      BY <3>1 DEF Replace
    <3> HIDE DEF f
    <3> QED
      BY <1>1, <3>2, <3>3
  <2> QED
    BY <2>1, <2>2
<1>3. ShimTypeOK'
  <2>1. Len(stack') <= MaxDepth
    BY <1>1, <1>2 DEF ShimIInv, ShimTypeOK
  <2> QED
    BY <2>1, Zenon DEF ShimIInv, ShimTypeOK
<1>4. FramesInSession'
  BY <1>1, <1>2 DEF ShimIInv, FramesInSession
<1> QED
  BY <1>3, <1>4 DEF ShimIInv

(* In every session of the wasm backend, whatever before_send and on_log   *)
(* call: a descriptor is bound exactly while an enabled session is in      *)
(* force, and a host is handed only what was merged and scrubbed in the    *)
(* session that bound it (ph_shutdown, scrub_props).                       *)
THEOREM HandedStaysInSession == ShimSpec => [](ShimTypeOK /\ HandedInSession)
<1> USE ShimAssumption
<1>1. ShimInit => ShimIInv
  <2> SUFFICES ASSUME ShimInit PROVE ShimIInv
    OBVIOUS
  <2>1. 0 \in 0 .. MaxSessions /\ 0 \in 0 .. 0 /\ Len(<<>>) <= MaxDepth
    OBVIOUS
  <2>2. ShimTypeOK
    BY <2>1, Zenon DEF ShimInit, ShimTypeOK
  <2> QED
    BY <2>2 DEF ShimInit, ShimIInv, FramesInSession, HandedInSession
<1>2. ShimIInv /\ [ShimNext]_shimVars => ShimIInv'
  <2> SUFFICES ASSUME ShimIInv, [ShimNext]_shimVars PROVE ShimIInv'
    OBVIOUS
  <2>1. CASE ShimStart
    <3>1. stack = <<>>
      BY <2>1 DEF ShimStart, BindHost, ShimIInv, FramesInSession, ShimTypeOK
    <3>2. sessions' \in 0 .. MaxSessions /\ session' \in 0 .. sessions' /\ session' # 0
      BY <2>1 DEF ShimStart, BindHost, ShimIInv, ShimTypeOK
    <3>3. bound' = IF enabled' THEN session' ELSE 0
      BY <2>1 DEF ShimStart, BindHost, ShimIInv, ShimTypeOK, FramesInSession
    <3>4. ShimTypeOK'
      BY <2>1, <3>2, <3>3, Zenon DEF ShimStart, BindHost, ShimIInv, ShimTypeOK
    <3> QED
      BY <2>1, <3>1, <3>2, <3>4 DEF ShimStart, BindHost, ShimIInv, FramesInSession, HandedInSession
  <2>2. CASE ShimStop
    <3>1. stack = <<>> /\ stack' = <<>>
      BY <2>2 DEF ShimStop, InCallback
    <3>2. 0 \in 0 .. sessions
      BY DEF ShimIInv, ShimTypeOK
    <3>3. ShimTypeOK'
      BY <2>2, <3>2, Zenon DEF ShimStop, ShimIInv, ShimTypeOK
    <3> QED
      BY <2>2, <3>1, <3>3 DEF ShimStop, ShimIInv, FramesInSession, HandedInSession
  <2>3. CASE ShimRegister
    <3>1. ShimTypeOK'
      BY <2>3, Zenon DEF ShimRegister, ShimIInv, ShimTypeOK
    <3> QED
      BY <2>3, <3>1 DEF ShimRegister, ShimIInv, FramesInSession, HandedInSession
  <2>4. CASE ShimCall
    <3>0. PICK op \in Scrubbing \cup Direct :
            stack' = <<[op |-> op, session |-> session,
                        props |-> IF op \in {"capture", "exception"} THEN superOf ELSE {},
                        at |-> IF op \in Scrubbing /\ hook THEN "hook" ELSE "bridge"]>>
                     \o stack
      BY <2>4, Zenon DEF ShimCall
    <3> DEFINE f == [op |-> op, session |-> session,
                     props |-> IF op \in {"capture", "exception"} THEN superOf ELSE {},
                     at |-> IF op \in Scrubbing /\ hook THEN "hook" ELSE "bridge"]
    <3>1. /\ f \in Frame /\ stack' = <<f>> \o stack
          /\ f.session = session /\ f.props \subseteq {session}
      <4>1. superOf \subseteq {session} /\ session \in Nat
        BY DEF ShimIInv, ShimTypeOK
      <4> QED
        BY <3>0, <4>1 DEF Frame
    <3> HIDE DEF f
    <3>2. Len(stack') <= MaxDepth
      BY <2>4, <3>1, PushFrame DEF ShimCall, ShimIInv, FramesInSession
    <3>3. ShimTypeOK'
      BY <2>4, <3>2, Zenon DEF ShimCall, Settings, ShimIInv, ShimTypeOK
    <3>4. FramesInSession'
      <4>1. stack \in Seq(Frame) /\ enabled /\ session # 0
            /\ \A i \in DOMAIN stack : stack[i].session = session
                                     /\ stack[i].props \subseteq {session}
        BY <2>4 DEF ShimCall, ShimIInv, FramesInSession
      <4>2. stack' \in Seq(Frame) /\ session' = session /\ enabled' = enabled
        BY <2>4, <3>1, <4>1, PushFrame DEF ShimCall, Settings
      <4>3. \A i \in DOMAIN stack' : stack'[i] = f \/ \E j \in DOMAIN stack : stack'[i] = stack[j]
        BY <3>1, <4>1, PushFrame
      <4>4. \A i \in DOMAIN stack' : stack'[i].session = session
                                    /\ stack'[i].props \subseteq {session}
        BY <3>1, <4>1, <4>3
      <4> QED
        BY <4>1, <4>2, <4>4 DEF FramesInSession
    <3> QED
      BY <2>4, <3>3, <3>4 DEF ShimCall, ShimIInv, HandedInSession
  <2>5. CASE HookReturns
    <3>1. superOf' \subseteq {session} /\ HandedInSession'
      BY <2>5 DEF HookReturns, Settings, ShimIInv, ShimTypeOK, HandedInSession
    <3> QED
      BY <2>5, <3>1, StackStep DEF HookReturns, Settings
  <2>6. CASE SerializeFails
    <3>1. superOf' \subseteq {session} /\ HandedInSession'
      BY <2>6 DEF SerializeFails, Settings, ShimIInv, ShimTypeOK, HandedInSession
    <3> QED
      BY <2>6, <3>1, StackStep DEF SerializeFails, Complain, Settings
  <2>7. CASE Bridge
    <3> DEFINE call == [session |-> Head(stack).session, props |-> Head(stack).props,
                        host |-> bound]
    <3>1. call.host = call.session /\ call.host # 0 /\ call.props \subseteq {call.host}
      BY <2>7, HeadFrame DEF Bridge, ShimIInv, ShimTypeOK, FramesInSession
    <3>2. handed' = handed \cup {call}
      BY <2>7 DEF Bridge
    <3>3. HandedInSession'
      <4> HIDE DEF call
      <4> QED BY <3>1, <3>2 DEF ShimIInv, HandedInSession
    <3>4. superOf' \subseteq {session}
      BY <2>7 DEF Bridge, ShimIInv, ShimTypeOK
    <3> QED
      BY <2>7, <3>3, <3>4, StackStep DEF Bridge, Complain
  <2>8. CASE LogReturns
    <3>1. superOf' \subseteq {session} /\ HandedInSession'
      BY <2>8 DEF LogReturns, Settings, ShimIInv, ShimTypeOK, HandedInSession
    <3> QED
      BY <2>8, <3>1, StackStep DEF LogReturns, Settings
  <2>9. CASE UNCHANGED shimVars
    BY <2>9 DEF shimVars, ShimIInv, ShimTypeOK, FramesInSession, HandedInSession
  <2> QED
    BY <2>1, <2>2, <2>3, <2>4, <2>5, <2>6, <2>7, <2>8, <2>9 DEF ShimNext
<1>3. ShimIInv => ShimTypeOK /\ HandedInSession
  BY DEF ShimIInv
<1> QED
  BY <1>1, <1>2, <1>3, PTL DEF ShimSpec

-----------------------------------------------------------------------------
(* TokenBucket.  The type invariant holds for any number of threads; that  *)
(* the bucket enforces exactly its rate holds, for every rate and clock    *)
(* resolution, as long as one thread captures.                             *)
SingleCaller == \A s, t \in Threads : s = t

(* Events i to j, with the tokens left over, against what the burst and    *)
(* the rate allow from tick a to tick b.                                   *)
Spent(left, n) == left + n * Second
Allowed(a, b) == Burst + PerSecond * (b - a)

(* Times only move forward: the admitted events, then rl_last_mono, then   *)
(* the tick a call has read, then the clock.                               *)
TimesOK ==
  /\ last <= clock
  /\ \A t \in calling : last <= mono[t] /\ mono[t] <= clock
  /\ \A i \in 1 .. Len(admitted) : admitted[i] <= last
  /\ \A i, j \in 1 .. Len(admitted) : i <= j => admitted[i] <= admitted[j]

(* Every stretch of admissions is within the bound, also when the tokens   *)
(* that are left are spent at once.                                        *)
CreditOK ==
  /\ \A i \in 1 .. Len(admitted) :
       Spent(tokens, Len(admitted) - i + 1) <= Allowed(admitted[i], last)
  /\ \A i, j \in 1 .. Len(admitted) :
       i <= j => Spent(0, j - i + 1) <= Allowed(admitted[i], admitted[j])

(* And no token is withheld: unless the bucket is full, some stretch has   *)
(* used up its bound exactly.                                              *)
TightOK ==
  \/ tokens = Burst
  \/ \E i \in 1 .. Len(admitted) :
       Spent(tokens, Len(admitted) - i + 1) = Allowed(admitted[i], last)

IInv == TypeOK /\ TimesOK /\ CreditOK /\ TightOK
-----------------------------------------------------------------------------
(* Arithmetic of the bound.                                                *)
LEMMA BurstType == Burst \in Nat /\ Second <= Burst
<1>1. PerSecond \in Nat /\ Second \in Nat /\ 1 <= PerSecond
  BY BucketAssumption
<1>2. \A p, s \in Nat : 1 <= p => p * s \in Nat /\ s <= p * s
  OBVIOUS
<1> QED BY <1>1, <1>2 DEF Burst

LEMMA SpentMore ==
  ASSUME NEW left \in Int, NEW n \in Int
  PROVE  /\ Spent(left, n) \in Int
         /\ \A d \in Int : Spent(left + d, n) = Spent(left, n) + d
         /\ Spent(left - Second, n + 1) = Spent(left, n)
<1>1. Second \in Int
  BY BucketAssumption
<1>2. \A s \in Int : n * s \in Int /\ (n + 1) * s = n * s + s
  OBVIOUS
<1> QED BY <1>1, <1>2 DEF Spent

LEMMA AllowedMore ==
  ASSUME NEW a \in Int, NEW b \in Int, NEW d \in Nat
  PROVE  /\ Allowed(a, b) \in Int
         /\ Allowed(a, b + d) = Allowed(a, b) + d * PerSecond
         /\ Allowed(a, b) <= Allowed(a, b + d)
         /\ d * PerSecond \in Nat
<1>1. PerSecond \in Nat /\ Burst \in Nat
  BY BucketAssumption, BurstType
<1>2. \A p \in Nat : /\ p * (b - a) \in Int /\ d * p \in Nat
                     /\ p * (b + d - a) = p * (b - a) + d * p
  OBVIOUS
<1> QED BY <1>1, <1>2 DEF Allowed

LEMMA AllowedHere ==
  ASSUME NEW a \in Int
  PROVE  Allowed(a, a) = Burst
<1>1. a - a = 0 /\ PerSecond * 0 = 0
  BY BucketAssumption
<1> QED BY <1>1, BurstType DEF Allowed
-----------------------------------------------------------------------------
(* rate_limit_admit refills from rl_last_mono, up to the burst.            *)
LEMMA RefilledFacts ==
  ASSUME TypeOK, NEW m \in 0 .. MaxTime
  PROVE  /\ Refilled(m) \in 0 .. Burst
         /\ \/ Refilled(m) = Burst /\ Burst <= tokens + Elapsed(m) * PerSecond
            \/ Refilled(m) = tokens + Elapsed(m) * PerSecond
         /\ Elapsed(m) * PerSecond \in Nat
<1>1. /\ PerSecond \in Nat /\ Burst \in Nat /\ tokens \in 0 .. Burst
      /\ Elapsed(m) \in Nat
  BY BucketAssumption, BurstType DEF TypeOK, Elapsed
<1>2. \A p, e \in Nat : e * p \in Nat
  OBVIOUS
<1>3. Elapsed(m) * PerSecond \in Nat
  BY <1>1, <1>2
<1> DEFINE d == Elapsed(m) * PerSecond
<1>4. Refilled(m) = IF tokens + d > Burst THEN Burst ELSE tokens + d
  BY DEF Refilled
<1> HIDE DEF d
<1>5. d \in Nat
  BY <1>3 DEF d
<1>6. /\ Refilled(m) \in 0 .. Burst
      /\ (Refilled(m) = Burst /\ Burst <= tokens + d) \/ Refilled(m) = tokens + d
  BY <1>1, <1>4, <1>5
<1> QED BY <1>3, <1>6 DEF d

(* What a call of rate_limit_admit does.                                   *)
LEMMA AdmitFacts ==
  ASSUME TypeOK, NEW t \in Threads, Admit(t)
  PROVE  LET m == mono[t] have == Refilled(m) IN
         /\ m \in 0 .. MaxTime /\ have \in 0 .. Burst /\ last' = m
         /\ UNCHANGED <<clock, mono>> /\ calling' = calling \ {t} /\ t \in calling
         /\ \/ /\ have < Second /\ tokens' = have /\ dropped' = dropped + 1
               /\ admitted' = admitted
            \/ /\ Second <= have /\ tokens' = have - Second /\ dropped' = dropped
               /\ admitted' = Append(admitted, m)
<1>1. mono[t] \in 0 .. MaxTime
  BY DEF TypeOK
<1>2. Refilled(mono[t]) \in 0 .. Burst
  BY <1>1, RefilledFacts
<1>3. Second \in Nat /\ Burst \in Nat
  BY BucketAssumption, BurstType
<1> QED BY <1>1, <1>2, <1>3 DEF Admit

LEMMA TypeStep == TypeOK /\ [Next]_vars => TypeOK'
<1> SUFFICES ASSUME TypeOK, [Next]_vars PROVE TypeOK'
  OBVIOUS
<1>0. MaxTime \in Nat /\ Second \in Nat /\ Burst \in Nat
  BY BucketAssumption, BurstType
<1>1. CASE Tick
  BY <1>0, <1>1 DEF TypeOK, Tick
<1>2. ASSUME NEW t \in Threads, ReadClock(t) PROVE TypeOK'
  BY <1>2 DEF TypeOK, ReadClock
<1>3. ASSUME NEW t \in Threads, Control(t) PROVE TypeOK'
  BY <1>3 DEF TypeOK, Control
<1>4. ASSUME NEW t \in Threads, Admit(t) PROVE TypeOK'
  <2> DEFINE m == mono[t] have == Refilled(m)
  <2>1. /\ m \in 0 .. MaxTime /\ have \in 0 .. Burst /\ last' = m
        /\ UNCHANGED <<clock, mono>> /\ calling' = calling \ {t}
        /\ \/ /\ have < Second /\ tokens' = have /\ dropped' = dropped + 1
              /\ admitted' = admitted
           \/ /\ Second <= have /\ tokens' = have - Second /\ dropped' = dropped
              /\ admitted' = Append(admitted, m)
    BY <1>4, AdmitFacts
  <2> HIDE DEF m, have
  <2>2. tokens' \in 0 .. Burst
    BY <1>0, <2>1
  <2>3. admitted' \in Seq(0 .. MaxTime)
    <3>1. admitted \in Seq(0 .. MaxTime)
      BY DEF TypeOK
    <3>2. Append(admitted, m) \in Seq(0 .. MaxTime)
      BY <2>1, <3>1, AppendProperties
    <3> QED BY <2>1, <3>1, <3>2
  <2> QED BY <2>1, <2>2, <2>3 DEF TypeOK
<1>5. CASE UNCHANGED vars
  BY <1>5 DEF TypeOK, vars
<1> QED BY <1>1, <1>2, <1>3, <1>4, <1>5 DEF Next

LEMMA InitInv == Init => IInv
<1> SUFFICES ASSUME Init PROVE IInv
  OBVIOUS
<1>1. TypeOK
  BY BucketAssumption, BurstType DEF Init, TypeOK
<1>2. Len(admitted) = 0 /\ 1 .. 0 = {}
  BY DEF Init
<1>3. TimesOK /\ CreditOK /\ TightOK
  BY <1>2 DEF Init, TimesOK, CreditOK, TightOK
<1> QED BY <1>1, <1>3 DEF IInv

(* The type invariant of the rate limiter, for any number of threads: in   *)
(* particular rl_tokens stays between 0 and the burst (rate_limit_admit).  *)
THEOREM TypeCorrect == Spec => []TypeOK
<1>1. Init => TypeOK
  BY InitInv DEF IInv
<1> QED BY <1>1, TypeStep, PTL DEF Spec
-----------------------------------------------------------------------------
(* After the refill, and before the token is taken.                        *)
LEMMA RefillStep ==
  ASSUME IInv, NEW m \in 0 .. MaxTime, last <= m
  PROVE  /\ \A i \in 1 .. Len(admitted) :
              Spent(Refilled(m), Len(admitted) - i + 1) <= Allowed(admitted[i], m)
         /\ \/ Refilled(m) = Burst
            \/ \E i \in 1 .. Len(admitted) :
                 Spent(Refilled(m), Len(admitted) - i + 1) = Allowed(admitted[i], m)
<1> DEFINE e == m - last
           d == e * PerSecond
           n == Len(admitted)
           have == Refilled(m)
<1>1. /\ last \in Nat /\ tokens \in Nat /\ Burst \in Nat /\ n \in Nat /\ m \in Nat
      /\ \A i \in 1 .. n : admitted[i] \in Nat
  <2>1. admitted \in Seq(0 .. MaxTime)
    BY DEF IInv, TypeOK
  <2>2. n \in Nat /\ \A i \in 1 .. n : admitted[i] \in 0 .. MaxTime
    BY <2>1, LenProperties, ElementOfSeq
  <2> QED BY <2>2, BurstType, BucketAssumption DEF IInv, TypeOK
<1>2. e \in Nat /\ Elapsed(m) = e /\ m = last + e
  BY <1>1 DEF Elapsed
<1>3. /\ have \in Nat /\ d \in Nat
      /\ (have = Burst /\ Burst <= tokens + d) \/ have = tokens + d
  <2>1. /\ have \in 0 .. Burst /\ Elapsed(m) * PerSecond \in Nat
        /\ \/ have = Burst /\ Burst <= tokens + Elapsed(m) * PerSecond
           \/ have = tokens + Elapsed(m) * PerSecond
    BY RefilledFacts DEF IInv
  <2>2. Elapsed(m) * PerSecond = d
    BY <1>2
  <2> HIDE DEF d, have, e
  <2> QED BY <1>1, <2>1, <2>2
<1> HIDE DEF have, d, e, n
<1>4. ASSUME NEW i \in 1 .. n
      PROVE  /\ Spent(have, n - i + 1) \in Int
             /\ Spent(have, n - i + 1) = Spent(tokens, n - i + 1) + (have - tokens)
             /\ Spent(tokens, n - i + 1) \in Int
             /\ Allowed(admitted[i], m) = Allowed(admitted[i], last) + d
             /\ Allowed(admitted[i], last) \in Int
  <2>1. n - i + 1 \in Int /\ have - tokens \in Int /\ tokens + (have - tokens) = have
        /\ tokens \in Int /\ have \in Int
    BY <1>1, <1>3
  <2>2. /\ Spent(have, n - i + 1) \in Int
        /\ Spent(tokens, n - i + 1) \in Int
        /\ Spent(tokens + (have - tokens), n - i + 1)
             = Spent(tokens, n - i + 1) + (have - tokens)
    <3>1. \A l, k, x \in Int : /\ Spent(l, k) \in Int
                               /\ Spent(l + x, k) = Spent(l, k) + x
      BY SpentMore
    <3> QED BY <2>1, <3>1, Zenon
  <2>3. /\ Allowed(admitted[i], last) \in Int
        /\ Allowed(admitted[i], last + e) = Allowed(admitted[i], last) + d
    <3>1. \A a, b \in Int, x \in Nat : /\ Allowed(a, b) \in Int
                                      /\ Allowed(a, b + x) = Allowed(a, b) + x * PerSecond
      BY AllowedMore, Zenon
    <3>2. admitted[i] \in Int /\ last \in Int /\ e \in Nat
      BY <1>1, <1>2
    <3>3. Allowed(admitted[i], last + e) = Allowed(admitted[i], last) + e * PerSecond
      BY <3>1, <3>2, Zenon
    <3> QED BY <3>1, <3>2, <3>3, Zenon DEF d
  <2> QED BY <1>2, <2>1, <2>2, <2>3
<1>5. ASSUME NEW i \in 1 .. n
      PROVE  Spent(have, n - i + 1) <= Allowed(admitted[i], m)
  <2>1. Spent(tokens, n - i + 1) <= Allowed(admitted[i], last)
    BY DEF IInv, CreditOK, n
  <2> QED BY <1>1, <1>3, <1>4, <2>1
<1>6. \/ have = Burst
      \/ \E i \in 1 .. n : Spent(have, n - i + 1) = Allowed(admitted[i], m)
  <2>1. CASE tokens = Burst
    <3>1. have \in 0 .. Burst
      BY RefilledFacts DEF IInv, have
    <3> QED BY <1>1, <1>3, <2>1, <3>1
  <2>2. ASSUME NEW i \in 1 .. n, Spent(tokens, n - i + 1) = Allowed(admitted[i], last),
               have = tokens + d
        PROVE  Spent(have, n - i + 1) = Allowed(admitted[i], m)
    BY <1>1, <1>3, <1>4, <2>2
  <2> QED BY <1>3, <2>1, <2>2 DEF IInv, TightOK, n
<1> QED BY <1>5, <1>6 DEF have, n

(* An admitted event takes its token.                                      *)
LEMMA AdmitStep ==
  ASSUME IInv, NEW t \in Threads, Admit(t), SingleCaller
  PROVE  IInv'
<1> DEFINE m == mono[t]
           n == Len(admitted)
           have == Refilled(m)
<1>1. /\ last \in Nat /\ tokens \in Nat /\ Burst \in Nat /\ n \in Nat /\ m \in Nat
      /\ admitted \in Seq(0 .. MaxTime) /\ Second \in Nat
      /\ \A i \in 1 .. n : admitted[i] \in Nat
  <2>1. admitted \in Seq(0 .. MaxTime) /\ m \in 0 .. MaxTime
    BY DEF IInv, TypeOK
  <2>2. n \in Nat /\ \A i \in 1 .. n : admitted[i] \in 0 .. MaxTime
    BY <2>1, LenProperties, ElementOfSeq, Zenon
  <2> QED BY <2>1, <2>2, BurstType, BucketAssumption DEF IInv, TypeOK
<1>2. /\ m \in 0 .. MaxTime /\ have \in 0 .. Burst /\ last' = m
      /\ UNCHANGED <<clock, mono>> /\ calling' = calling \ {t} /\ t \in calling
      /\ \/ /\ have < Second /\ tokens' = have /\ dropped' = dropped + 1
            /\ admitted' = admitted
         \/ /\ Second <= have /\ tokens' = have - Second /\ dropped' = dropped
            /\ admitted' = Append(admitted, m)
  BY AdmitFacts DEF IInv
<1>3. TypeOK'
  BY TypeStep DEF IInv, Next
<1>4. last <= m /\ m <= clock /\ calling' = {}
  <2>1. calling = {t}
    BY <1>2 DEF IInv, TypeOK, SingleCaller
  <2> QED BY <1>2, <2>1 DEF IInv, TimesOK
<1>5. /\ \A i \in 1 .. n : Spent(have, n - i + 1) <= Allowed(admitted[i], m)
      /\ have = Burst \/ \E i \in 1 .. n : Spent(have, n - i + 1) = Allowed(admitted[i], m)
  BY <1>2, <1>4, RefillStep
<1>6. TimesOK /\ CreditOK
  BY DEF IInv
<1>7. \A l, k, x \in Int : /\ Spent(l, k) \in Int
                           /\ Spent(l + x, k) = Spent(l, k) + x
                           /\ Spent(l - Second, k + 1) = Spent(l, k)
  BY SpentMore
<1> HIDE DEF m, n, have
<1>8. CASE have < Second /\ tokens' = have /\ admitted' = admitted
  <2>1. Len(admitted') = n
    BY <1>8 DEF n
  <2>2. TimesOK'
    <3>1. \A i \in 1 .. n : admitted[i] <= m
      BY <1>1, <1>4, <1>6 DEF TimesOK, n
    <3> QED BY <1>2, <1>4, <1>6, <1>8, <2>1, <3>1 DEF TimesOK, n
  <2>3. CreditOK' /\ TightOK'
    BY <1>2, <1>5, <1>6, <1>8, <2>1 DEF CreditOK, TightOK, n
  <2> QED BY <1>3, <2>2, <2>3 DEF IInv
<1>9. CASE Second <= have /\ tokens' = have - Second /\ admitted' = Append(admitted, m)
  <2>1. /\ Len(admitted') = n + 1 /\ admitted'[n + 1] = m
        /\ \A i \in 1 .. n : admitted'[i] = admitted[i]
    <3>1. /\ Len(Append(admitted, m)) = Len(admitted) + 1
          /\ Append(admitted, m)[Len(admitted) + 1] = m
          /\ \A i \in 1 .. Len(admitted) : Append(admitted, m)[i] = admitted[i]
      BY <1>1, <1>2, AppendProperties
    <3> QED BY <1>9, <3>1, Zenon DEF n
  <2>2. TimesOK'
    <3>1. \A i \in 1 .. n : admitted[i] <= m
      BY <1>1, <1>4, <1>6 DEF TimesOK, n
    <3>2. \A i \in 1 .. n + 1 : i \in 1 .. n \/ i = n + 1
      BY <1>1
    <3>3. \A i \in 1 .. n + 1 : admitted'[i] <= m
      BY <1>1, <2>1, <3>1, <3>2
    <3>4. \A i, j \in 1 .. n : i <= j => admitted[i] <= admitted[j]
      BY <1>6 DEF TimesOK, n
    <3>5. ASSUME NEW i \in 1 .. n + 1, NEW j \in 1 .. n + 1, i <= j
          PROVE  admitted'[i] <= admitted'[j]
      <4>1. CASE j = n + 1
        BY <2>1, <3>3, <4>1
      <4>2. CASE j \in 1 .. n
        <5>1. i \in 1 .. n
          BY <1>1, <3>5, <4>2
        <5> QED BY <2>1, <3>4, <3>5, <4>2, <5>1
      <4> QED BY <3>2, <4>1, <4>2
    <3> QED BY <1>2, <1>4, <2>1, <3>3, <3>5 DEF TimesOK
  <2>3. ASSUME NEW i \in 1 .. n
        PROVE  /\ Spent(tokens', n + 1 - i + 1) = Spent(have, n - i + 1)
               /\ Spent(0, n + 1 - i + 1) <= Spent(tokens', n + 1 - i + 1)
               /\ Spent(0, n + 1 - i + 1) \in Int
               /\ Spent(have, n - i + 1) \in Int
    <3> DEFINE k == n - i + 1
    <3>1. /\ k \in Int /\ k + 1 = n + 1 - i + 1 /\ k + 1 \in Int /\ have \in Int
          /\ tokens' = have - Second /\ tokens' \in Nat
          /\ tokens' = 0 + tokens' /\ tokens' \in Int /\ 0 \in Int
      BY <1>1, <1>2, <1>9
    <3> HIDE DEF k
    <3>2. Spent(have - Second, k + 1) = Spent(have, k) /\ Spent(have, k) \in Int
      BY <1>7, <3>1, Zenon
    <3>3. Spent(0 + tokens', k + 1) = Spent(0, k + 1) + tokens' /\ Spent(0, k + 1) \in Int
      BY <1>7, <3>1
    <3>4. /\ Spent(tokens', k + 1) = Spent(have, k)
          /\ Spent(0, k + 1) <= Spent(tokens', k + 1)
      BY <1>1, <3>1, <3>2, <3>3
    <3> QED BY <3>1, <3>2, <3>3, <3>4 DEF k
  <2> DEFINE z == Len(admitted')
  <2>4. /\ Spent(tokens', 1) = have /\ Spent(0, 1) <= Burst /\ Burst \in Int
        /\ have <= Burst /\ Allowed(m, m) = Burst /\ have \in Int
    <3>1. Allowed(m, m) = Burst
      BY <1>1, AllowedHere
    <3> QED BY <1>1, <1>2, <1>9, <3>1, BurstType DEF Spent
  <2>5. \A i \in 1 .. n : Allowed(admitted[i], m) \in Int
    <3>1. \A a, b \in Int : Allowed(a, b) \in Int
      BY AllowedMore
    <3>2. m \in Int /\ \A i \in 1 .. n : admitted[i] \in Int
      BY <1>1
    <3> QED BY <3>1, <3>2, Zenon
  <2>6. z = n + 1
    BY <2>1
  <2> HIDE DEF z
  <2>7. ASSUME NEW i \in 1 .. z
        PROVE  /\ i \in 1 .. n \/ i = z
               /\ i = z => z - i + 1 = 1 /\ admitted'[i] = m
               /\ i \in 1 .. n =>
                    /\ Spent(tokens', z - i + 1) = Spent(have, n - i + 1)
                    /\ admitted'[i] = admitted[i]
    <3>1. i \in 1 .. n \/ i = z
      BY <1>1, <2>6
    <3>2. i = z => z - i + 1 = 1 /\ admitted'[i] = m
      BY <1>1, <2>1, <2>6
    <3>3. z - i + 1 = n + 1 - i + 1
      BY <1>1, <2>6, SMTT(15)
    <3> QED BY <2>1, <2>3, <3>1, <3>2, <3>3
  <2>8. ASSUME NEW i \in 1 .. z
        PROVE  /\ Spent(tokens', z - i + 1) <= Allowed(admitted'[i], m)
               /\ Spent(0, z - i + 1) <= Allowed(admitted'[i], m)
    <3>1. CASE i = z
      <4>1. z - i + 1 = 1 /\ admitted'[i] = m
        BY <2>7, <3>1
      <4> QED BY <2>4, <4>1
    <3>2. CASE i \in 1 .. n
      <4>1. /\ Spent(have, n - i + 1) <= Allowed(admitted[i], m)
            /\ admitted'[i] = admitted[i]
            /\ Spent(tokens', z - i + 1) = Spent(have, n - i + 1)
        BY <1>5, <2>7, <3>2
      <4>2. z - i + 1 = n + 1 - i + 1
        BY <1>1, <2>6
      <4>3. /\ Spent(0, z - i + 1) <= Spent(tokens', z - i + 1)
            /\ Spent(0, z - i + 1) \in Int /\ Spent(have, n - i + 1) \in Int
        BY <2>3, <3>2, <4>2
      <4>4. Allowed(admitted[i], m) \in Int
        BY <2>5, <3>2
      <4> QED BY <4>1, <4>3, <4>4
    <3> QED BY <2>7, <3>1, <3>2
  <2>9. CreditOK'
    <3>1. ASSUME NEW i \in 1 .. z, NEW j \in 1 .. z, i <= j
          PROVE  Spent(0, j - i + 1) <= Allowed(admitted'[i], admitted'[j])
      <4>1. CASE j = z
        <5>1. admitted'[j] = m
          BY <2>7, <4>1
        <5> QED BY <2>8, <4>1, <5>1
      <4>2. CASE j \in 1 .. n
        <5>1. i \in 1 .. n
          BY <1>1, <3>1, <4>2, <2>6
        <5>2. Spent(0, j - i + 1) <= Allowed(admitted[i], admitted[j])
          BY <1>6, <3>1, <4>2, <5>1 DEF CreditOK, n
        <5> QED BY <2>1, <4>2, <5>1, <5>2
      <4> QED BY <2>7, <4>1, <4>2
    <3> QED BY <1>2, <2>8, <3>1, SMTT(15) DEF CreditOK, z
  <2>10. TightOK'
    <3>1. CASE have = Burst
      <4>1. z \in 1 .. z /\ z - z + 1 = 1 /\ admitted'[z] = m
        BY <1>1, <2>1, <2>6
      <4>2. Spent(tokens', z - z + 1) = Allowed(admitted'[z], last')
        BY <1>2, <2>4, <3>1, <4>1
      <4> QED BY <4>1, <4>2 DEF TightOK, z
    <3>2. ASSUME NEW i \in 1 .. n, Spent(have, n - i + 1) = Allowed(admitted[i], m)
          PROVE  TightOK'
      <4>1. i \in 1 .. z
        BY <1>1, <2>6
      <4>2. Spent(tokens', z - i + 1) = Allowed(admitted'[i], last')
        BY <1>2, <2>7, <3>2, <4>1
      <4> QED BY <4>1, <4>2 DEF TightOK, z
    <3> QED BY <1>5, <3>1, <3>2
  <2> QED BY <1>3, <2>2, <2>9, <2>10 DEF IInv
<1> QED BY <1>2, <1>8, <1>9
-----------------------------------------------------------------------------
(* With one thread capturing, the bucket grants exactly what its rate and  *)
(* burst allow (rate_limit_admit).                                         *)
THEOREM BucketInvariant ==
  ASSUME SingleCaller
  PROVE  Spec => []IInv
<1>1. Init => IInv
  BY InitInv
<1>2. IInv /\ [Next]_vars => IInv'
  <2> SUFFICES ASSUME IInv, [Next]_vars PROVE IInv'
    OBVIOUS
  <2>0. TypeOK' /\ clock \in Nat /\ last \in Nat
    BY TypeStep DEF IInv, TypeOK
  <2>1. CASE Tick
    <3>1. TimesOK'
      <4>1. \A t \in calling : mono[t] \in Nat
        BY DEF IInv, TypeOK
      <4> QED BY <2>0, <2>1, <4>1 DEF IInv, TimesOK, Tick
    <3> QED BY <2>0, <2>1, <3>1 DEF IInv, CreditOK, TightOK, Tick
  <2>2. ASSUME NEW t \in Threads, ReadClock(t) PROVE IInv'
    <3>1. TimesOK'
      <4>1. mono' = [mono EXCEPT ![t] = clock] /\ calling' = calling \cup {t}
            /\ calling \subseteq Threads /\ mono \in [Threads -> 0 .. MaxTime]
            /\ UNCHANGED <<clock, last, admitted>> /\ TimesOK
        BY <2>2 DEF ReadClock, IInv, TypeOK
      <4>2. \A u \in calling' : last <= mono'[u] /\ mono'[u] <= clock
        BY <2>0, <4>1 DEF TimesOK
      <4> QED BY <4>1, <4>2 DEF TimesOK
    <3> QED BY <2>0, <2>2, <3>1 DEF IInv, CreditOK, TightOK, ReadClock
  <2>3. ASSUME NEW t \in Threads, Control(t) PROVE IInv'
    BY <2>0, <2>3 DEF IInv, TimesOK, CreditOK, TightOK, Control
  <2>4. ASSUME NEW t \in Threads, Admit(t) PROVE IInv'
    BY <2>4, AdmitStep, SMTT(15)
  <2>5. CASE UNCHANGED vars
    BY <2>0, <2>5 DEF IInv, TimesOK, CreditOK, TightOK, vars
  <2> QED BY <2>1, <2>2, <2>3, <2>4, <2>5 DEF Next
<1> QED BY <1>1, <1>2, PTL DEF Spec

(* The documented cap: over any window, one thread gets no more events     *)
(* past rate_limit_admit than the burst and the rate allow.                *)
THEOREM RateIsBounded ==
  ASSUME SingleCaller
  PROVE  Spec => []WindowBound
<1>1. IInv => WindowBound
  <2> SUFFICES ASSUME IInv PROVE WindowBound
    OBVIOUS
  <2>1. /\ DOMAIN admitted = 1 .. Len(admitted) /\ Len(admitted) \in Nat
        /\ \A i \in 1 .. Len(admitted) : admitted[i] \in Nat
    <3>1. admitted \in Seq(0 .. MaxTime)
      BY DEF IInv, TypeOK
    <3>2. /\ DOMAIN admitted = 1 .. Len(admitted) /\ Len(admitted) \in Nat
          /\ \A i \in 1 .. Len(admitted) : admitted[i] \in 0 .. MaxTime
      BY <3>1, LenProperties, ElementOfSeq, Zenon
    <3> QED BY <3>2, BucketAssumption
  <2> SUFFICES ASSUME NEW i \in 1 .. Len(admitted), NEW j \in 1 .. Len(admitted),
                      NEW lo \in 0 .. MaxTime, NEW hi \in 0 .. MaxTime,
                      i <= j, \A k \in i .. j : admitted[k] \in lo .. hi
               PROVE  Fits(j - i + 1, hi - lo)
    BY <2>1, Zenon DEF WindowBound
  <2>2. Spent(0, j - i + 1) <= Allowed(admitted[i], admitted[j])
    BY DEF IInv, CreditOK
  <2>3. lo <= admitted[i] /\ admitted[j] <= hi /\ i \in Int /\ j \in Int
    <3>1. i \in i .. j /\ j \in i .. j
      BY <2>1
    <3> QED BY <2>1, <3>1, BucketAssumption
  <2> DEFINE a == admitted[i]
             b == admitted[j]
  <2>4. PerSecond * (b - a) <= PerSecond * (hi - lo) /\ PerSecond * (b - a) \in Int
        /\ PerSecond * (hi - lo) \in Int
    <3>1. \A p \in Nat, x, y \in Int :
            x <= y => p * x <= p * y /\ p * x \in Int /\ p * y \in Int
      OBVIOUS
    <3>2. b - a \in Int /\ hi - lo \in Int /\ b - a <= hi - lo
      BY <2>1, <2>3, BucketAssumption
    <3> QED BY <3>1, <3>2, BucketAssumption
  <2>5. 0 + (j - i + 1) * Second = (j - i + 1) * Second /\ (j - i + 1) * Second \in Int
    <3>1. \A x, s \in Int : 0 + x * s = x * s /\ x * s \in Int
      OBVIOUS
    <3> QED BY <2>3, <3>1, BucketAssumption
  <2> QED BY <2>2, <2>4, <2>5, BurstType DEF Fits, Spent, Allowed
<1> QED BY <1>1, BucketInvariant, PTL

(* No event is shed without need: with one thread capturing, an event is   *)
(* rejected by rate_limit_admit only if some stretch of admissions ending  *)
(* with it would exceed the bound.                                         *)
THEOREM ShedsOnlyWhenNeeded ==
  ASSUME SingleCaller
  PROVE  Spec => DropsOnlyWhenNeeded
<1> DEFINE A == \A t \in Threads :
                  dropped' # dropped /\ t \in calling \ calling' =>
                    \E i \in DOMAIN admitted :
                      ~Fits(Len(admitted) - i + 2, mono[t] - admitted[i])
<1>1. IInv /\ [Next]_vars => [A]_vars
  <2> SUFFICES ASSUME IInv, Next, NEW t \in Threads, dropped' # dropped,
                      t \in calling \ calling'
               PROVE  \E i \in DOMAIN admitted :
                        ~Fits(Len(admitted) - i + 2, mono[t] - admitted[i])
    BY DEF vars
  <2>1. Admit(t)
    BY DEF Next, Tick, ReadClock, Control, SingleCaller
  <2> DEFINE m == mono[t]
             n == Len(admitted)
             have == Refilled(m)
  <2>2. m \in 0 .. MaxTime /\ have \in Nat /\ have < Second /\ last <= m
    <3>1. have \in 0 .. Burst /\ have < Second
      BY <2>1, AdmitFacts DEF IInv
    <3>2. m \in 0 .. MaxTime /\ last <= m
      BY <2>1 DEF IInv, TypeOK, TimesOK, Admit
    <3> QED BY <3>1, <3>2, BurstType, SMTT(15)
  <2>3. PICK i \in 1 .. n : Spent(have, n - i + 1) = Allowed(admitted[i], m)
    <3>1. have # Burst
      BY <2>2, BurstType, BucketAssumption
    <3> QED BY <2>2, <3>1, RefillStep
  <2>4. /\ DOMAIN admitted = 1 .. n /\ n \in Nat /\ admitted[i] \in Nat
    <3>1. admitted \in Seq(0 .. MaxTime)
      BY DEF IInv, TypeOK
    <3>2. DOMAIN admitted = 1 .. n /\ n \in Nat /\ admitted[i] \in 0 .. MaxTime
      BY <3>1, LenProperties, ElementOfSeq, Zenon
    <3> QED BY <3>2, BucketAssumption
  <2> HIDE DEF have, n, m
  <2>5. /\ (n - i + 2) * Second = (n - i + 1) * Second + Second
        /\ (n - i + 1) * Second \in Int
    <3>1. \A x, s \in Int : (x + 2) * s = (x + 1) * s + s /\ (x + 1) * s \in Int
      OBVIOUS
    <3>2. n - i \in Int
      BY <2>4
    <3> QED BY <3>1, <3>2, BucketAssumption
  <2>6. ~Fits(n - i + 2, m - admitted[i])
    <3>1. Allowed(admitted[i], m) = have + (n - i + 1) * Second
      BY <2>3 DEF Spent
    <3>2. ~((n - i + 2) * Second <= Allowed(admitted[i], m))
      BY <2>2, <2>5, <3>1, BucketAssumption
    <3> QED BY <3>2 DEF Fits, Allowed
  <2> QED BY <2>4, <2>6 DEF n, m
<1> QED BY <1>1, BucketInvariant, PTL DEF Spec, DropsOnlyWhenNeeded
=============================================================================
