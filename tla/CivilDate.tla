----------------------------- MODULE CivilDate ------------------------------
(***************************************************************************)
(* The date arithmetic of a Retry-After header (days_from_civil of         *)
(* src/ph_ratelimit.c) beside a calendar: day by day from FirstYear on, by *)
(* the rules of the Gregorian calendar, counting from 1 January 1970.      *)
(***************************************************************************)
EXTENDS Integers

CONSTANTS FirstYear,  \* the calendar starts on its 1 January
          FirstDay,   \* that day, counted from 1 January 1970
          LastYear    \* bound: where the calendar stops

ASSUME CivilAssumption ==
  /\ FirstYear \in Nat /\ FirstDay \in Int /\ LastYear \in Nat

VARIABLES year, month, dayOfMonth,
          dayNumber   \* days since 1 January 1970

civilVars == <<year, month, dayOfMonth, dayNumber>>

\* Mutant: the rule for centuries is left out.
DaysFromCivilJulian(y, m, d) ==
  LET yy == IF m <= 2 THEN y - 1 ELSE y
      doy == (153 * (IF m > 2 THEN m - 3 ELSE m + 9) + 2) \div 5 + d - 1
  IN yy * 365 + (yy \div 4) + doy - 719482

(* days_from_civil.  C divides towards zero, so that a negative year is    *)
(* shifted before it is divided; TLA+ rounds down.                         *)
DaysFromCivil(y, m, d) ==
  LET yy == IF m <= 2 THEN y - 1 ELSE y
      era == yy \div 400
      yoe == yy - era * 400
      doy == ((153 * (IF m > 2 THEN m - 3 ELSE m + 9) + 2) \div 5) + d - 1
      doe == yoe * 365 + (yoe \div 4) - (yoe \div 100) + doy
  IN era * 146097 + doe - 719468

-----------------------------------------------------------------------------
Leap(y) == y % 4 = 0 /\ (y % 100 # 0 \/ y % 400 = 0)

MonthLength(y, m) ==
  IF m = 2 THEN (IF Leap(y) THEN 29 ELSE 28)
  ELSE IF m \in {4, 6, 9, 11} THEN 30 ELSE 31

CivilInit ==
  year = FirstYear /\ month = 1 /\ dayOfMonth = 1 /\ dayNumber = FirstDay

NextDay ==
  /\ dayOfMonth < MonthLength(year, month)
  /\ dayOfMonth' = dayOfMonth + 1
  /\ UNCHANGED <<year, month>>

NextMonth ==
  /\ dayOfMonth = MonthLength(year, month) /\ month < 12
  /\ month' = month + 1
  /\ dayOfMonth' = 1
  /\ UNCHANGED year

NextYear ==
  /\ dayOfMonth = MonthLength(year, month) /\ month = 12
  /\ year' = year + 1 /\ month' = 1 /\ dayOfMonth' = 1

(* From the last day on the calendar stands still.                         *)
CivilNext ==
  \/ /\ year <= LastYear
     /\ NextDay \/ NextMonth \/ NextYear
     /\ dayNumber' = dayNumber + 1
  \/ year > LastYear /\ UNCHANGED civilVars

CivilSpec == CivilInit /\ [][CivilNext]_civilVars

-----------------------------------------------------------------------------
(* days_from_civil numbers the days as the calendar does: leap days,       *)
(* centuries and the turns of years, where its year starts in March,       *)
(* included.                                                               *)
CalendarAgrees == DaysFromCivil(year, month, dayOfMonth) = dayNumber
=============================================================================
