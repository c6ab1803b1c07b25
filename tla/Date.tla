-------------------------------- MODULE Date -------------------------------
(***************************************************************************)
(* c07/c07e3/date.c: the conversions between seconds since 1970 and dates. *)
(* Words are the 32 bits of an int; the dates converted are those before   *)
(* 2038, where every intermediate value of the code fits.                  *)
(***************************************************************************)
EXTENDS Integers

STARTOFTIME == 1970
SECDAY == 86400

\* Mutant: the first year of a leap cycle.
leapyearMutant(year) == year % 4 = 1
leapyear(year) == year % 4 = 0
days_in_year(year) == IF leapyear(year) THEN 366 ELSE 365

\* month_days; to_tm sets February's entry and puts it back before it returns.
month_days == <<31, 28, 31, 30, 31, 30, 31, 31, 30, 31, 30, 31>>
days_in_month(year, mon) == IF mon = 2 /\ leapyear(year) THEN 29 ELSE month_days[mon]

MonthOffset == <<0, 31, 59, 90, 120, 151, 181, 212, 243, 273, 304, 334>>

\* The day of the week of a date, 0 for a Sunday.
GregorianDay(year, mon, mday) ==
  LET lastYear == year - 1
      leapsToDate == lastYear \div 4 - lastYear \div 100 + lastYear \div 400
      day == IF year % 4 = 0 /\ (year % 100 # 0 \/ year % 400 = 0) /\ mon > 2 THEN 1 ELSE 0
  IN  (day + lastYear * 365 + leapsToDate + MonthOffset[mon] + mday) % 7

\* The loops of to_tm: years and months are taken off as long as days are left.
YearLoop[day \in Nat, year \in Nat] ==
  IF day >= days_in_year(year) THEN YearLoop[day - days_in_year(year), year + 1]
  ELSE <<year, day>>

MonthLoop[day \in Nat, year \in Nat, mon \in Nat] ==
  IF day >= days_in_month(year, mon) THEN MonthLoop[day - days_in_month(year, mon), year, mon + 1]
  ELSE <<mon, day>>

to_tm(tim) ==
  LET hms == tim % SECDAY
      y == YearLoop[tim \div SECDAY, STARTOFTIME]
      m == MonthLoop[y[2], y[1], 1]
  IN  [tm_year |-> y[1], tm_mon |-> m[1], tm_mday |-> m[2] + 1,
       tm_hour |-> hms \div 3600, tm_min |-> (hms % 3600) \div 60, tm_sec |-> (hms % 3600) % 60,
       tm_wday |-> GregorianDay(y[1], m[1], m[2] + 1)]

mktimeMutant(tm) ==       \* Mutant: the test misses February.
  LET early == tm.tm_mon < 2
      mon == IF early THEN tm.tm_mon + 10 ELSE tm.tm_mon - 2
      year == IF early THEN tm.tm_year - 1 ELSE tm.tm_year
      days == year \div 4 - year \div 100 + year \div 400 + (367 * mon) \div 12 + tm.tm_mday
                + year * 365 - 719499
  IN  ((days * 24 + tm.tm_hour) * 60 + tm.tm_min) * 60 + tm.tm_sec

\* The year is taken to begin in March, so that the leap day is its last.
mktime(tm) ==
  LET early == tm.tm_mon - 2 <= 0
      mon == IF early THEN tm.tm_mon + 10 ELSE tm.tm_mon - 2
      year == IF early THEN tm.tm_year - 1 ELSE tm.tm_year
      days == year \div 4 - year \div 100 + year \div 400 + (367 * mon) \div 12 + tm.tm_mday
                + year * 365 - 719499
  IN  ((days * 24 + tm.tm_hour) * 60 + tm.tm_min) * 60 + tm.tm_sec
=============================================================================
