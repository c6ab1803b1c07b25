-------------------------------- MODULE MCRtc -------------------------------
EXTENDS Rtc

Date(y, m, d, hour, min, s, wday) ==
  [tm_year |-> y, tm_mon |-> m, tm_mday |-> d, tm_hour |-> hour, tm_min |-> min,
   tm_sec |-> s, tm_wday |-> wday]

\* What c07e3.c sets, and the last seconds of a year and of a leap February.
MCCalendars == {Date(2014, 4, 11, 12, 30, 55, 5), Date(1999, 12, 31, 23, 59, 59, 5),
                Date(2000, 2, 29, 23, 59, 58, 2)}
=============================================================================
