--------------------------------- MODULE Rtc --------------------------------
(***************************************************************************)
(* c07/c07e3/rtc-goldfish.c: the clock that main sets and reads and that   *)
(* irq_handler resets, over get_second's reading of the goldfish timer and *)
(* the conversions of Date.  main goes by one access to the timer or to    *)
(* rtc_offset at a time; the handler comes in between anywhere, and reads  *)
(* the timer before it returns.  rtc_offset is an integer here: in the     *)
(* code it is taken modulo 2^32, as is the sum it is used in, which lies   *)
(* in 0 .. 2^31 - 1.                                                       *)
(*                                                                         *)
(* The timer is a 64-bit count read in two halves of 32 bits.  It goes by  *)
(* steps of 2^29 counts, so that the low half has 8 values and its lowest  *)
(* bit is one that get_second shifts out.                                  *)
(*                                                                         *)
(* Against the code runs a calendar that is only ever moved forward, by    *)
(* the rules of the Gregorian calendar and independently of the halves:    *)
(* `hw' from 1970-01-01, a Thursday, and `shown' from the last date main   *)
(* set.  Its second is SecondSteps steps, 2^30 counts, which is what       *)
(* get_second divides by (timer.c:174-176).  That is 1024 of the           *)
(* milliseconds that get_millisecond counts (timer.c:191-193, 2^20 counts) *)
(* and of the ticks of which get_tbclk gives 1000 to the second            *)
(* (timer.c:152-160): by that measure the clock modelled here is 2.4%      *)
(* slow, and nothing below says that its second is a second.               *)
(***************************************************************************)
EXTENDS Date

CONSTANTS
  EndDay,        \* time stops at the end of this day after 1970-01-01
  CallDays,      \* main first uses the clock on one of these days
  Calendars,     \* what main may set the clock to (with the weekday it falls on)
  MaxCalls,      \* how often main uses the clock
  MaxMoves       \* how often time moves after main first used it

ASSUME RtcAssumption ==
  /\ EndDay \in Nat /\ EndDay < 24855        \* 2^31 seconds are 24855 days
  /\ CallDays \subseteq 0 .. EndDay /\ MaxCalls \in Nat /\ MaxMoves \in Nat

VARIABLES
  high, low,     \* the timer's halves, the low one in steps of 2^29 counts
  latch,         \* the timer's high half, latched by a read of the low one
  rtc_offset,
  pc, lo, sec,   \* main: where it is, the low half it read, what get_second gave
  rv,            \* main: what mktime gave rtc_set
  got,           \* the date rtc_get gave
  now, part,     \* reference: the seconds since the timer was 0, and the steps of this one
  hw, shown,     \* reference: the calendars of the timer and of the clock
  ref, refhw,    \* reference: the date being set; or shown and hw when rtc_get read the timer
  torn, lost,    \* history: the two reads are of two moments; those of the last rtc_set were
  calls, moves   \* bounded

Main == <<pc, lo, sec, rv, got>>
Timer == <<high, low>>
Reference == <<now, part, hw, shown, ref, refhw, torn, lost, calls, moves>>
vars == <<Timer, latch, rtc_offset, Main, Reference>>

-----------------------------------------------------------------------------
(* The reference calendar. *)
Epoch == [tm_year |-> 1970, tm_mon |-> 1, tm_mday |-> 1, tm_hour |-> 0, tm_min |-> 0,
          tm_sec |-> 0, tm_wday |-> 4]

IsLeap(y) == (y % 4 = 0 /\ y % 100 # 0) \/ y % 400 = 0
LastOf(y, m) == IF m = 2 THEN (IF IsLeap(y) THEN 29 ELSE 28)
                ELSE IF m \in {4, 6, 9, 11} THEN 30 ELSE 31

NextDay(c) ==
  [c EXCEPT !.tm_wday = (@ + 1) % 7,
            !.tm_mday = IF @ = LastOf(c.tm_year, c.tm_mon) THEN 1 ELSE @ + 1,
            !.tm_mon = IF c.tm_mday # LastOf(c.tm_year, @) THEN @ ELSE IF @ = 12 THEN 1 ELSE @ + 1,
            !.tm_year = IF c.tm_mon = 12 /\ c.tm_mday = 31 THEN @ + 1 ELSE @]

\* The calendar c, s seconds (at most a day) later.
Later(c, s) ==
  LET t == c.tm_hour * 3600 + c.tm_min * 60 + c.tm_sec + s
      u == t % SECDAY
  IN  [(IF t < SECDAY THEN c ELSE NextDay(c))
         EXCEPT !.tm_hour = u \div 3600, !.tm_min = (u \div 60) % 60, !.tm_sec = u % 60]

-----------------------------------------------------------------------------
Init ==
  /\ high = 0 /\ low = 0 /\ latch = 0 /\ rtc_offset = 0
  /\ pc = "idle" /\ lo = 0 /\ sec = 0 /\ rv = 0 /\ got = Epoch
  /\ now = 0 /\ part = 0 /\ hw = Epoch /\ shown = Epoch /\ ref = Epoch /\ refhw = Epoch
  /\ torn = FALSE /\ lost = FALSE /\ calls = 0 /\ moves = 0

LowSteps == 8             \* a turn of the low half: 2^32 counts
SecondSteps == 2          \* a second of the reference: 2^30 counts

\* Time moves on: half a second, a second, to the next of these moments of the day, or,
\* before main first uses the clock, a day.
Moments == {0, 86399}
ToNextMoment ==
  LET s == now % SECDAY
      rest == {t \in Moments : t > s}
      next == IF rest = {} THEN SECDAY ELSE CHOOSE t \in rest : \A u \in rest : t <= u
  IN  (next - s) * SecondSteps - part

Advance(steps) ==
  LET s == (part + steps) \div SecondSteps
  IN  /\ (now + s) \div SECDAY <= EndDay
      /\ high' = high + (low + steps) \div LowSteps /\ low' = (low + steps) % LowSteps
      /\ now' = now + s /\ part' = (part + steps) % SecondSteps
      /\ hw' = Later(hw, s) /\ shown' = Later(shown, s)
      /\ ref' = IF pc \in {"sethigh", "setstore"} THEN Later(ref, s) ELSE ref
      /\ UNCHANGED <<latch, rtc_offset, refhw, torn, lost, calls, Main>>

Time ==
  \/ /\ calls = 0 /\ UNCHANGED moves
     /\ \E steps \in {ToNextMoment, SECDAY * SecondSteps} : Advance(steps)
  \/ /\ calls > 0 /\ moves < MaxMoves /\ moves' = moves + 1
     /\ \E steps \in {1, SecondSteps, ToNextMoment} : Advance(steps)

-----------------------------------------------------------------------------
(* main. get_second reads the low half, then the latched high half. *)
get_secondMutant(lower, upper) == upper * 4 + lower \div 4   \* Mutant: the shift is 31.
get_second(lower, upper) == upper * 4 + lower \div 2         \* 2 steps are 2^30 counts

Call ==
  /\ pc = "idle" /\ calls < MaxCalls
  /\ calls > 0 \/ now \div SECDAY \in CallDays
  /\ calls' = calls + 1
  /\ \/ pc' = "getlow" /\ UNCHANGED <<rv, ref>>
     \/ \E c \in Calendars : pc' = "setlow" /\ rv' = mktime(c) /\ ref' = c
  /\ UNCHANGED <<Timer, latch, rtc_offset, lo, sec, got, now, part, hw, shown, refhw, torn, lost,
                 moves>>

ReadLow ==
  /\ pc \in {"getlow", "setlow"} /\ pc' = IF pc = "getlow" THEN "gethigh" ELSE "sethigh"
  /\ lo' = low /\ latch' = high
  /\ torn' = FALSE
  /\ refhw' = hw /\ ref' = IF pc = "getlow" THEN shown ELSE ref
  /\ UNCHANGED <<Timer, rtc_offset, sec, rv, got, now, part, hw, shown, lost, calls, moves>>

ReadHigh ==
  /\ pc \in {"gethigh", "sethigh"} /\ pc' = IF pc = "gethigh" THEN "getload" ELSE "setstore"
  /\ sec' = get_second(lo, latch)
  /\ UNCHANGED <<Timer, latch, rtc_offset, lo, rv, got, Reference>>

rtc_get ==                \* the compiler loads rtc_offset after the call
  /\ pc = "getload" /\ pc' = "idle"
  /\ got' = to_tm(sec + rtc_offset)
  /\ UNCHANGED <<Timer, latch, rtc_offset, lo, sec, rv, Reference>>

rtc_set ==
  /\ pc = "setstore" /\ pc' = "idle"
  /\ rtc_offset' = rv - sec
  /\ shown' = ref /\ lost' = torn
  /\ UNCHANGED <<Timer, latch, lo, sec, rv, got, now, part, hw, ref, refhw, torn, calls, moves>>

-----------------------------------------------------------------------------
(* irq_handler, once main has used the clock: 'r' resets it, and get_ticks *)
(* reads the timer in any case.                                            *)
rtc_reset ==
  /\ rtc_offset' = 0
  /\ shown' = hw /\ lost' = FALSE
  /\ ref' = IF pc \in {"gethigh", "getload"} THEN refhw ELSE ref

irq_handler ==
  /\ calls > 0
  /\ rtc_reset \/ UNCHANGED <<rtc_offset, shown, lost, ref>>
  /\ latch' = high
  /\ torn' = (torn \/ (pc \in {"gethigh", "sethigh"} /\ latch' # latch))
  /\ UNCHANGED <<Timer, Main, now, part, hw, refhw, calls, moves>>

Next == Time \/ Call \/ ReadLow \/ ReadHigh \/ rtc_get \/ rtc_set \/ irq_handler
Spec == Init /\ [][Next]_vars

-----------------------------------------------------------------------------
(* Properties. *)

\* The timer's halves, put together by get_second and taken apart by to_tm and
\* GregorianDay, are the date and the weekday of every day from 1970 until EndDay, with
\* months, leap years and the time of day.
to_tmRight == to_tm(get_second(low, high)) = hw

\* mktime is the inverse of to_tm: the date of a second gives that second.
mktimeRight == mktime(hw) = now

\* What rtc_get returns is what the clock showed when it read the timer: the date last
\* set, moved on by the seconds that began since rtc_set read the timer, or the timer's
\* own date if the handler reset the clock later, even in the middle of rtc_get.  The
\* seconds are those of 2^30 counts (see the head of the module).  Two reads of the timer
\* that the handler tore apart are excepted.
ClockKeepsTime ==
  [][pc = "getload" /\ pc' = "idle" /\ ~torn /\ ~lost => got' = ref]_vars
=============================================================================
