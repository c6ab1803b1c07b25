------------------------------- MODULE Timer -------------------------------
(***************************************************************************)
(* drivers/timer.c: the millisecond time stamp kept by get_timer_masked,   *)
(* the delays built on it and the alarm set by goldfish_set_timer, over    *)
(* the goldfish timer.                                                     *)
(*                                                                         *)
(* The timer is a free-running counter of W + H bits read in two halves;   *)
(* reading TIMER_TIME_LOW latches TIMER_TIME_HIGH.  A millisecond is 2^S   *)
(* counts (2^20 in the code, where W = H = 32), and an unsigned long has W *)
(* bits.  Every access to the timer, to `timestamp' and to `lastdec' is a  *)
(* step, but that Add loads both variables at once: a handler between      *)
(* these loads would make it count its milliseconds twice, as one between  *)
(* the two stores does.                                                    *)
(*                                                                         *)
(* main is activation 1; irq_handler, which calls get_ticks (in c07e1 and  *)
(* c07e2 goldfish_timer_read) and, for the key 't' of TTY2,                *)
(* goldfish_set_timer before it, may interrupt main or the handler of      *)
(* another number between any two steps.                                   *)
(***************************************************************************)
EXTENDS Integers, Sequences

CONSTANTS
  W, H, S,     \* bits of a word, of the counter's high half, below a millisecond
  Delays,      \* usec / CONFIG_SYS_HZ (at most a thousandth of 2^W) of main's delays
  Cycles,      \* arguments of goldfish_set_timer
  Handlers,    \* the interrupt numbers that are unmasked
  Reads,       \* how time is read: "ticks" get_ticks (c07e3), "read" goldfish_timer_read
  MaxLag,      \* counts that may pass between two reads of the timer, at most
  Horizon      \* the history variables count milliseconds up to here

ASSUME WidthAssumption == W \in Nat /\ H \in Nat /\ S \in 1 .. W - 1
\* Laws of powers, which the proofs of this module take from here.
ASSUME PowerAssumption ==
  /\ {2^S, 2^(W - S), 2^W, 2^H, 2^(W + H), 2^(W - 1)} \subseteq Nat \ {0}
  /\ 2^W = 2^(W - S) * 2^S /\ 2^(W + H) = 2^H * 2^W /\ 2^W = 2 * 2^(W - 1)
ASSUME TurnAssumption ==
  S <= H => 2^(H - S) \in Nat /\ 2^(W + H) = (2^(H - S) * 2^W) * 2^S
ASSUME InputAssumption ==
  /\ Delays \subseteq 0 .. 2^(W - 1) - 1 /\ Cycles \subseteq 0 .. 2^W - 1
  /\ Handlers \subseteq {"TIMER", "TTY2"} /\ Reads \subseteq {"ticks", "read"}
  /\ MaxLag \in Nat \ {0} /\ Horizon \in Nat

M == 2^W                 \* words are numbers modulo M
Word == 0 .. M - 1
Time == 0 .. 2^(W + H) - 1

VARIABLES
  time,        \* the counter
  latch,       \* TIMER_TIME_HIGH, as latched
  alarmHigh,   \* TIMER_ALARM_HIGH
  alarm,       \* the alarm activated by writing TIMER_ALARM_LOW
  timestamp, lastdec,
  ctx,         \* activations: main's call and, above it, those of irq_handler
  elapsed,     \* history: milliseconds begun since main's call
  lag          \* history: counts since the timer was last read

vars == <<time, latch, alarmHigh, alarm, timestamp, lastdec, ctx, elapsed, lag>>

(***************************************************************************)
(* An activation: the function called, where it is, its local variables    *)
(* and what get_timer_masked returns to (then).  tmo is also the wake-up   *)
(* time (__udelay), endtime (udelay_masked) and cycles.  read and torn are *)
(* history: the counter when TIMER_TIME_LOW was read, and whether a nested *)
(* handler has latched the counter again before TIMER_TIME_HIGH was read.  *)
(***************************************************************************)
PC == {"low", "high", "add", "store", "dec", "resetDec", "resetStamp",
       "alarmHigh", "alarmLow", "done"}
Then == {"init", "udelay", "reset", "loop", "masked", "maskedLoop", "ticks", "read", "alarm"}
Activation ==
  [irq : Handlers \cup {"main"}, pc : PC, then : Then, req : Word, tmo : Word, lo : Word, hi : 0 .. 2^H - 1,
   now : Word, sum : Word, read : Time, torn : BOOLEAN]

New(irq, then, arg) ==
  [irq |-> irq, pc |-> "low", then |-> then, req |-> arg, tmo |-> arg, lo |-> 0,
   hi |-> 0, now |-> 0, sum |-> 0, read |-> 0, torn |-> FALSE]

Me == ctx[Len(ctx)]
Goto(c) == ctx' = [ctx EXCEPT ![Len(ctx)] = c]
At(pc) == ctx # <<>> /\ Me.pc = pc

Milliseconds(t) == t \div 2^S

TypeOK ==
  /\ time \in Time /\ latch \in 0 .. 2^H - 1 /\ alarmHigh \in 0 .. 2^H - 1
  /\ alarm \in Time
  /\ timestamp \in Word /\ lastdec \in Word
  /\ ctx \in Seq(Activation)
  /\ elapsed \in 0 .. Horizon /\ lag \in 0 .. MaxLag

\* timestamp and lastdec are in .bss; main calls timer_init before it delays
\* (c07e1 and c07e2, which do not use the stamp, never call it).
Init ==
  /\ time \in Time
  /\ latch = 0 /\ alarmHigh = 0 /\ alarm = 0
  /\ timestamp = 0 /\ lastdec = 0
  /\ ctx = IF "ticks" \in Reads THEN << New("main", "init", 0) >> ELSE <<>>
  /\ elapsed = 0 /\ lag = 0

-----------------------------------------------------------------------------
Capped(n) == IF n < Horizon THEN n + 1 ELSE n

Tick ==
  /\ lag < MaxLag
  /\ LET now == (time + 1) % 2^(W + H)
         begun == now % 2^S = 0
     IN  /\ time' = now
         /\ elapsed' = IF begun /\ ctx # <<>> THEN Capped(elapsed) ELSE elapsed
         /\ lag' = IF ctx = <<>> THEN lag ELSE lag + 1
  /\ UNCHANGED <<latch, alarmHigh, alarm, timestamp, lastdec, ctx>>

-----------------------------------------------------------------------------
(* Calls. *)
MainCall(then, arg) ==
  /\ ctx = <<>>
  /\ ctx' = << New("main", then, arg) >>
  /\ lag' = 0
  /\ UNCHANGED <<time, latch, alarmHigh, alarm, timestamp, lastdec, elapsed>>

\* A number is masked while it is handled: it never nests on itself.
InService == { ctx[k].irq : k \in DOMAIN ctx }

irq_handlerMutant(irq) ==     \* Mutant: the number is not masked.
  /\ ctx # <<>> /\ irq \in Handlers /\ Len(ctx) < 3
  /\ \/ \E then \in Reads : ctx' = Append(ctx, New(irq, then, 0))
     \/ irq = "TTY2" /\ \E c \in Cycles : ctx' = Append(ctx, New(irq, "alarm", c))
  /\ UNCHANGED <<time, latch, alarmHigh, alarm, timestamp, lastdec, elapsed, lag>>

irq_handler(irq) ==
  /\ ctx # <<>> /\ irq \in Handlers \ InService
  /\ \/ \E then \in Reads : ctx' = Append(ctx, New(irq, then, 0))
     \/ irq = "TTY2" /\ \E c \in Cycles : ctx' = Append(ctx, New(irq, "alarm", c))
  /\ UNCHANGED <<time, latch, alarmHigh, alarm, timestamp, lastdec, elapsed, lag>>

Return ==
  /\ At("done")
  /\ ctx' = SubSeq(ctx, 1, Len(ctx) - 1)
  /\ elapsed' = IF Len(ctx) = 1 THEN 0 ELSE elapsed
  /\ UNCHANGED <<time, latch, alarmHigh, alarm, timestamp, lastdec, lag>>

-----------------------------------------------------------------------------
(* get_millisecond, and the same two reads in goldfish_set_timer and        *)
(* goldfish_timer_read.                                                    *)
ReadLow ==
  /\ At("low")
  /\ latch' = time \div M
  /\ ctx' = [k \in DOMAIN ctx |->
               IF k = Len(ctx)
               THEN [Me EXCEPT !.pc = "high", !.lo = time % M, !.read = time]
               ELSE [ctx[k] EXCEPT !.torn = @ \/ ctx[k].pc = "high"]]
  /\ lag' = 0
  /\ UNCHANGED <<time, alarmHigh, alarm, timestamp, lastdec, elapsed>>

\* Mutant: the high half is shifted by one bit too few.
get_millisecondMutant(hi, lo) == (hi * 2^(W - S - 1) + lo \div 2^S) % M

\* rv = (hi << 12) + (lo >> 20)
get_millisecond(hi, lo) == (hi * 2^(W - S) + lo \div 2^S) % M

ReadHigh ==
  /\ At("high") /\ Me.then \notin {"alarm", "read"}
  /\ Goto([Me EXCEPT !.pc = IF Me.then \in {"init", "reset"} THEN "resetDec" ELSE "add",
                     !.now = get_millisecond(latch, Me.lo), !.lo = 0])
  /\ UNCHANGED <<time, latch, alarmHigh, alarm, timestamp, lastdec, elapsed, lag>>

-----------------------------------------------------------------------------
(* reset_timer_masked. *)
ResetDec ==
  /\ At("resetDec")
  /\ lastdec' = Me.now
  /\ Goto([Me EXCEPT !.pc = "resetStamp"])
  /\ UNCHANGED <<time, latch, alarmHigh, alarm, timestamp, elapsed, lag>>

ResetStamp ==
  /\ At("resetStamp")
  /\ timestamp' = 0
  /\ Goto(IF Me.then = "init" THEN [New(Me.irq, "init", 0) EXCEPT !.pc = "done"]
          ELSE [New(Me.irq, "loop", Me.req) EXCEPT !.tmo = Me.tmo])
  /\ UNCHANGED <<time, latch, alarmHigh, alarm, lastdec, elapsed, lag>>

-----------------------------------------------------------------------------
(* get_timer_masked. *)
AdvanceMutant(now) ==     \* Mutant: the counter is taken to have M + 1 values.
  IF now >= lastdec THEN now - lastdec ELSE now + M + 1 - lastdec

\* How far the stamp moves when the timer shows now.
Advance(now) ==
  IF now >= lastdec THEN now - lastdec ELSE now + (M - 1) - lastdec

Add ==
  /\ At("add")
  /\ Goto([Me EXCEPT !.pc = "store", !.read = 0, !.torn = FALSE,
                     !.sum = (timestamp + Advance(Me.now)) % M])
  /\ UNCHANGED <<time, latch, alarmHigh, alarm, timestamp, lastdec, elapsed, lag>>

Store ==
  /\ At("store")
  /\ timestamp' = Me.sum
  /\ Goto([Me EXCEPT !.pc = "dec"])
  /\ UNCHANGED <<time, latch, alarmHigh, alarm, lastdec, elapsed, lag>>

SetDec ==
  /\ lastdec' = Me.now
  /\ UNCHANGED <<time, latch, alarmHigh, alarm, timestamp, elapsed, lag>>

\* The activation polls again, or has finished.
Poll(then, tmo) == Goto([New(Me.irq, then, Me.req) EXCEPT !.tmo = tmo])
Done == Goto([New(Me.irq, Me.then, Me.req) EXCEPT !.pc = "done"])

TicksDec == At("dec") /\ Me.then = "ticks" /\ SetDec /\ Done

-----------------------------------------------------------------------------
(* __udelay. *)
UdelayStartWide ==        \* Mutant: the wake-up time is kept in more than a word.
  /\ At("dec") /\ Me.then = "udelay"
  /\ SetDec
  /\ Poll("loop", Me.tmo + Me.sum)

UdelayStartLate ==        \* Mutant: only a wake-up time past the largest stamp rolls over.
  /\ At("dec") /\ Me.then = "udelay"
  /\ SetDec
  /\ IF (Me.tmo + Me.sum) % M < Me.sum
     THEN Poll("reset", Me.tmo)
     ELSE Poll("loop", (Me.tmo + Me.sum) % M)

UdelayStart ==
  /\ At("dec") /\ Me.then = "udelay"
  /\ SetDec
  /\ IF (Me.tmo + Me.sum + 1) % M < Me.sum
     THEN Poll("reset", Me.tmo)
     ELSE Poll("loop", (Me.tmo + Me.sum) % M)

UdelayLoop ==
  /\ At("dec") /\ Me.then = "loop"
  /\ SetDec
  /\ IF Me.sum < Me.tmo THEN Poll("loop", Me.tmo) ELSE Done

-----------------------------------------------------------------------------
(* udelay_masked. *)
MaskedStart ==
  /\ At("dec") /\ Me.then = "masked"
  /\ SetDec
  /\ Poll("maskedLoop", (Me.sum + Me.tmo) % M)

MaskedLoopMutant ==       \* Mutant: the difference is compared as unsigned.
  /\ At("dec") /\ Me.then = "maskedLoop"
  /\ SetDec
  /\ IF Me.sum <= Me.tmo THEN Poll("maskedLoop", Me.tmo) ELSE Done

MaskedLoop ==             \* diff = endtime - now, a signed long
  /\ At("dec") /\ Me.then = "maskedLoop"
  /\ SetDec
  /\ IF (Me.tmo - Me.sum) % M < M \div 2 THEN Poll("maskedLoop", Me.tmo) ELSE Done

-----------------------------------------------------------------------------
(* goldfish_timer_read: rv = lo | hi << 32, returned as an unsigned long. *)
TimerRead ==
  /\ At("high") /\ Me.then = "read"
  /\ Goto([New(Me.irq, "read", 0) EXCEPT !.pc = "done", !.read = Me.read,
                                        !.now = (Me.lo + latch * M) % M])
  /\ UNCHANGED <<time, latch, alarmHigh, alarm, timestamp, lastdec, elapsed, lag>>

-----------------------------------------------------------------------------
(* goldfish_set_timer; irq_handler then reads the time. *)
Carry(lo, tmp) == lo > tmp

AlarmRead ==
  /\ At("high") /\ Me.then = "alarm"
  /\ LET tmp == (Me.lo + (Me.tmo % 2^(W - S)) * 2^S) % M
         hi == latch + Me.tmo \div 2^(W - S) + (IF Carry(Me.lo, tmp) THEN 1 ELSE 0)
     IN  Goto([Me EXCEPT !.pc = "alarmHigh", !.lo = tmp, !.hi = hi % 2^H])
  /\ UNCHANGED <<time, latch, alarmHigh, alarm, timestamp, lastdec, elapsed, lag>>

AlarmWriteHigh ==
  /\ At("alarmHigh")
  /\ alarmHigh' = Me.hi
  /\ Goto([Me EXCEPT !.pc = "alarmLow"])
  /\ UNCHANGED <<time, latch, alarm, timestamp, lastdec, elapsed, lag>>

AlarmWriteLow ==
  /\ At("alarmLow")
  /\ alarm' = alarmHigh * M + Me.lo
  /\ \E then \in Reads : Goto(New(Me.irq, then, 0))
  /\ UNCHANGED <<time, latch, alarmHigh, timestamp, lastdec, elapsed, lag>>

-----------------------------------------------------------------------------
Main ==
  \/ \E then \in Reads : MainCall(then, 0)
  \/ \E d \in Delays : MainCall("udelay", d) \/ MainCall("masked", d)

Cpu ==
  \/ ReadLow \/ ReadHigh \/ ResetDec \/ ResetStamp \/ Add \/ Store \/ TicksDec
  \/ UdelayStart \/ UdelayLoop \/ MaskedStart \/ MaskedLoop
  \/ TimerRead \/ AlarmRead \/ AlarmWriteHigh \/ AlarmWriteLow \/ Return

Next == Tick \/ Main \/ (\E irq \in Handlers : irq_handler(irq)) \/ Cpu

Spec == Init /\ [][Next]_vars

\* Time passes and the CPU runs.
FairSpec == Spec /\ WF_vars(Tick) /\ WF_vars(Cpu)

-----------------------------------------------------------------------------
(* Properties. *)
MainDone(then) == Len(ctx) = 1 /\ ctx[1].pc = "done" /\ ctx[1].then = then

\* "delay x useconds" (timer.c:74): when __udelay returns, at least as many
\* milliseconds have begun since the call as were asked for.
UdelayNotEarly == MainDone("loop") => elapsed >= ctx[1].req

\* udelay_masked, which waits until the difference is negative, returns no
\* earlier either, wherever the stamp rolls over.
MaskedNotEarly == MainDone("maskedLoop") => elapsed > ctx[1].req \/ elapsed = Horizon

\* get_millisecond's two reads are of one moment: the value it computes is the
\* counter's when the low half was read, unless a nested handler latched the
\* counter in between; then it is late by whole turns of the low half, and
\* goldfish_timer_read, which returns the low half alone, is right even so.
ReadNotTorn ==
  \A k \in DOMAIN ctx :
    LET c == ctx[k]
    IN  /\ c.pc \in {"add", "resetDec"} =>
             (c.now - Milliseconds(c.read)) % (IF c.torn THEN 2^(W - S) ELSE M) = 0
        /\ c.pc = "done" /\ c.then = "read" => c.now = c.read % M

\* Between the two reads, and between the alarm's reading and its two writes: the
\* latch is the one of the untorn reading, the low half of the alarm is right, the
\* high half unless the reading was torn, and no other handler has written it.
Halves ==
  \A k \in DOMAIN ctx :
    LET c == ctx[k]
        due == c.read + c.req * 2^S
    IN  /\ c.pc = "high" => c.lo = c.read % M /\ (c.torn \/ latch = c.read \div M)
        /\ c.pc \in {"alarmHigh", "alarmLow"} =>
             /\ c.then = "alarm" /\ c.lo = due % M
             /\ c.torn \/ (c.hi * M + c.lo - due) % 2^(W + H) = 0
        /\ c.pc = "alarmLow" => alarmHigh = c.hi
        /\ c.then = "alarm" => c.irq = "TTY2" /\ c.tmo = c.req

\* Each interrupt number is in service once at most, and main below them all.
OncePerNumber ==
  /\ \A j, k \in DOMAIN ctx : ctx[j].irq = ctx[k].irq => j = k
  /\ ctx # <<>> => ctx[1].irq = "main"

\* The invariant of the timer's state: words stay words, through every sum and
\* difference, no reading is torn but by a nested one, and no alarm mixed with another.
Inv == TypeOK /\ ReadNotTorn /\ Halves /\ OncePerNumber

\* goldfish_set_timer(cycles) sets the alarm exactly cycles milliseconds after
\* its reading of the counter, carry from the low half included, whichever
\* handlers nest; when a nested one latched the counter between its two reads,
\* the alarm is off by whole turns of the low half.
AlarmExact ==
  [][At("alarmLow") /\ Len(ctx') = Len(ctx) /\ Me'.pc # "alarmLow" =>
       (alarm' - (Me.read + Me.req * 2^S)) % (IF Me.torn THEN M ELSE 2^(W + H)) = 0]_vars

\* __udelay is not late: beyond the time asked for it takes at most the milliseconds
\* that begin in two gaps before the stamp it waits from is read (its first reading,
\* and the reset's) and in two more after the last stamp before the wake-up time (the
\* last poll and the return), wherever the counter, the stamp and the wake-up time
\* roll over.
UdelayNotLate ==
  MainDone("loop") => elapsed <= ctx[1].req + 2 * ((2 * MaxLag + 2^S - 1) \div 2^S)

\* Every delay ends.
DelaysEnd == (ctx # <<>>) ~> (ctx = <<>>)
=============================================================================
