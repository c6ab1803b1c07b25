------------------------------- MODULE Mailbox ------------------------------
(***************************************************************************)
(* The command interpreters c07/c07e1, c07e2 and c07e3: the interrupt      *)
(* handler reads keys, passes them to main through the variable `ch' and   *)
(* arms the timer on 't'; main polls `ch', obeys the key and clears it.    *)
(*                                                                         *)
(* The three differ in dispatch.  c07e1's ARM_irq is the vector itself: it *)
(* runs with IRQs locked and leaves the controller alone.  c07e2 and c07e3 *)
(* go through BSP_irq, taken as BspIrq describes it: from its entry to the *)
(* call of irq_handler, and from that call's return to the interrupted     *)
(* code, BSP_irq is locked, so each is one step here; in between another   *)
(* number's handler may nest.  Main's code and the handler's go by one     *)
(* access to a shared variable or device at a time, but that a test of     *)
(* `ch' and the write to the mask that obeys it are one step.  `ch' is not volatile: *)
(* with -Os main may keep it in a register until a call makes it load the  *)
(* variable again.                                                         *)
(***************************************************************************)
EXTENDS Naturals, Sequences, SequencesExt

CONSTANTS
  Programs,      \* which of the three run
  MaxKeys,       \* how many keys are typed
  Keys           \* which keys

ASSUME KeyAssumption ==
  /\ Programs \subseteq {"c07e1", "c07e2", "c07e3"}
  /\ MaxKeys \in Nat
  /\ Keys \subseteq {"d", "e", "g", "s", "t", "x", "r"}

VARIABLES
  program,       \* the program that was started
  tty,           \* keys ready in TTY2
  stdin,         \* keys libc has read and not yet handed out
  alarm, fired,  \* the timer: an alarm is set; its interrupt line is up
  enabled,       \* the interrupt controller
  stack,         \* activations of the handler: its argument, and where it is
  ch, timeout, timer_irq,
  mpc, reg,      \* main: where it is, and its copy of `ch' in a register
  typed,         \* history: the keys typed
  given, done    \* history: keys stored in `ch', and those main obeyed

vars == <<program, tty, stdin, alarm, fired, enabled, stack, ch, timeout, timer_irq,
          mpc, reg, typed, given, done>>

None == "0"
NoCopy == "reload"                        \* a call was made: main must load `ch'
\* main's tests of ch, in their order.
MainTests == [c07e1 |-> <<"d", "e">>, c07e2 |-> <<"d", "e", "s">>,
              c07e3 |-> <<"d", "e", "g", "s">>]
MainPC == {"start", "tty2", "top", "clear", "delay", "d", "e", "g", "s"}
IRQ == {"TIMER", "TTY2"}
Activation == [irq : IRQ, pc : {"enter", "test", "flag", "exit"}]

TypeOK ==
  /\ program \in Programs
  /\ tty \in Seq(Keys) /\ stdin \in Seq(Keys)
  /\ alarm \in BOOLEAN /\ fired \in BOOLEAN
  /\ enabled \subseteq IRQ
  /\ stack \in Seq(Activation)
  /\ ch \in Keys \cup {None} /\ timeout \in Nat /\ timer_irq \in {0, 1}
  /\ mpc \in MainPC /\ reg \in Keys \cup {None, NoCopy}
  /\ typed \in Seq(Keys) /\ given \in Seq(Keys) /\ done \in Seq(Keys)

Init ==
  /\ program \in Programs
  /\ tty = <<>> /\ stdin = <<>> /\ alarm = FALSE /\ fired = FALSE
  /\ enabled = {} /\ stack = <<>>
  /\ ch = None /\ timeout = 0 /\ timer_irq = 0
  /\ mpc = "start" /\ reg = NoCopy
  /\ typed = <<>> /\ given = <<>> /\ done = <<>>

Device == <<tty, stdin, alarm, fired, enabled>>
Shared == <<ch, timeout, timer_irq>>
MainState == <<program, mpc, reg>>
History == <<typed, given, done>>

-----------------------------------------------------------------------------
(* The world. *)
Type(k) ==
  /\ Len(typed) < MaxKeys
  /\ tty' = Append(tty, k) /\ typed' = Append(typed, k)
  /\ UNCHANGED <<stdin, alarm, fired, enabled, stack, given, done>> /\ UNCHANGED <<MainState, Shared>>

Fire ==
  /\ alarm
  /\ alarm' = FALSE /\ fired' = TRUE
  /\ UNCHANGED <<tty, stdin, enabled, stack>> /\ UNCHANGED <<MainState, Shared, History>>

Line(irq) == IF irq = "TTY2" THEN tty # <<>> ELSE fired

-----------------------------------------------------------------------------
(* Dispatch and the handlers: ARM_irq of c07e1, irq_handler of the others. *)
Top == stack[Len(stack)]
At(irq, pc) == stack # <<>> /\ Top = [irq |-> irq, pc |-> pc]
Goto(pc) == stack' = [stack EXCEPT ![Len(stack)].pc = pc]

\* The controller presents the lowest of the pending numbers: IRQ_TIMER is 3,
\* IRQ_TTY2 is 12.
Presents(irq) ==
  /\ irq \in enabled /\ Line(irq)
  /\ irq = "TTY2" => ~("TIMER" \in enabled /\ fired)

Locked == program = "c07e1" /\ stack # <<>>

TakeIrqMutant(irq) ==     \* Mutant: the number stays enabled while it is handled.
  /\ Presents(irq) /\ ~Locked /\ Len(stack) < 3
  /\ stack' = Append(stack, [irq |-> irq, pc |-> "enter"])
  /\ UNCHANGED Device /\ UNCHANGED <<MainState, Shared, History>>

TakeIrq(irq) ==
  /\ Presents(irq) /\ ~Locked
  /\ enabled' = IF program = "c07e1" THEN enabled ELSE enabled \ {irq}
  /\ stack' = Append(stack, [irq |-> irq, pc |-> "enter"])
  /\ UNCHANGED <<tty, stdin, alarm, fired>> /\ UNCHANGED <<MainState, Shared, History>>

\* getchar: libc hands out what it has, or reads all keys that are ready, and
\* _read waits until there is one.
Getchar ==
  /\ At("TTY2", "enter")
  /\ LET have == IF stdin = <<>> THEN tty ELSE stdin
     IN  /\ have # <<>>
         /\ ch' = Head(have) /\ stdin' = Tail(have) /\ given' = Append(given, Head(have))
         /\ tty' = IF stdin = <<>> THEN <<>> ELSE tty
  /\ Goto("test")
  /\ UNCHANGED <<alarm, fired, enabled, timeout, timer_irq, typed, done>> /\ UNCHANGED MainState

\* 't': goldfish_set_timer(0), in c07e3 goldfish_set_timer(timeout), and the
\* next timeout is longer.
KeyArms ==
  /\ At("TTY2", "test") /\ ch = "t"
  /\ alarm' = TRUE
  /\ timeout' = IF program = "c07e3" THEN timeout + 1 ELSE timeout
  /\ Goto(IF program = "c07e3" THEN "flag" ELSE "exit")
  /\ UNCHANGED <<tty, stdin, fired, enabled, ch, timer_irq>> /\ UNCHANGED <<MainState, History>>

KeyFlags ==
  /\ At("TTY2", "flag")
  /\ timer_irq' = 1
  /\ Goto("exit")
  /\ UNCHANGED <<Device, ch, timeout>> /\ UNCHANGED <<MainState, History>>

\* In c07e3 'x' and 'r' change the timeout; every other key is left to main.
KeyOther ==
  /\ At("TTY2", "test") /\ ch # "t"
  /\ timeout' = CASE program # "c07e3" -> timeout
                  [] program = "c07e3" /\ ch = "x" /\ timeout > 0 -> timeout * 10
                  [] program = "c07e3" /\ ch = "r" -> 0
                  [] OTHER -> timeout
  /\ Goto("exit")
  /\ UNCHANGED <<Device, ch, timer_irq>> /\ UNCHANGED <<MainState, History>>

ClearTimerMutant ==       \* Mutant: the timer's interrupt is not cleared.
  /\ At("TIMER", "enter")
  /\ Goto(IF program = "c07e3" THEN "flag" ELSE "exit")
  /\ UNCHANGED Device /\ UNCHANGED <<MainState, Shared, History>>

goldfish_clear_timer_int == fired' = FALSE /\ UNCHANGED alarm
goldfish_clear_alarm == fired' = FALSE /\ alarm' = FALSE    \* also one set meanwhile

ClearTimer ==
  /\ At("TIMER", "enter")
  /\ IF program = "c07e1" THEN goldfish_clear_alarm ELSE goldfish_clear_timer_int
  /\ Goto(IF program = "c07e3" THEN "flag" ELSE "exit")
  /\ UNCHANGED <<tty, stdin, enabled>> /\ UNCHANGED <<MainState, Shared, History>>

TimerUnflags ==
  /\ At("TIMER", "flag")
  /\ timer_irq' = 0
  /\ Goto("exit")
  /\ UNCHANGED <<Device, ch, timeout>> /\ UNCHANGED <<MainState, History>>

ReturnMutant ==           \* Mutant: the number is left masked.
  /\ stack # <<>> /\ Top.pc = "exit"
  /\ stack' = Front(stack)
  /\ UNCHANGED Device /\ UNCHANGED <<MainState, Shared, History>>

Return ==
  /\ stack # <<>> /\ Top.pc = "exit"
  /\ enabled' = IF program = "c07e1" THEN enabled ELSE enabled \cup {Top.irq}
  /\ stack' = Front(stack)
  /\ UNCHANGED <<tty, stdin, alarm, fired>> /\ UNCHANGED <<MainState, Shared, History>>

-----------------------------------------------------------------------------
(* main. *)
MainAt(pc) == stack = <<>> /\ mpc = pc
MainOnly == UNCHANGED <<program, tty, stdin, alarm, fired, stack, timeout, timer_irq, typed, given>>

\* The interrupts are unmasked one by one (the CPU's lock was opened before, by
\* ARM_INT_UNLOCK or, for c07e1, by __cs3_reset).
MainStart ==
  \/ MainAt("start") /\ enabled' = enabled \cup {"TIMER"} /\ mpc' = "tty2"
     /\ MainOnly /\ UNCHANGED <<ch, reg, done>>
  \/ MainAt("tty2") /\ enabled' = enabled \cup {"TTY2"} /\ mpc' = "top"
     /\ MainOnly /\ UNCHANGED <<ch, reg, done>>

\* The values main's next test of `ch' may see: the variable, or the copy that
\* no call has made stale.
Loads == {ch} \cup ({reg} \ {NoCopy})

\* if(ch != 0): c07e1 and c07e2 print the command first, a call.
MainTop ==
  /\ MainAt("top")
  /\ \E v \in Loads :
       /\ mpc' = IF v # None THEN MainTests[program][1] ELSE "delay"
       /\ reg' = IF program = "c07e3" THEN v ELSE NoCopy
  /\ MainOnly /\ UNCHANGED <<enabled, ch, done>>

AfterTest(k) ==
  IF k = Len(MainTests[program]) THEN "clear" ELSE MainTests[program][k + 1]

ObeyMutant(key) ==        \* Mutant: 'e' does not unmask the timer.
  IF key = "d" THEN enabled \ {"TIMER"} ELSE enabled

\* What obeying a key does to the controller: goldfish_mask_irq(IRQ_TIMER),
\* goldfish_unmask_irq(IRQ_TIMER).
Obey(key) == CASE key = "d" -> enabled \ {"TIMER"}
               [] key = "e" -> enabled \cup {"TIMER"}
               [] OTHER -> enabled

\* One of the tests.  A command that is obeyed makes calls.
MainTest(k) ==
  /\ MainAt(MainTests[program][k])
  /\ \E v \in Loads :
       IF v = MainTests[program][k]
       THEN enabled' = Obey(v) /\ done' = Append(done, v) /\ reg' = NoCopy
       ELSE reg' = v /\ UNCHANGED <<enabled, done>>
  /\ mpc' = AfterTest(k)
  /\ MainOnly /\ UNCHANGED ch

MainClearMutant ==        \* Mutant: the command is not taken out of the mailbox.
  /\ MainAt("clear")
  /\ mpc' = "top" /\ reg' = NoCopy
  /\ MainOnly /\ UNCHANGED <<enabled, ch, done>>

\* ch = 0; c07e1 and c07e2 then read the timer and print.
MainClear ==
  /\ MainAt("clear")
  /\ ch' = None /\ mpc' = "top"
  /\ reg' = IF program = "c07e3" THEN None ELSE NoCopy
  /\ MainOnly /\ UNCHANGED <<enabled, done>>

\* goldfish_timer_read; in c07e3 __udelay, for a second when timeout > 1000 &&
\* timer_irq > 0, else for a millisecond: only the wait differs.
MainDelay ==
  /\ MainAt("delay")
  /\ mpc' = "top" /\ reg' = NoCopy
  /\ MainOnly /\ UNCHANGED <<enabled, ch, done>>

-----------------------------------------------------------------------------
World == Fire \/ \E k \in Keys : Type(k)
Handler ==
  Getchar \/ KeyArms \/ KeyFlags \/ KeyOther \/ ClearTimer \/ TimerUnflags \/ Return
Main ==
  \/ MainStart \/ MainTop \/ MainClear \/ MainDelay
  \/ \E k \in DOMAIN MainTests[program] : MainTest(k)
Next == World \/ (\E irq \in IRQ : TakeIrq(irq)) \/ Handler \/ Main

Spec == Init /\ [][Next]_vars

\* The CPU runs, interrupts are taken, alarms go off.
FairSpec ==
  /\ Spec
  /\ WF_vars(Main) /\ WF_vars(Handler) /\ WF_vars(Fire)
  /\ \A irq \in IRQ : WF_vars(TakeIrq(irq))

-----------------------------------------------------------------------------
(* Properties. *)

\* main obeys only keys the handler stored, each at most once and in the order
\* they were typed, however the handler interleaves with its tests of `ch'.
ObeyedInOrder ==
  \E f \in [DOMAIN done -> DOMAIN given] :
    \A a, b \in DOMAIN done : given[f[a]] = done[a] /\ (a < b => f[a] < f[b])

\* The handler's getchar never waits: TTY2's line was up when it was called and
\* nobody takes the key in between.  Waiting, with TTY2 masked, would be forever.
GetcharNeverBlocks == At("TTY2", "enter") => stdin # <<>> \/ tty # <<>>

\* Between the keyboard and `ch' no key is lost or overtakes another.
KeysInOrder == given \o stdin \o tty = typed

\* Outside interrupts TIMER is masked exactly when the last of main's 'd' and
\* 'e' was 'd', however many timer interrupts were masked and unmasked meanwhile.
Disabled ==
  \E k \in DOMAIN done : done[k] = "d" /\ \A j \in DOMAIN done : j > k => done[j] # "e"
TimerMaskObeyed ==
  stack = <<>> /\ mpc # "start" => ("TIMER" \in enabled <=> ~Disabled)

-----------------------------------------------------------------------------
(* The inductive invariant behind them. *)

\* c07e1 handles one interrupt at a time; the others handle a number only while
\* it is masked, so that no two activations have the same one.
Nesting ==
  /\ program = "c07e1" => Len(stack) <= 1
  /\ program # "c07e1" => \A k \in DOMAIN stack : stack[k].irq \notin enabled
  /\ \A j, k \in DOMAIN stack : stack[j].irq = stack[k].irq => j = k

\* An activation that has yet to call getchar, interrupted or not, has its key.
KeyWaits ==
  \A k \in DOMAIN stack :
    stack[k].irq = "TTY2" /\ stack[k].pc = "enter" => stdin # <<>> \/ tty # <<>>

\* TIMER is masked for a handler under way, or because main's last switch was 'd'.
InService(irq) == program # "c07e1" /\ \E k \in DOMAIN stack : stack[k].irq = irq
MaskPaired ==
  IF mpc = "start" THEN enabled = {} /\ stack = <<>> /\ done = <<>>
  ELSE "TIMER" \in enabled \/ InService("TIMER") <=> ~Disabled

\* main has already made its test for key v in this turn.
Past(v) ==
  \/ mpc = "clear"
  \/ \E j, k \in DOMAIN MainTests[program] :
       MainTests[program][j] = v /\ MainTests[program][k] = mpc /\ j < k

\* The key at place p of `given' is still to be obeyed, where f places the keys
\* of `done', or it is the last that was and its test is behind.
Unspent(f, p) ==
  done = <<>> \/ f[Len(done)] < p \/ (f[Len(done)] = p /\ Past(given[p]))

\* `ch' is the newest key or none, a copy of it in a register is a key not newer,
\* and neither was obeyed, but in this turn.
Order(f) ==
  /\ \A a, b \in DOMAIN done : given[f[a]] = done[a] /\ (a < b => f[a] < f[b])
  /\ ch # None =>
       given # <<>> /\ ch = given[Len(given)] /\ Unspent(f, Len(given))
  /\ reg \in Keys => \E p \in DOMAIN given : reg = given[p] /\ Unspent(f, p)
  /\ mpc \in {"start", "tty2", "top", "delay"} => reg \notin Keys
OrderKept == \E f \in [DOMAIN done -> DOMAIN given] : Order(f)

\* The invariant of keys, mailbox and mask.
Inv ==
  /\ TypeOK
  /\ Nesting
  /\ KeyWaits
  /\ KeysInOrder
  /\ MaskPaired
  /\ OrderKept

\* Interrupts end: main gets back to polling for commands again and again.
MainPolls == []<>(stack = <<>> /\ mpc = "top")

\* An alarm that goes off is handled, unless main disables the timer: neither
\* priority, nesting nor the masking of BSP_irq leaves its interrupt pending.
AlarmsHandled == fired ~> (~fired \/ Disabled)
=============================================================================
