---------------------------- MODULE MailboxProofs ---------------------------
(***************************************************************************)
(* The safety properties of Mailbox for any number of keys.                *)
(***************************************************************************)
EXTENDS Mailbox, SequenceTheorems, TLAPS

\* Moving the head of one sequence to the end of another leaves what they join to.
LEMMA MoveHead ==
  ASSUME NEW S, NEW a \in Seq(S), NEW b \in Seq(S), b # <<>>
  PROVE  Append(a, Head(b)) \o Tail(b) = a \o b
<1>1. /\ Head(b) \in S /\ Tail(b) \in Seq(S) /\ Len(Tail(b)) = Len(b) - 1
      /\ \A i \in 1 .. Len(Tail(b)) : Tail(b)[i] = b[i + 1]
  BY HeadTailProperties
<1>2. <<Head(b)>> \in Seq(S) /\ Append(a, Head(b)) = a \o <<Head(b)>>
  BY <1>1, AppendIsConcat
<1>3. (a \o <<Head(b)>>) \o Tail(b) = a \o (<<Head(b)>> \o Tail(b))
  BY <1>1, <1>2, ConcatAssociative
<1>4. <<Head(b)>> \o Tail(b) = b
  <2> DEFINE c == <<Head(b)>> \o Tail(b)
  <2>1. /\ c \in Seq(S) /\ Len(c) = 1 + (Len(b) - 1) /\ Len(b) \in Nat \ {0}
        /\ \A i \in 1 .. 1 + (Len(b) - 1) : c[i] = IF i <= 1 THEN <<Head(b)>>[i] ELSE Tail(b)[i - 1]
    BY <1>1, <1>2, ConcatProperties, EmptySeq
  <2>2. \A i \in 1 .. Len(b) : c[i] = b[i]
    <3> SUFFICES ASSUME NEW i \in 1 .. Len(b)
                 PROVE  c[i] = b[i]
      OBVIOUS
    <3>1. CASE i = 1
      BY <2>1, <3>1
    <3>2. CASE i # 1
      <4>1. i - 1 \in 1 .. Len(Tail(b)) /\ (i - 1) + 1 = i
        BY <1>1, <2>1, <3>2
      <4>2. c[i] = Tail(b)[i - 1]
        BY <2>1, <3>2
      <4> QED
        BY <1>1, <4>1, <4>2
    <3> QED
      BY <3>1, <3>2
  <2>3. Len(c) = Len(b)
    BY <2>1
  <2> HIDE DEF c
  <2>4. c = b
    BY <2>1, <2>2, <2>3, SeqEqual
  <2> QED
    BY <2>4 DEF c
<1> QED
  BY <1>2, <1>3, <1>4

-----------------------------------------------------------------------------
(* The stack of activations. *)

\* The newest activation, and what Goto makes of the stack.
LEMMA StackTop ==
  ASSUME stack \in Seq(Activation), stack # <<>>
  PROVE  /\ Len(stack) \in DOMAIN stack
         /\ Top \in Activation
         /\ DOMAIN stack = 1 .. Len(stack)
BY EmptySeq, LenProperties DEF Top

LEMMA StackGoto ==
  ASSUME stack \in Seq(Activation), stack # <<>>,
         NEW pc \in {"enter", "test", "flag", "exit"}, Goto(pc)
  PROVE  /\ stack' \in Seq(Activation)
         /\ Len(stack') = Len(stack) /\ DOMAIN stack' = DOMAIN stack
         /\ \A k \in DOMAIN stack :
              /\ stack'[k].irq = stack[k].irq
              /\ stack'[k].pc = IF k = Len(stack) THEN pc ELSE stack[k].pc
<1> DEFINE e == [stack[Len(stack)] EXCEPT !.pc = pc]
<1>1. /\ Len(stack) \in 1 .. Len(stack)
      /\ stack[Len(stack)] \in Activation
  BY StackTop, LenProperties DEF Top
<1>2. e \in Activation /\ e.irq = stack[Len(stack)].irq /\ e.pc = pc
  BY <1>1 DEF Activation
<1>3. stack' = [stack EXCEPT ![Len(stack)] = e]
  BY <1>1 DEF Goto
<1>4. /\ stack' \in Seq(Activation) /\ Len(stack') = Len(stack)
      /\ \A j \in 1 .. Len(stack) : stack'[j] = IF j = Len(stack) THEN e ELSE stack[j]
  BY <1>1, <1>2, <1>3, ExceptSeq
<1> QED
  BY <1>2, <1>4, LenProperties

\* Front pops the newest activation.
LEMMA StackFront ==
  ASSUME stack \in Seq(Activation), stack # <<>>, stack' = Front(stack)
  PROVE  /\ stack' \in Seq(Activation)
         /\ Len(stack') = Len(stack) - 1 /\ DOMAIN stack' = 1 .. (Len(stack) - 1)
         /\ \A k \in DOMAIN stack' : k \in DOMAIN stack /\ k # Len(stack) /\ stack'[k] = stack[k]
<1> DEFINE n == Len(stack)
<1>1. n \in Nat \ {0} /\ DOMAIN stack = 1 .. n /\ \A k \in 1 .. n : stack[k] \in Activation
  BY EmptySeq, LenProperties, ElementOfSeq
<1> HIDE DEF n
<1>2. n - 1 \in Int /\ 1 \in Int /\ \A k \in 1 .. (n - 1) : stack[k] \in Activation
  BY <1>1
<1>3. stack' = SubSeq(stack, 1, n - 1)
  BY DEF Front, n
<1>4. /\ stack' \in Seq(Activation)
      /\ Len(stack') = IF 1 <= n - 1 THEN n - 1 - 1 + 1 ELSE 0
      /\ \A k \in 1 .. (n - 1 - 1 + 1) : stack'[k] = stack[1 + k - 1]
  BY <1>2, <1>3, SubSeqProperties
<1>5. Len(stack') = n - 1
  BY <1>1, <1>4
<1>6. DOMAIN stack' = 1 .. (n - 1)
  BY <1>4, <1>5, LenProperties
<1>7. ASSUME NEW k \in 1 .. (n - 1)
      PROVE  stack'[k] = stack[k] /\ k \in 1 .. n /\ k # n
  <2>1. k \in 1 .. (n - 1 - 1 + 1) /\ 1 + k - 1 = k
    BY <1>1
  <2> QED
    BY <1>1, <1>4, <2>1
<1> QED
  BY <1>1, <1>4, <1>5, <1>6, <1>7 DEF n

LEMMA StackPush ==
  ASSUME stack \in Seq(Activation), NEW a \in Activation, stack' = Append(stack, a)
  PROVE  /\ stack' \in Seq(Activation)
         /\ Len(stack') = Len(stack) + 1 /\ DOMAIN stack' = 1 .. (Len(stack) + 1)
         /\ DOMAIN stack = 1 .. Len(stack)
         /\ \A k \in DOMAIN stack' : stack'[k] = IF k \in DOMAIN stack THEN stack[k] ELSE a
BY AppendProperties, LenProperties

-----------------------------------------------------------------------------
(* main's tests. *)

\* The tests of a program are different keys.
LEMMA TestsDiffer ==
  ASSUME NEW p \in Programs
  PROVE  /\ MainTests[p] \in Seq({"d", "e", "g", "s"})
         /\ Len(MainTests[p]) \in Nat \ {0}
         /\ DOMAIN MainTests[p] = 1 .. Len(MainTests[p])
         /\ 1 \in DOMAIN MainTests[p] /\ MainTests[p][1] \in {"d", "e", "g", "s"}
         /\ \A k \in DOMAIN MainTests[p] : MainTests[p][k] \in {"d", "e", "g", "s"}
         /\ \A j, k \in DOMAIN MainTests[p] : MainTests[p][j] = MainTests[p][k] => j = k
<1>1. p \in {"c07e1", "c07e2", "c07e3"}
  BY KeyAssumption
<1>2. CASE p = "c07e1"
  <2>1. MainTests[p] = <<"d", "e">>
    BY <1>2 DEF MainTests
  <2> QED  BY <2>1
<1>3. CASE p = "c07e2"
  <2>1. MainTests[p] = <<"d", "e", "s">>
    BY <1>3 DEF MainTests
  <2> QED  BY <2>1
<1>4. CASE p = "c07e3"
  <2>1. MainTests[p] = <<"d", "e", "g", "s">>
    BY <1>4 DEF MainTests
  <2> QED  BY <2>1
<1> QED
  BY <1>1, <1>2, <1>3, <1>4

\* The keys are none of the marks kept in `ch' and the register.
LEMMA KeysAreKeys == None \notin Keys /\ NoCopy \notin Keys /\ None # NoCopy
BY KeyAssumption DEF None, NoCopy

\* A test that main passes is for a key, and one it goes on to is a test or the end.
LEMMA TestPasses ==
  ASSUME TypeOK, NEW k \in DOMAIN MainTests[program]
  PROVE  /\ \A v \in Loads : v \in Keys \cup {None}
         /\ \A v \in Loads : v = MainTests[program][k] => v \in Keys
         /\ AfterTest(k) \in {"d", "e", "g", "s", "clear"}
         /\ AfterTest(k) # "clear" =>
              k + 1 \in DOMAIN MainTests[program] /\ AfterTest(k) = MainTests[program][k + 1]
         /\ AfterTest(k) = "clear" => k = Len(MainTests[program])
         /\ MainTests[program][k] \in {"d", "e", "g", "s"}
<1>1. \A v \in Loads : v \in Keys \cup {None}
  BY DEF TypeOK, Loads
<1>2. /\ DOMAIN MainTests[program] = 1 .. Len(MainTests[program])
      /\ Len(MainTests[program]) \in Nat
      /\ \A j \in DOMAIN MainTests[program] : MainTests[program][j] \in {"d", "e", "g", "s"}
  BY TestsDiffer DEF TypeOK
<1>3. \A v \in Loads : v = MainTests[program][k] => v \in Keys
  BY <1>1, <1>2 DEF None
<1>4. k # Len(MainTests[program]) => k + 1 \in DOMAIN MainTests[program]
  BY <1>2
<1> QED
  BY <1>1, <1>2, <1>3, <1>4 DEF AfterTest

\* What a test does: main obeys the key it loads, or keeps it in the register.
LEMMA TestCases ==
  ASSUME TypeOK, NEW k \in DOMAIN MainTests[program], MainTest(k)
  PROVE  \E v \in Loads :
           \/ /\ v = MainTests[program][k] /\ v \in Keys
              /\ enabled' = Obey(v) /\ reg' = NoCopy
              /\ done' = Append(done, v) /\ done' \in Seq(Keys)
           \/ /\ v # MainTests[program][k]
              /\ reg' = v /\ enabled' = enabled /\ done' = done
<1>1. PICK v \in Loads :
        IF v = MainTests[program][k]
        THEN enabled' = Obey(v) /\ done' = Append(done, v) /\ reg' = NoCopy
        ELSE reg' = v /\ UNCHANGED <<enabled, done>>
  BY DEF MainTest
<1>2. CASE v = MainTests[program][k]
  <2>1. v \in Keys /\ done \in Seq(Keys)
    BY <1>2, TestPasses DEF TypeOK
  <2>2. Append(done, v) \in Seq(Keys)
    BY <2>1, AppendProperties
  <2> QED
    BY <1>1, <1>2, <2>1, <2>2
<1>3. CASE v # MainTests[program][k]
  BY <1>1, <1>3
<1> QED
  BY <1>2, <1>3

-----------------------------------------------------------------------------
(* Types. *)

\* The next key of the library: the first it holds, or the first that is ready.
LEMMA GetcharTakes ==
  ASSUME TypeOK, Getchar
  PROVE  \E have \in Seq(Keys) :
           /\ have = IF stdin = <<>> THEN tty ELSE stdin
           /\ have # <<>>
           /\ Head(have) \in Keys /\ Tail(have) \in Seq(Keys)
           /\ ch' = Head(have) /\ stdin' = Tail(have) /\ given' = Append(given, Head(have))
           /\ tty' = IF stdin = <<>> THEN <<>> ELSE tty
<1> DEFINE have == IF stdin = <<>> THEN tty ELSE stdin
<1>1. have \in Seq(Keys) /\ have # <<>>
  BY DEF TypeOK, Getchar
<1>2. Head(have) \in Keys /\ Tail(have) \in Seq(Keys)
  BY <1>1, HeadTailProperties
<1> QED
  BY <1>1, <1>2 DEF Getchar

LEMMA TypeStep ==
  ASSUME TypeOK, [Next]_vars
  PROVE  TypeOK'
<1> USE DEF TypeOK
<1>1. ASSUME NEW k \in Keys, Type(k)
      PROVE  TypeOK'
  BY <1>1, AppendProperties DEF Type, Shared, MainState
<1>2. CASE Fire
  BY <1>2 DEF Fire, Shared, MainState, History
<1>3. ASSUME NEW irq \in IRQ, TakeIrq(irq)
      PROVE  TypeOK'
  <2>1. [irq |-> irq, pc |-> "enter"] \in Activation
    BY DEF Activation
  <2>2. stack' \in Seq(Activation)
    BY <1>3, <2>1, AppendProperties DEF TakeIrq
  <2> QED
    BY <1>3, <2>2 DEF TakeIrq, Shared, MainState, History
<1>4. CASE Handler
  <2>1. CASE Getchar
    <3>1. stack' \in Seq(Activation)
      BY <2>1, StackGoto DEF Getchar, At
    <3>2. ch' \in Keys /\ stdin' \in Seq(Keys) /\ tty' \in Seq(Keys) /\ given' \in Seq(Keys)
      <4> PICK have \in Seq(Keys) :
            /\ Head(have) \in Keys /\ Tail(have) \in Seq(Keys)
            /\ ch' = Head(have) /\ stdin' = Tail(have) /\ given' = Append(given, Head(have))
            /\ tty' = IF stdin = <<>> THEN <<>> ELSE tty
        BY <2>1, GetcharTakes
      <4> QED
        BY AppendProperties, EmptySeq
    <3> QED
      BY <2>1, <3>1, <3>2 DEF Getchar, MainState
  <2>2. CASE KeyArms
    <3>1. stack' \in Seq(Activation)
      BY <2>2, StackGoto DEF KeyArms, At
    <3> QED
      BY <2>2, <3>1 DEF KeyArms, MainState, History
  <2>3. CASE KeyFlags
    <3>1. stack' \in Seq(Activation)
      BY <2>3, StackGoto DEF KeyFlags, At
    <3> QED
      BY <2>3, <3>1 DEF KeyFlags, Device, MainState, History
  <2>4. CASE KeyOther
    <3>1. stack' \in Seq(Activation)
      BY <2>4, StackGoto DEF KeyOther, At
    <3> QED
      BY <2>4, <3>1 DEF KeyOther, Device, MainState, History
  <2>5. CASE ClearTimer
    <3>1. stack' \in Seq(Activation)
      BY <2>5, StackGoto DEF ClearTimer, At
    <3> QED
      BY <2>5, <3>1 DEF ClearTimer, goldfish_clear_alarm, goldfish_clear_timer_int, Shared, MainState, History
  <2>6. CASE TimerUnflags
    <3>1. stack' \in Seq(Activation)
      BY <2>6, StackGoto DEF TimerUnflags, At
    <3> QED
      BY <2>6, <3>1 DEF TimerUnflags, Device, MainState, History
  <2>7. CASE Return
    <3>1. stack' \in Seq(Activation) /\ Top \in Activation
      BY <2>7, StackFront, StackTop DEF Return
    <3>2. enabled' \subseteq IRQ
      BY <2>7, <3>1 DEF Return, Activation
    <3> QED
      BY <2>7, <3>1, <3>2 DEF Return, Shared, MainState, History
  <2> QED
    BY <1>4, <2>1, <2>2, <2>3, <2>4, <2>5, <2>6, <2>7 DEF Handler
<1>5. CASE Main
  <2> USE DEF MainOnly
  <2>1. CASE MainStart
    BY <2>1 DEF MainStart, IRQ, MainPC
  <2>2. CASE MainTop
    <3>1. MainTests[program][1] \in MainPC
      BY TestsDiffer DEF MainPC
    <3> QED
      BY <2>2, <3>1 DEF MainTop, Loads, MainPC
  <2>3. CASE MainClear
    BY <2>3 DEF MainClear, MainPC
  <2>4. CASE MainDelay
    BY <2>4 DEF MainDelay, MainPC
  <2>5. ASSUME NEW k \in DOMAIN MainTests[program], MainTest(k)
        PROVE  TypeOK'
    <3>1. mpc' \in MainPC
      BY <2>5, TestPasses DEF MainTest, MainPC
    <3>2. reg' \in Keys \cup {None, NoCopy}
      BY <2>5, TestPasses DEF MainTest
    <3>3. enabled' \subseteq IRQ
      BY <2>5 DEF MainTest, Obey, IRQ
    <3>4. done' \in Seq(Keys)
      BY <2>5, TestCases
    <3> QED
      BY <2>5, <3>1, <3>2, <3>3, <3>4 DEF MainTest
  <2> QED
    BY <1>5, <2>1, <2>2, <2>3, <2>4, <2>5 DEF Main
<1>6. CASE UNCHANGED vars
  BY <1>6 DEF vars
<1> QED
  BY <1>1, <1>2, <1>3, <1>4, <1>5, <1>6 DEF Next, World

-----------------------------------------------------------------------------
(* Nesting and KeyWaits. *)

\* Only the dispatcher pushes and pops; a handler that moves on keeps its number.
LEMMA GotoNesting ==
  ASSUME TypeOK, Nesting, stack # <<>>, enabled' = enabled, program' = program,
         NEW pc \in {"enter", "test", "flag", "exit"}, Goto(pc)
  PROVE  Nesting'
BY StackGoto DEF TypeOK, Nesting

\* A step to a later point of the newest activation leaves the keys of the others.
LEMMA GotoKeyWaits ==
  ASSUME TypeOK, KeyWaits, stack # <<>>, stdin' = stdin, tty' = tty,
         NEW pc \in {"test", "flag", "exit"}, Goto(pc)
  PROVE  KeyWaits'
BY StackGoto DEF TypeOK, KeyWaits

\* No activation shares its number, and each has the key it was called for: an
\* activation below Getchar's cannot be of TTY2.
LEMMA NestingStep ==
  ASSUME TypeOK, Nesting, KeyWaits, [Next]_vars
  PROVE  Nesting' /\ KeyWaits'
<1>1. ASSUME NEW k \in Keys, Type(k)
      PROVE  Nesting' /\ KeyWaits'
  <2>1. tty' # <<>>
    BY <1>1, AppendProperties DEF TypeOK, Type
  <2> QED
    BY <1>1, <2>1 DEF Type, Shared, MainState, Nesting, KeyWaits
<1>2. CASE Fire
  BY <1>2 DEF Fire, Shared, MainState, History, Nesting, KeyWaits
<1>3. ASSUME NEW irq \in IRQ, TakeIrq(irq)
      PROVE  Nesting' /\ KeyWaits'
  <2> DEFINE a == [irq |-> irq, pc |-> "enter"]
  <2>1. a \in Activation /\ a.irq = irq /\ stack' = Append(stack, a) /\ stack \in Seq(Activation)
    BY <1>3 DEF TakeIrq, TypeOK, Activation
  <2> HIDE DEF a
  <2>2. /\ Len(stack') = Len(stack) + 1 /\ DOMAIN stack' = 1 .. (Len(stack) + 1)
        /\ DOMAIN stack = 1 .. Len(stack) /\ Len(stack) \in Nat
        /\ \A k \in DOMAIN stack' : stack'[k] = IF k \in DOMAIN stack THEN stack[k] ELSE a
    BY <2>1, StackPush, LenProperties
  <2>3. irq \in enabled /\ program' = program /\ stdin' = stdin /\ tty' = tty
    BY <1>3 DEF TakeIrq, Presents, MainState
  <2>4. irq = "TTY2" => tty # <<>>
    BY <1>3 DEF TakeIrq, Presents, Line
  <2>5. KeyWaits'
    BY <2>1, <2>2, <2>3, <2>4 DEF KeyWaits
  <2>6. CASE program = "c07e1"
    <3>1. stack = <<>> /\ enabled' = enabled
      BY <1>3, <2>6 DEF TakeIrq, Locked
    <3>2. Len(stack) = 0
      BY <3>1, EmptySeq
    <3> QED
      BY <2>2, <2>3, <2>5, <2>6, <3>2 DEF Nesting
  <2>7. CASE program # "c07e1"
    <3>1. enabled' = enabled \ {irq}
      BY <1>3, <2>7 DEF TakeIrq
    <3>2. \A k \in DOMAIN stack : stack[k].irq # irq
      BY <2>3, <2>7 DEF Nesting
    <3> QED
      BY <2>1, <2>2, <2>3, <2>5, <2>7, <3>1, <3>2 DEF Nesting
  <2> QED
    BY <2>6, <2>7
<1>4. CASE Handler
  <2>1. CASE Getchar
    <3>1. stack # <<>> /\ Goto("test") /\ Top.irq = "TTY2" /\ enabled' = enabled /\ program' = program
      BY <2>1 DEF Getchar, At, MainState
    <3>2. Nesting'
      BY <3>1, GotoNesting
    <3>3. \A k \in DOMAIN stack : stack[k].irq = "TTY2" => k = Len(stack)
      BY <3>1, StackTop DEF TypeOK, Nesting, Top
    <3>4. KeyWaits'
      BY <3>1, <3>3, StackGoto DEF TypeOK, KeyWaits
    <3> QED
      BY <3>2, <3>4
  <2>2. CASE KeyArms
    <3>1. /\ stack # <<>> /\ enabled' = enabled /\ program' = program /\ stdin' = stdin /\ tty' = tty
          /\ \E pc \in {"test", "flag", "exit"} : Goto(pc)
      BY <2>2 DEF KeyArms, At, MainState
    <3> QED
      BY <3>1, GotoNesting, GotoKeyWaits
  <2>3. CASE KeyFlags
    <3>1. /\ stack # <<>> /\ enabled' = enabled /\ program' = program /\ stdin' = stdin /\ tty' = tty
          /\ Goto("exit")
      BY <2>3 DEF KeyFlags, At, Device, MainState
    <3> QED
      BY <3>1, GotoNesting, GotoKeyWaits
  <2>4. CASE KeyOther
    <3>1. /\ stack # <<>> /\ enabled' = enabled /\ program' = program /\ stdin' = stdin /\ tty' = tty
          /\ Goto("exit")
      BY <2>4 DEF KeyOther, At, Device, MainState
    <3> QED
      BY <3>1, GotoNesting, GotoKeyWaits
  <2>5. CASE ClearTimer
    <3>1. /\ stack # <<>> /\ enabled' = enabled /\ program' = program /\ stdin' = stdin /\ tty' = tty
          /\ \E pc \in {"test", "flag", "exit"} : Goto(pc)
      BY <2>5 DEF ClearTimer, At, MainState
    <3> QED
      BY <3>1, GotoNesting, GotoKeyWaits
  <2>6. CASE TimerUnflags
    <3>1. /\ stack # <<>> /\ enabled' = enabled /\ program' = program /\ stdin' = stdin /\ tty' = tty
          /\ Goto("exit")
      BY <2>6 DEF TimerUnflags, At, Device, MainState
    <3> QED
      BY <3>1, GotoNesting, GotoKeyWaits
  <2>7. CASE Return
    <3>1. /\ stack # <<>> /\ stack' = Front(stack) /\ stack \in Seq(Activation)
          /\ program' = program /\ stdin' = stdin /\ tty' = tty
      BY <2>7 DEF Return, MainState, TypeOK
    <3>2. /\ Len(stack) \in DOMAIN stack /\ Top = stack[Len(stack)] /\ Len(stack) \in Nat
          /\ Len(stack') = Len(stack) - 1
          /\ \A k \in DOMAIN stack' : k \in DOMAIN stack /\ k # Len(stack) /\ stack'[k] = stack[k]
      BY <3>1, StackTop, StackFront, LenProperties DEF Top
    <3>3. KeyWaits'
      BY <3>1, <3>2 DEF KeyWaits
    <3>4. program # "c07e1" => \A k \in DOMAIN stack' : stack'[k].irq \notin enabled'
      <4> SUFFICES ASSUME program # "c07e1", NEW k \in DOMAIN stack'
                   PROVE  stack'[k].irq \notin enabled'
        OBVIOUS
      <4>1. enabled' = enabled \cup {Top.irq}
        BY <2>7 DEF Return
      <4>2. stack[k].irq # Top.irq
        BY <3>2 DEF Nesting
      <4> QED
        BY <3>2, <4>1, <4>2 DEF Nesting
    <3> QED
      BY <3>1, <3>2, <3>3, <3>4 DEF Nesting
  <2> QED
    BY <1>4, <2>1, <2>2, <2>3, <2>4, <2>5, <2>6, <2>7 DEF Handler
<1>5. CASE Main
  <2>1. /\ stack = <<>> /\ stack' = stack /\ stdin' = stdin /\ tty' = tty /\ program' = program
    BY <1>5 DEF Main, MainStart, MainTop, MainClear, MainDelay, MainTest, MainAt, MainOnly
  <2>2. DOMAIN stack = {} /\ Len(stack) = 0
    BY <2>1, EmptySeq, LenProperties DEF TypeOK
  <2> QED
    BY <2>1, <2>2 DEF Nesting, KeyWaits
<1>6. CASE UNCHANGED vars
  BY <1>6 DEF vars, Nesting, KeyWaits
<1> QED
  BY <1>1, <1>2, <1>3, <1>4, <1>5, <1>6 DEF Next, World

-----------------------------------------------------------------------------
(* Keys. *)

\* No key is lost or overtaken on its way to `ch'.
LEMMA KeysStep ==
  ASSUME TypeOK, KeysInOrder, [Next]_vars
  PROVE  KeysInOrder'
<1> DEFINE front == given \o stdin
<1>1. ASSUME NEW k \in Keys, Type(k)
      PROVE  KeysInOrder'
  <2>1. /\ tty' = Append(tty, k) /\ typed' = Append(typed, k) /\ given' = given /\ stdin' = stdin
    BY <1>1 DEF Type
  <2>2. front \in Seq(Keys) /\ tty \in Seq(Keys) /\ front \o tty \in Seq(Keys) /\ <<k>> \in Seq(Keys)
    BY ConcatProperties DEF TypeOK
  <2> HIDE DEF front
  <2>3. front \o Append(tty, k) = Append(front \o tty, k)
    BY <2>2, AppendIsConcat, ConcatAssociative
  <2> QED
    BY <2>1, <2>3 DEF KeysInOrder, front
<1>2. CASE Getchar
  <2> PICK have \in Seq(Keys) :
        /\ have = IF stdin = <<>> THEN tty ELSE stdin
        /\ have # <<>>
        /\ stdin' = Tail(have) /\ given' = Append(given, Head(have))
        /\ tty' = IF stdin = <<>> THEN <<>> ELSE tty
    BY <1>2, GetcharTakes
  <2>1. given' \o stdin' = given \o have /\ given \o have \in Seq(Keys) /\ given \in Seq(Keys)
    BY MoveHead, ConcatProperties DEF TypeOK
  <2>2. typed' = typed
    BY <1>2 DEF Getchar
  <2>3. CASE stdin = <<>>
    <3>1. given \o stdin = given
      BY <2>1, <2>3, ConcatEmptySeq
    <3>2. (given \o have) \o <<>> = given \o have
      BY <2>1, ConcatEmptySeq
    <3> QED
      BY <2>1, <2>2, <2>3, <3>1, <3>2 DEF KeysInOrder
  <2>4. CASE stdin # <<>>
    BY <2>1, <2>2, <2>4 DEF KeysInOrder
  <2> QED
    BY <2>3, <2>4
<1>3. CASE UNCHANGED <<tty, stdin, typed, given>>
  BY <1>3 DEF KeysInOrder
<1>4. (\E k \in Keys : Type(k)) \/ Getchar \/ UNCHANGED <<tty, stdin, typed, given>>
  BY DEF Next, World, Fire, TakeIrq, Handler, KeyArms, KeyFlags, KeyOther, ClearTimer, TimerUnflags,
     Return, Main, MainStart, MainTop, MainTest, MainClear, MainDelay, MainOnly, vars, Device, History
<1> QED
  BY <1>1, <1>2, <1>3, <1>4

-----------------------------------------------------------------------------
(* The timer's mask. *)

\* Append's effect on Disabled.
LEMMA DisabledAfter ==
  ASSUME done \in Seq(Keys), NEW v \in Keys, done' = Append(done, v)
  PROVE  /\ v = "d" => Disabled'
         /\ v = "e" => ~Disabled'
         /\ v \notin {"d", "e"} => (Disabled' <=> Disabled)
<1> DEFINE n == Len(done)
<1>1. /\ n \in Nat /\ DOMAIN done = 1 .. n
      /\ done' \in Seq(Keys) /\ Len(done') = n + 1
      /\ \A i \in 1 .. n : done'[i] = done[i]
      /\ done'[n + 1] = v
  BY AppendProperties, LenProperties
<1>2. DOMAIN done' = 1 .. (n + 1)
  BY <1>1, LenProperties
<1> HIDE DEF n
<1>3. ASSUME v = "d" PROVE Disabled'
  BY <1>1, <1>2, <1>3 DEF Disabled
<1>4. ASSUME v = "e" PROVE ~Disabled'
  BY <1>1, <1>2, <1>4 DEF Disabled
<1>5. ASSUME v \notin {"d", "e"}, Disabled PROVE Disabled'
  BY <1>1, <1>2, <1>5 DEF Disabled
<1>6. ASSUME v \notin {"d", "e"}, Disabled' PROVE Disabled
  BY <1>1, <1>2, <1>6 DEF Disabled
<1> QED
  BY <1>3, <1>4, <1>5, <1>6

\* The dispatcher and main's 'd' and 'e' keep TIMER's mask paired.
LEMMA MaskStep ==
  ASSUME TypeOK, Nesting, MaskPaired, [Next]_vars
  PROVE  MaskPaired'
<1>1. ASSUME UNCHANGED <<mpc, enabled, stack, done, program>>
      PROVE  MaskPaired'
  BY <1>1 DEF MaskPaired, InService, Disabled
<1>2. ASSUME NEW irq \in IRQ, TakeIrq(irq)
      PROVE  MaskPaired'
  <2> DEFINE a == [irq |-> irq, pc |-> "enter"]
  <2>1. /\ a \in Activation /\ a.irq = irq /\ stack' = Append(stack, a) /\ stack \in Seq(Activation)
        /\ irq \in enabled /\ UNCHANGED <<mpc, done, program>>
        /\ enabled' = IF program = "c07e1" THEN enabled ELSE enabled \ {irq}
    BY <1>2 DEF TakeIrq, Presents, TypeOK, Activation, MainState, History
  <2> HIDE DEF a
  <2>2. /\ DOMAIN stack' = 1 .. (Len(stack) + 1)
        /\ DOMAIN stack = 1 .. Len(stack) /\ Len(stack) \in Nat
        /\ \A k \in DOMAIN stack' : stack'[k] = IF k \in DOMAIN stack THEN stack[k] ELSE a
    BY <2>1, StackPush, LenProperties
  <2>3. mpc # "start" /\ ("TIMER" \in enabled \/ InService("TIMER") <=> ~Disabled) /\ (Disabled' <=> Disabled)
    BY <2>1 DEF MaskPaired, Disabled
  <2>4. CASE program = "c07e1"
    BY <2>1, <2>3, <2>4 DEF MaskPaired, InService
  <2>5. CASE program # "c07e1"
    <3>1. InService("TIMER")' <=> InService("TIMER") \/ irq = "TIMER"
      BY <2>1, <2>2, <2>5 DEF InService
    <3> QED
      BY <2>1, <2>3, <2>5, <3>1 DEF MaskPaired
  <2> QED
    BY <2>4, <2>5
<1>3. CASE Return
  <2>1. /\ stack # <<>> /\ stack' = Front(stack) /\ stack \in Seq(Activation)
        /\ UNCHANGED <<mpc, done, program>>
        /\ enabled' = IF program = "c07e1" THEN enabled ELSE enabled \cup {Top.irq}
    BY <1>3 DEF Return, MainState, History, TypeOK
  <2>2. /\ Len(stack) \in DOMAIN stack /\ Top = stack[Len(stack)] /\ Len(stack) \in Nat
        /\ DOMAIN stack = 1 .. Len(stack) /\ DOMAIN stack' = 1 .. (Len(stack) - 1)
        /\ \A k \in DOMAIN stack' : k \in DOMAIN stack /\ k # Len(stack) /\ stack'[k] = stack[k]
    BY <2>1, StackTop, StackFront, LenProperties DEF Top
  <2>3. mpc # "start" /\ ("TIMER" \in enabled \/ InService("TIMER") <=> ~Disabled) /\ (Disabled' <=> Disabled)
    BY <2>1 DEF MaskPaired, Disabled
  <2>4. CASE program = "c07e1"
    BY <2>1, <2>3, <2>4 DEF MaskPaired, InService
  <2>5. CASE program # "c07e1"
    <3>1. InService("TIMER") <=> InService("TIMER")' \/ Top.irq = "TIMER"
      BY <2>1, <2>2, <2>5 DEF InService
    <3> QED
      BY <2>1, <2>3, <2>5, <3>1 DEF MaskPaired
  <2> QED
    BY <2>4, <2>5
<1>4. ASSUME UNCHANGED <<mpc, enabled, done, program>>, stack # <<>>,
             NEW pc \in {"enter", "test", "flag", "exit"}, Goto(pc)
      PROVE  MaskPaired'
  <2>1. InService("TIMER")' <=> InService("TIMER")
    BY <1>4, StackGoto DEF InService, TypeOK
  <2> QED
    BY <1>4, <2>1 DEF MaskPaired, Disabled
<1>5. CASE Main
  <2>1. stack = <<>> /\ stack' = stack /\ program' = program
    BY <1>5 DEF Main, MainStart, MainTop, MainClear, MainDelay, MainTest, MainAt, MainOnly
  <2>2. ~InService("TIMER") /\ ~InService("TIMER")'
    BY <2>1, EmptySeq, LenProperties DEF TypeOK, InService
  <2>3. CASE MainStart
    <3>1. CASE mpc = "start"
      <4>1. enabled' = {"TIMER"} /\ mpc' = "tty2" /\ done' = <<>>
        BY <2>3, <3>1 DEF MainStart, MainAt, MaskPaired
      <4>2. ~Disabled'
        BY <4>1 DEF Disabled
      <4> QED
        BY <4>1, <4>2 DEF MaskPaired
    <3>2. CASE mpc = "tty2"
      <4>1. enabled' = enabled \cup {"TTY2"} /\ mpc' = "top" /\ done' = done
        BY <2>3, <3>2 DEF MainStart, MainAt
      <4> QED
        BY <2>2, <3>2, <4>1 DEF MaskPaired, Disabled
    <3> QED
      BY <2>3, <3>1, <3>2 DEF MainStart, MainAt
  <2>4. CASE MainTop \/ MainClear \/ MainDelay
    <3>1. mpc # "start" /\ mpc' # "start" /\ UNCHANGED <<enabled, done>>
      <4>1. MainTests[program][1] # "start"
        BY TestsDiffer DEF TypeOK
      <4> QED
        BY <2>4, <4>1 DEF MainTop, MainClear, MainDelay, MainAt
    <3> QED
      BY <2>2, <3>1 DEF MaskPaired, Disabled
  <2>5. ASSUME NEW k \in DOMAIN MainTests[program], MainTest(k)
        PROVE  MaskPaired'
    <3>1. mpc # "start" /\ mpc' # "start"
      BY <2>5, TestPasses DEF MainTest, MainAt
    <3>2. PICK v \in Loads :
            \/ /\ v = MainTests[program][k] /\ v \in Keys /\ enabled' = Obey(v)
               /\ done' = Append(done, v)
            \/ enabled' = enabled /\ done' = done
      BY <2>5, TestCases
    <3>3. CASE enabled' = enabled /\ done' = done
      BY <2>2, <3>1, <3>3 DEF MaskPaired, Disabled
    <3>4. CASE v \in Keys /\ enabled' = Obey(v) /\ done' = Append(done, v)
      <4>1. /\ v = "d" => Disabled'
            /\ v = "e" => ~Disabled'
            /\ v \notin {"d", "e"} => (Disabled' <=> Disabled)
        BY <3>4, DisabledAfter DEF TypeOK
      <4>2. /\ v = "d" => "TIMER" \notin enabled'
            /\ v = "e" => "TIMER" \in enabled'
            /\ v \notin {"d", "e"} => enabled' = enabled
        BY <3>4 DEF Obey
      <4> QED
        BY <2>2, <3>1, <4>1, <4>2 DEF MaskPaired
    <3> QED
      BY <3>2, <3>3, <3>4
  <2> QED
    BY <1>5, <2>3, <2>4, <2>5 DEF Main
<1>6. CASE Handler
  <2>1. CASE Return
    BY <1>3, <2>1
  <2>2. CASE Getchar \/ KeyArms \/ KeyFlags \/ KeyOther \/ ClearTimer \/ TimerUnflags
    <3>1. /\ UNCHANGED <<mpc, enabled, done, program>> /\ stack # <<>>
          /\ \E pc \in {"enter", "test", "flag", "exit"} : Goto(pc)
      BY <2>2 DEF Getchar, KeyArms, KeyFlags, KeyOther, ClearTimer, TimerUnflags, At, Device,
         MainState, History
    <3> QED
      BY <1>4, <3>1
  <2> QED
    BY <1>6, <2>1, <2>2 DEF Handler
<1>7. CASE World
  BY <1>1, <1>7 DEF World, Type, Fire, MainState, History
<1>8. CASE UNCHANGED vars
  BY <1>1, <1>8 DEF vars
<1> QED
  BY <1>2, <1>5, <1>6, <1>7, <1>8 DEF Next

-----------------------------------------------------------------------------
(* The order of obeying. *)

\* Outside its tests main has none of them behind it.
LEMMA NotPast ==
  ASSUME TypeOK, mpc \in {"start", "tty2", "top", "delay"}, NEW v
  PROVE  ~Past(v)
BY TestsDiffer DEF TypeOK, Past

\* At a test, that test is not behind; after it, it is, and so are those before it.
LEMMA PastTest ==
  ASSUME TypeOK, NEW k \in DOMAIN MainTests[program], mpc = MainTests[program][k],
         mpc' = AfterTest(k), program' = program, NEW key, key = MainTests[program][k]
  PROVE  /\ ~Past(key)
         /\ Past(key)'
         /\ \A v : Past(v) => Past(v)'
<1> DEFINE t == MainTests[program]
<1>1. /\ DOMAIN t = 1 .. Len(t) /\ Len(t) \in Nat
      /\ \A i, j \in DOMAIN t : t[i] = t[j] => i = j
      /\ t[k] # "clear" /\ k \in DOMAIN t /\ mpc = t[k]
  BY TestsDiffer DEF TypeOK
<1>2. \/ mpc' = "clear"
      \/ k + 1 \in DOMAIN t /\ mpc' = t[k + 1]
  BY TestPasses
<1>3. \A v : Past(v)' <=> (\/ mpc' = "clear"
                           \/ \E i, j \in DOMAIN t : t[i] = v /\ t[j] = mpc' /\ i < j)
  BY DEF Past
<1>4. \A v : Past(v) <=> \E i \in DOMAIN t : t[i] = v /\ i < k
  BY <1>1 DEF Past
<1> HIDE DEF t
<1>5. ~Past(key)
  BY <1>1, <1>4 DEF t
<1>6. \A v : (\E i \in DOMAIN t : t[i] = v /\ i <= k) => Past(v)'
  BY <1>1, <1>2, <1>3
<1>7. t[k] = key /\ k <= k
  BY <1>1 DEF t
<1>8. Past(key)'
  BY <1>1, <1>6, <1>7
<1>9. ASSUME NEW v, Past(v)
      PROVE  Past(v)'
  BY <1>1, <1>4, <1>6, <1>9
<1> QED
  BY <1>5, <1>8, <1>9

\* A turn of main, a new key and an interrupt leave what was obeyed in order.
LEMMA OrderStep ==
  ASSUME TypeOK, OrderKept, [Next]_vars
  PROVE  OrderKept'
<1>0. PICK n \in Nat, m \in Nat :
      /\ n = Len(done) /\ m = Len(given) /\ DOMAIN done = 1 .. n /\ DOMAIN given = 1 .. m
      /\ (done = <<>> <=> n = 0) /\ (given # <<>> => m \in DOMAIN given)
  BY LenProperties, EmptySeq DEF TypeOK
<1> PICK f \in [DOMAIN done -> DOMAIN given] : Order(f)
  BY DEF OrderKept
<1>1. ASSUME UNCHANGED <<ch, reg, mpc, given, done, program>>
      PROVE  OrderKept'
  <2>1. Order(f)'
    BY <1>1 DEF Order, Unspent, Past
  <2> QED
    BY <1>1, <2>1 DEF OrderKept
<1>2. CASE Getchar
  <2>1. PICK c \in Keys : ch' = c /\ given' = Append(given, c)
    BY <1>2, GetcharTakes
  <2>2. UNCHANGED <<reg, mpc, done, program>>
    BY <1>2 DEF Getchar, MainState
  <2>a. /\ given' \in Seq(Keys) /\ Len(given') = m + 1 /\ given' # <<>>
        /\ \A i \in 1 .. m : given'[i] = given[i]
        /\ given'[m + 1] = c
    BY <1>0, <2>1, AppendProperties DEF TypeOK
  <2>3. DOMAIN given' = 1 .. (m + 1)
    BY <2>a, LenProperties
  <2>4. f \in [DOMAIN done' -> DOMAIN given']
    BY <1>0, <2>2, <2>3
  <2>5. \A p \in DOMAIN given : Unspent(f, p) => Unspent(f, p)'
    BY <1>0, <2>2, <2>a DEF Unspent, Past
  <2>6. Unspent(f, Len(given))'
    <3>1. done # <<>> => f[n] \in 1 .. m
      BY <1>0
    <3>2. done # <<>> => f[n] < Len(given')
      BY <1>0, <2>a, <3>1
    <3> QED
      BY <1>0, <2>2, <3>2 DEF Unspent
  <2>7. Order(f)'
    <3>1. \A a, b \in DOMAIN done' : given'[f[a]] = done'[a] /\ (a < b => f[a] < f[b])
      BY <1>0, <2>2, <2>a DEF Order
    <3>2. given' # <<>> /\ ch' = given'[Len(given')]
      BY <1>0, <2>1, <2>a
    <3>3. reg' \in Keys => \E p \in DOMAIN given' : reg' = given'[p] /\ Unspent(f, p)'
      BY <1>0, <2>2, <2>a, <2>3, <2>5 DEF Order
    <3>4. mpc' \in {"start", "tty2", "top", "delay"} => reg' \notin Keys
      BY <2>2 DEF Order
    <3> QED
      BY <2>6, <3>1, <3>2, <3>3, <3>4 DEF Order
  <2> QED
    BY <2>4, <2>7 DEF OrderKept
<1>3. CASE Main
  <2>0. given' = given /\ program' = program
    BY <1>3 DEF Main, MainStart, MainTop, MainClear, MainDelay, MainTest, MainOnly
  <2>1. ASSUME mpc \in {"start", "tty2", "top", "delay"}, NEW p, Unspent(f, p), done' = done
        PROVE  Unspent(f, p)'
    BY <2>0, <2>1, NotPast DEF Unspent
  <2>2. CASE MainStart \/ MainDelay
    <3>1. /\ mpc \in {"start", "tty2", "top", "delay"} /\ UNCHANGED <<ch, done>>
          /\ reg' \notin Keys
      BY <2>2, KeysAreKeys DEF MainStart, MainDelay, MainAt, Order
    <3>2. Order(f)'
      BY <2>0, <2>1, <3>1 DEF Order
    <3> QED
      BY <2>0, <3>1, <3>2 DEF OrderKept
  <2>3. CASE MainTop
    <3>1. PICK v \in Loads :
            /\ mpc' = IF v # None THEN MainTests[program][1] ELSE "delay"
            /\ reg' = IF program = "c07e3" THEN v ELSE NoCopy
      BY <2>3 DEF MainTop
    <3>2. mpc = "top" /\ UNCHANGED <<ch, done>>
      BY <2>3 DEF MainTop, MainAt
    <3>3. v \in Keys => v = ch
      BY <3>2 DEF Loads, Order
    <3>4. reg' \in Keys => reg' = ch /\ v # None
      BY <3>1, <3>3, KeysAreKeys
    <3>5. mpc' \in {"start", "tty2", "top", "delay"} => v = None
      BY <3>1, TestsDiffer DEF TypeOK
    <3>6. Order(f)'
      <4>1. \A a, b \in DOMAIN done' : given'[f[a]] = done'[a] /\ (a < b => f[a] < f[b])
        BY <2>0, <3>2 DEF Order
      <4>2. ch' # None => given' # <<>> /\ ch' = given'[Len(given')] /\ Unspent(f, Len(given))'
        BY <2>0, <2>1, <3>2 DEF Order
      <4>3. reg' \in Keys => \E p \in DOMAIN given' : reg' = given'[p] /\ Unspent(f, p)'
        BY <1>0, <2>0, <3>2, <3>4, <4>2, KeysAreKeys
      <4>4. mpc' \in {"start", "tty2", "top", "delay"} => reg' \notin Keys
        BY <3>4, <3>5
      <4> QED
        BY <4>1, <4>2, <4>3, <4>4 DEF Order
    <3> QED
      BY <2>0, <3>2, <3>6 DEF OrderKept
  <2>4. CASE MainClear
    <3>1. ch' = None /\ reg' \notin Keys /\ done' = done
      BY <2>4, KeysAreKeys DEF MainClear
    <3>2. Order(f)'
      BY <2>0, <3>1 DEF Order
    <3> QED
      BY <2>0, <3>1, <3>2 DEF OrderKept
  <2>5. ASSUME NEW k \in DOMAIN MainTests[program], MainTest(k)
        PROVE  OrderKept'
    <3> PICK key : key = MainTests[program][k]
      OBVIOUS
    <3>1. mpc = key /\ mpc' = AfterTest(k) /\ ch' = ch
      BY <2>5 DEF MainTest, MainAt
    <3>2. /\ ~Past(key) /\ Past(key)' /\ \A x : Past(x) => Past(x)'
      BY <2>0, <3>1, PastTest
    <3>3. mpc' \notin {"start", "tty2", "top", "delay"}
      BY <3>1, TestPasses
    <3>4. PICK v \in Loads :
           \/ /\ v = key /\ v \in Keys /\ reg' = NoCopy
              /\ done' = Append(done, v) /\ done' \in Seq(Keys)
           \/ v # key /\ reg' = v /\ done' = done
      BY <2>5, TestCases
    <3>5. v \in Keys => \E p \in DOMAIN given : v = given[p] /\ Unspent(f, p)
      BY <1>0, KeysAreKeys DEF Loads, Order
    <3>6. CASE v # key /\ reg' = v /\ done' = done
      <4>1. \A p : Unspent(f, p) => Unspent(f, p)'
        BY <2>0, <3>2, <3>6 DEF Unspent
      <4>2. Order(f)'
        BY <2>0, <3>1, <3>3, <3>5, <3>6, <4>1 DEF Order
      <4> QED
        BY <2>0, <3>6, <4>2 DEF OrderKept
    <3>7. CASE v = key /\ v \in Keys /\ reg' = NoCopy /\ done' = Append(done, v) /\ done' \in Seq(Keys)
      <4>1. PICK p \in DOMAIN given : v = given[p] /\ Unspent(f, p)
        BY <3>5, <3>7
      <4>2. done # <<>> => f[n] < p
        BY <1>0, <3>2, <3>7, <4>1 DEF Unspent
      <4>a. /\ Len(done') = n + 1 /\ done' # <<>>
            /\ \A i \in 1 .. n : done'[i] = done[i]
            /\ done'[n + 1] = v
        BY <1>0, <3>7, AppendProperties DEF TypeOK
      <4>3. DOMAIN done' = 1 .. (n + 1)
        BY <3>7, <4>a, LenProperties
      <4>4. PICK g \in [DOMAIN done' -> DOMAIN given'] : g[n + 1] = p /\ \A i \in 1 .. n : g[i] = f[i]
        <5> DEFINE h == [i \in 1 .. (n + 1) |-> IF i = n + 1 THEN p ELSE f[i]]
        <5>1. h \in [DOMAIN done' -> DOMAIN given'] /\ h[n + 1] = p /\ \A i \in 1 .. n : h[i] = f[i]
          BY <1>0, <2>0, <4>3
        <5> QED
          BY <5>1
      <4>5. \A a \in DOMAIN done' : given'[g[a]] = done'[a]
        BY <1>0, <2>0, <3>7, <4>1, <4>a, <4>3, <4>4 DEF Order
      <4>6. \A a, b \in DOMAIN done' : a < b => g[a] < g[b]
        <5> SUFFICES ASSUME NEW a \in 1 .. (n + 1), NEW b \in 1 .. (n + 1), a < b
                     PROVE  g[a] < g[b]
          BY <4>3
        <5>1. a \in 1 .. n /\ g[a] = f[a] /\ f[a] \in 1 .. m
          BY <1>0, <4>4
        <5>2. CASE b \in 1 .. n
          BY <1>0, <4>4, <5>1, <5>2 DEF Order
        <5>3. CASE b = n + 1
          <6>1. n \in 1 .. n /\ f[n] < p /\ f[n] \in 1 .. m /\ p \in 1 .. m
            BY <1>0, <4>2, <5>1
          <6>2. a = n \/ a < n
            BY <1>0, <5>1
          <6>3. a = n \/ f[a] < f[n]
            BY <1>0, <5>1, <6>1, <6>2 DEF Order
          <6> QED
            BY <4>4, <5>1, <5>3, <6>1, <6>3
        <5> QED
          BY <1>0, <5>2, <5>3
      <4>7. Unspent(g, Len(given))'
        <5>1. p = m \/ p < m
          BY <1>0
        <5>2. g[Len(done')] = p
          BY <4>a, <4>4
        <5>3. p = m => Past(given[m])'
          BY <2>0, <3>2, <3>7, <4>1
        <5> QED
          BY <1>0, <2>0, <4>a, <5>1, <5>2, <5>3 DEF Unspent
      <4>8. Order(g)'
        <5>1. ch' # None => given' # <<>> /\ ch' = given'[Len(given')]
          BY <2>0, <3>1 DEF Order
        <5>2. reg' \notin Keys
          BY <3>7, KeysAreKeys
        <5> QED
          BY <4>5, <4>6, <4>7, <5>1, <5>2 DEF Order
      <4> QED
        BY <4>4, <4>8 DEF OrderKept
    <3> QED
      BY <3>4, <3>6, <3>7
  <2> QED
    BY <1>3, <2>2, <2>3, <2>4, <2>5 DEF Main
<1>4. Getchar \/ Main \/ UNCHANGED <<ch, reg, mpc, given, done, program>>
  BY DEF Next, World, Type, Fire, TakeIrq, Handler, KeyArms, KeyFlags, KeyOther, ClearTimer, TimerUnflags,
     Return, vars, Device, Shared, MainState, History
<1> QED
  BY <1>1, <1>2, <1>3, <1>4

-----------------------------------------------------------------------------
(* The theorems. *)

\* The inductive invariant: keys reach `ch' in order and none is lost, no two
\* activations handle one number, TIMER's mask is paired with main's commands.
THEOREM InvHolds == Spec => []Inv
<1>1. Init => Inv
  <2> SUFFICES ASSUME Init
               PROVE  Inv
    OBVIOUS
  <2> USE DEF Init
  <2>1. TypeOK
    BY EmptySeq DEF TypeOK, MainPC, IRQ
  <2>2. Nesting /\ KeyWaits
    BY EmptySeq DEF Nesting, KeyWaits
  <2>3. KeysInOrder
    BY DEF KeysInOrder
  <2>4. MaskPaired
    BY DEF MaskPaired
  <2>5. OrderKept
    <3> DEFINE f == [x \in {} |-> x]
    <3>1. f \in [DOMAIN done -> DOMAIN given]
      OBVIOUS
    <3>2. Order(f)
      BY KeysAreKeys DEF Order
    <3> QED
      BY <3>1, <3>2 DEF OrderKept
  <2> QED
    BY <2>1, <2>2, <2>3, <2>4, <2>5 DEF Inv
<1>2. Inv /\ [Next]_vars => Inv'
  BY TypeStep, NestingStep, KeysStep, MaskStep, OrderStep DEF Inv
<1> QED
  BY <1>1, <1>2, PTL DEF Spec

\* The handler's getchar finds a key, whatever nests.
THEOREM GetcharFree == Spec => []GetcharNeverBlocks
<1>1. Inv => GetcharNeverBlocks
  BY StackTop DEF Inv, TypeOK, KeyWaits, GetcharNeverBlocks, At, Top
<1> QED
  BY <1>1, InvHolds, PTL

\* main obeys keys in the order of typing and none twice, for every interleaving
\* of the handler with its tests and every use the compiler makes of its copy.
THEOREM ObeyedInOrderHolds == Spec => []ObeyedInOrder
<1>1. Inv => ObeyedInOrder
  BY DEF Inv, OrderKept, Order, ObeyedInOrder
<1> QED
  BY <1>1, InvHolds, PTL

\* Outside interrupts TIMER is masked exactly when main's last switch was 'd'.
THEOREM TimerMaskHolds == Spec => []TimerMaskObeyed
<1>1. Inv => TimerMaskObeyed
  BY EmptySeq, LenProperties DEF Inv, TypeOK, MaskPaired, InService, TimerMaskObeyed
<1> QED
  BY <1>1, InvHolds, PTL
=============================================================================
