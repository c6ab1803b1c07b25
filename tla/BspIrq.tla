------------------------------- MODULE BspIrq -------------------------------
(***************************************************************************)
(* Nested interrupt dispatch: BSP_irq (drivers/isr.c) over the goldfish    *)
(* interrupt controller (drivers/bsp.c), entered by ARM_irq                *)
(* (drivers/arm_exc.S) on the single CPU.                                  *)
(*                                                                         *)
(* One activation of BSP_irq is a frame; its pc names the statement it is  *)
(* about to execute.  BSP_irq masks the number it read at the controller,  *)
(* clears CPSR.I so that other interrupts nest, runs irq_handler, sets     *)
(* CPSR.I, unmasks the number and returns.  Only the newest frame runs;    *)
(* the foreground (main) runs when there is no frame.                      *)
(*                                                                         *)
(* The instructions by which ARM_irq saves and restores the interrupted    *)
(* context are the subject of module ArmExc; here its entry and its return *)
(* are one step each.                                                      *)
(***************************************************************************)
EXTENDS Integers, Sequences, FiniteSets

CONSTANT IRQ    \* the interrupt numbers of the controller

ASSUME IRQAssumption == IRQ \subseteq Nat \ {0} /\ IsFiniteSet(IRQ)

VARIABLES
  line,      \* numbers whose device holds its interrupt line up
  enabled,   \* numbers the controller lets through
  irqOff,    \* CPSR.I: TRUE when the CPU takes no interrupt
  user,      \* main has called EnterUserMode: it can no longer write CPSR.I
  frames,    \* activations of BSP_irq, the oldest first
  wanted     \* history: the numbers main itself has unmasked

vars == <<line, enabled, irqOff, user, frames, wanted>>

(***************************************************************************)
(* The statements of BSP_irq, and the ones before which CPSR.I is clear    *)
(* and before which the frame's number is masked.                          *)
(***************************************************************************)
PC == {"num", "mask", "unlock", "handler", "lock", "unmask", "exit"}
NestingPC == {"handler", "lock"}
MaskedPC == {"unlock", "handler", "lock", "unmask"}

NoIrq == 0      \* the value of `int irq' before, or without, a pending number

Frame == [pc : PC, irq : IRQ \cup {NoIrq}, spsr : BOOLEAN]

Top == frames[Len(frames)]
Below == SubSeq(frames, 1, Len(frames) - 1)
MaskedIrqs == {frames[k].irq : k \in {j \in DOMAIN frames : frames[j].pc \in MaskedPC}}

(***************************************************************************)
(* The controller asserts the CPU's IRQ input while an enabled number is   *)
(* pending, and the CPU takes the interrupt before its next instruction    *)
(* when CPSR.I is clear.                                                   *)
(***************************************************************************)
Pending == line \cap enabled
IrqTaken == ~irqOff /\ Pending # {}

\* GOLDFISH_INTERRUPT_NUMBER: the lowest pending, enabled number.
goldfish_get_irq_num ==
  IF Pending = {} THEN NoIrq ELSE CHOOSE i \in Pending : \A j \in Pending : i <= j

TypeOK ==
  /\ line \subseteq IRQ
  /\ enabled \subseteq IRQ
  /\ irqOff \in BOOLEAN
  /\ user \in BOOLEAN
  /\ frames \in Seq(Frame)
  /\ wanted \subseteq IRQ

\* __cs3_reset leaves the CPU in system mode with CPSR.I and CPSR.F set; the
\* controller comes out of reset with everything disabled.
Init ==
  /\ line = {}
  /\ enabled = {}
  /\ irqOff = TRUE
  /\ user = FALSE
  /\ frames = <<>>
  /\ wanted = {}

-----------------------------------------------------------------------------
(* Devices raise their line at any moment. *)
Raise(i) ==
  /\ i \notin line
  /\ line' = line \cup {i}
  /\ UNCHANGED <<enabled, irqOff, user, frames, wanted>>

-----------------------------------------------------------------------------
(* main, between interrupts. *)
Foreground == frames = <<>> /\ ~IrqTaken

IntLock ==                        \* ARM_INT_LOCK(key)
  /\ Foreground /\ ~user
  /\ irqOff' = TRUE
  /\ UNCHANGED <<line, enabled, user, frames, wanted>>

IntUnlock(key) ==                 \* ARM_INT_UNLOCK(key), key.I = key
  /\ Foreground /\ ~user
  /\ irqOff' = key
  /\ UNCHANGED <<line, enabled, user, frames, wanted>>

EnterUserMode ==
  /\ Foreground /\ ~user
  /\ user' = TRUE
  /\ UNCHANGED <<line, enabled, irqOff, frames, wanted>>

MainUnmask(i) ==                  \* goldfish_unmask_irq(i)
  /\ Foreground
  /\ enabled' = enabled \cup {i}
  /\ wanted' = wanted \cup {i}
  /\ UNCHANGED <<line, irqOff, user, frames>>

MainMask(i) ==                    \* goldfish_mask_irq(i)
  /\ Foreground
  /\ enabled' = enabled \ {i}
  /\ wanted' = wanted \ {i}
  /\ UNCHANGED <<line, irqOff, user, frames>>

MainDisableAll ==                 \* goldfish_disable_all_irq()
  /\ Foreground
  /\ enabled' = {}
  /\ wanted' = {}
  /\ UNCHANGED <<line, irqOff, user, frames>>

MainPoll(i) ==                    \* main quiets the device itself (getc, clear_alarm)
  /\ Foreground
  /\ line' = line \ {i}
  /\ UNCHANGED <<enabled, irqOff, user, frames, wanted>>

-----------------------------------------------------------------------------
(* The interrupt path. *)

\* Mutant: the CPSR is saved after CPSR.I was set.
TakeIrqMutant ==
  /\ IrqTaken
  /\ frames' = Append(frames, [pc |-> "num", irq |-> NoIrq, spsr |-> TRUE])
  /\ irqOff' = TRUE
  /\ UNCHANGED <<line, enabled, user, wanted>>

\* The hardware and the entry half of ARM_irq: the CPSR goes to the frame and
\* CPSR.I is set.
TakeIrq ==
  /\ IrqTaken
  /\ frames' = Append(frames, [pc |-> "num", irq |-> NoIrq, spsr |-> irqOff])
  /\ irqOff' = TRUE
  /\ UNCHANGED <<line, enabled, user, wanted>>

\* The newest frame executes the statement at `from' and goes on to `to'.
Step(from, to) ==
  /\ frames # <<>> /\ ~IrqTaken
  /\ Top.pc = from
  /\ frames' = [frames EXCEPT ![Len(frames)].pc = to]

ReadNum ==
  /\ frames # <<>>
  /\ Top.pc = "num"
  /\ frames' = [frames EXCEPT ![Len(frames)] =
                  [@ EXCEPT !.pc = "mask", !.irq = goldfish_get_irq_num]]
  /\ UNCHANGED <<line, enabled, irqOff, user, wanted>>

\* Mutant: the number is not masked while it is in service.
MaskIrqMutant ==
  /\ Step("mask", "unlock")
  /\ UNCHANGED <<line, enabled, irqOff, user, wanted>>

MaskIrq ==
  /\ Step("mask", "unlock")
  /\ enabled' = enabled \ {Top.irq}
  /\ UNCHANGED <<line, irqOff, user, wanted>>

\* Mutant: handlers run with CPSR.I set, so a lower number can always be first.
AllowNestingMutant ==
  /\ Step("unlock", "handler")
  /\ UNCHANGED <<line, enabled, irqOff, user, wanted>>

AllowNesting ==
  /\ Step("unlock", "handler")
  /\ irqOff' = FALSE
  /\ UNCHANGED <<line, enabled, user, wanted>>

\* Mutant: the handler returns without quieting its device.
irq_handlerMutant ==
  /\ Step("handler", "lock")
  /\ UNCHANGED <<line, enabled, irqOff, user, wanted>>

\* irq_handler quiets the device it was called for; the device may raise its
\* line again before the handler returns.  (Only c08e1's leaves TTY2's line up,
\* c08e1.c:92-94; its main unmasks nothing.)
irq_handler ==
  /\ Step("handler", "lock")
  /\ line' = line \ {Top.irq}
  /\ UNCHANGED <<enabled, irqOff, user, wanted>>

\* Mutant: BSP_irq unmasks the number with CPSR.I still clear.
LockIrqMutant ==
  /\ Step("lock", "unmask")
  /\ UNCHANGED <<line, enabled, irqOff, user, wanted>>

LockIrq ==
  /\ Step("lock", "unmask")
  /\ irqOff' = TRUE
  /\ UNCHANGED <<line, enabled, user, wanted>>

\* Mutant: the number stays masked after its service.
UnmaskIrqMutant ==
  /\ Step("unmask", "exit")
  /\ UNCHANGED <<line, enabled, irqOff, user, wanted>>

\* Mutant: BSP_irq goes on with the next number without looking whether one is pending.
UnmaskIrqLoop ==
  /\ Step("unmask", "num")
  /\ enabled' = enabled \cup ({Top.irq} \ {NoIrq})
  /\ UNCHANGED <<line, irqOff, user, wanted>>

UnmaskIrq ==
  /\ Step("unmask", "exit")
  /\ enabled' = enabled \cup ({Top.irq} \ {NoIrq})
  /\ UNCHANGED <<line, irqOff, user, wanted>>

\* The return half of ARM_irq: the saved CPSR comes back.
Return ==
  /\ frames # <<>>
  /\ Top.pc = "exit"
  /\ irqOff' = Top.spsr
  /\ frames' = Below
  /\ UNCHANGED <<line, enabled, user, wanted>>

BSP_irq == ReadNum \/ MaskIrq \/ AllowNesting \/ irq_handler \/ LockIrq \/ UnmaskIrq

-----------------------------------------------------------------------------
Device == \E i \in IRQ : Raise(i)

Main ==
  \/ IntLock
  \/ \E key \in BOOLEAN : IntUnlock(key)
  \/ EnterUserMode
  \/ \E i \in IRQ : MainUnmask(i) \/ MainMask(i) \/ MainPoll(i)
  \/ MainDisableAll

Interrupt == TakeIrq \/ BSP_irq \/ Return

Next == Device \/ Main \/ Interrupt

Spec == Init /\ [][Next]_vars

\* The CPU does not stop inside the interrupt path.
FairSpec == Spec /\ WF_vars(Interrupt)

-----------------------------------------------------------------------------
(* Properties. *)

\* BSP_irq's "Block the same IRQ before IRQ handler return": whatever nests on
\* whatever, irq_handler is never active twice for one number.
NoReentry ==
  \A j, k \in DOMAIN frames :
    frames[j].pc \in MaskedPC /\ frames[k].pc \in MaskedPC /\ frames[j].irq = frames[k].irq
      => j = k

\* The mask at the controller is at every moment main's own mask less the
\* numbers in service: no nesting of mask and unmask leaves a number disabled
\* that main wants, or enables one that main has disabled.
MaskRestored == enabled = wanted \ MaskedIrqs

\* BSP_irq never reads GOLDFISH_INTERRUPT_NUMBER with nothing pending, so that
\* it never masks, handles and unmasks a number nobody raised.
NumberDefined ==
  \A k \in DOMAIN frames : frames[k].pc = "num" => Pending # {}

\* Nesting is bounded by the number of interrupt sources, which bounds the
\* stack the foreground shares with every handler.
DepthBound == Len(frames) <= Cardinality(IRQ)

\* Every activation returns to a context with CPSR.I clear, and an activation
\* that another one interrupted was inside the section BSP_irq unlocked.
NestOnlyUnlocked ==
  \A k \in DOMAIN frames :
    /\ ~frames[k].spsr
    /\ k < Len(frames) => frames[k].pc \in NestingPC

\* Only the newest frame can be outside the section with CPSR.I clear, and
\* CPSR.I says whether it is.
LockDiscipline ==
  frames # <<>> => (irqOff <=> Top.pc \notin NestingPC)

\* A frame past the read of the number holds a number of the controller.
NumberRead ==
  \A k \in DOMAIN frames : frames[k].pc # "num" => frames[k].irq \in IRQ

\* The number a frame has read is still enabled before it masks it and is
\* enabled again after it has unmasked it.
NumberEnabled ==
  frames # <<>> /\ Top.pc \in {"mask", "exit"} => Top.irq \in enabled

\* A number in service is one main wants: main cannot run to withdraw it.
ServiceWanted == MaskedIrqs \subseteq wanted

\* The inductive invariant behind the safety properties above.
Inv ==
  /\ TypeOK
  /\ NestOnlyUnlocked
  /\ LockDiscipline
  /\ NumberRead
  /\ NumberEnabled
  /\ NumberDefined
  /\ NoReentry
  /\ ServiceWanted
  /\ MaskRestored

InService(i) == \E k \in DOMAIN frames : frames[k].irq = i /\ frames[k].pc = "handler"

\* A number that the controller presents to a CPU that main has not locked is
\* handled, however often the others are raised: the numbers in service are
\* masked, so the CPU runs out of others to prefer before it runs main again.
Served ==
  \A i \in IRQ :
    (i \in Pending /\ (irqOff => frames # <<>>)) ~> InService(i)

\* main goes on: unless devices keep raising lines for ever, the interrupt path
\* returns to the foreground.
ForegroundResumes ==
  []<><<Device>>_vars \/ []<>(frames = <<>>)
=============================================================================
