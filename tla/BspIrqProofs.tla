---------------------------- MODULE BspIrqProofs ----------------------------
(***************************************************************************)
(* The safety properties of BspIrq for every finite set of interrupt       *)
(* numbers.                                                                *)
(***************************************************************************)
EXTENDS BspIrq, FiniteSetTheorems, SequenceTheorems, WellFoundedInduction, TLAPS

\* A set of natural numbers with an element has a least one.
LEMMA LeastElement ==
  ASSUME NEW S, S \subseteq Nat, S # {}
  PROVE  \E x \in S : \A y \in S : x <= y
<1> DEFINE R == {ss \in Nat \X Nat : ss[1] < ss[2]}
<1>1. IsWellFoundedOn(R, Nat)
  <2>1. OpToRel(<, Nat) = R
    BY Zenon DEF OpToRel
  <2> QED
    BY <2>1, NatLessThanWellFounded, Zenon
<1>2. \E x \in S : \A y \in S : ~(<<y, x>> \in R)
  <2> HIDE DEF R
  <2> QED
    BY <1>1, WFMin
<1>3. PICK x \in S : \A y \in S : ~(<<y, x>> \in R)
  BY <1>2
<1>4. \A y \in S : y < x => <<y, x>> \in R
  OBVIOUS
<1>5. ASSUME NEW y \in S PROVE x <= y
  <2>1. ~(y < x)
    BY <1>3, <1>4, Zenon
  <2> QED
    BY <2>1
<1> QED
  BY <1>5

\* GOLDFISH_INTERRUPT_NUMBER names a pending, enabled number when there is one.
LEMMA GetIrqNum ==
  ASSUME TypeOK, Pending # {}
  PROVE  goldfish_get_irq_num \in Pending
<1>1. Pending \subseteq Nat
  BY IRQAssumption DEF TypeOK, Pending
<1>2. \E x \in Pending : \A y \in Pending : x <= y
  BY <1>1, LeastElement
<1> QED
  BY <1>2 DEF goldfish_get_irq_num

\* The effect on the stack of frames of a statement that only changes the
\* newest one.
LEMMA TopUpdate ==
  ASSUME frames \in Seq(Frame), frames # <<>>,
         NEW f \in Frame, frames' = [frames EXCEPT ![Len(frames)] = f]
  PROVE  /\ frames' \in Seq(Frame)
         /\ frames' # <<>>
         /\ Len(frames') = Len(frames)
         /\ Len(frames) \in Nat \ {0}
         /\ DOMAIN frames = 1 .. Len(frames)
         /\ DOMAIN frames' = DOMAIN frames
         /\ Top' = f
         /\ \A j \in DOMAIN frames : j # Len(frames) => frames'[j] = frames[j]
<1>1. Len(frames) \in Nat \ {0} /\ DOMAIN frames = 1 .. Len(frames)
  BY EmptySeq, LenProperties
<1>2. frames' \in Seq(Frame) /\ Len(frames') = Len(frames)
  BY <1>1, ExceptSeq
<1> QED
  BY <1>1, <1>2, ExceptSeq, LenProperties DEF Top

\* Step(from, to) changes the newest frame's pc and nothing else of it.
LEMMA StepUpdate ==
  ASSUME frames \in Seq(Frame), NEW from, NEW to \in PC, Step(from, to)
  PROVE  /\ frames # <<>>
         /\ Top \in Frame
         /\ Top.pc = from
         /\ [Top EXCEPT !.pc = to] \in Frame
         /\ frames' = [frames EXCEPT ![Len(frames)] = [Top EXCEPT !.pc = to]]
<1>1. frames # <<>> /\ Top.pc = from
  BY DEF Step
<1>2. Len(frames) \in 1 .. Len(frames) /\ DOMAIN frames = 1 .. Len(frames)
  BY <1>1, EmptySeq, LenProperties
<1>3. Top \in Frame
  BY <1>2, ElementOfSeq DEF Top
<1>4. [Top EXCEPT !.pc = to] \in Frame
  BY <1>3 DEF Frame
<1> QED
  BY <1>1, <1>2, <1>3, <1>4 DEF Step, Top

-----------------------------------------------------------------------------
\* Inv holds before the first instruction of main.
LEMMA InitInv == Init => Inv
<1> SUFFICES ASSUME Init PROVE Inv
  OBVIOUS
<1>1. DOMAIN frames = {} /\ frames \in Seq(Frame)
  BY EmptySeq DEF Init
<1>2. MaskedIrqs = {}
  BY <1>1 DEF MaskedIrqs
<1> QED
  BY <1>1, <1>2 DEF Init, Inv, TypeOK, NestOnlyUnlocked, LockDiscipline, NumberRead,
     NumberEnabled, NumberDefined, NoReentry, ServiceWanted, MaskRestored

\* Devices and main leave the frames alone, and main runs only without frames.
LEMMA OutsideInv ==
  ASSUME Inv, Device \/ Main
  PROVE  Inv'
<1>1. CASE Device
  <2>1. frames' = frames /\ enabled' = enabled /\ irqOff' = irqOff /\ user' = user
        /\ wanted' = wanted /\ line \subseteq line' /\ line' \subseteq IRQ
    BY <1>1 DEF Device, Raise, Inv, TypeOK
  <2>2. MaskedIrqs' = MaskedIrqs
    BY <2>1 DEF MaskedIrqs
  <2>3. Pending \subseteq Pending'
    BY <2>1 DEF Pending
  <2> QED
    BY <2>1, <2>2, <2>3 DEF Inv, TypeOK, NestOnlyUnlocked, LockDiscipline, NumberRead,
       NumberEnabled, NumberDefined, NoReentry, ServiceWanted, MaskRestored, Top
<1>2. CASE Main
  <2>1. frames = <<>> /\ frames' = <<>>
    BY <1>2 DEF Main, Foreground, IntLock, IntUnlock, EnterUserMode, MainUnmask, MainMask,
       MainDisableAll, MainPoll
  <2>2. DOMAIN frames = {} /\ DOMAIN frames' = {}
    BY <2>1
  <2>3. MaskedIrqs = {} /\ MaskedIrqs' = {}
    BY <2>2 DEF MaskedIrqs
  <2>4. TypeOK'
    BY <1>2 DEF Main, IntLock, IntUnlock, EnterUserMode, MainUnmask, MainMask,
       MainDisableAll, MainPoll, Inv, TypeOK
  <2>5. MaskRestored'
    BY <1>2, <2>3 DEF Main, IntLock, IntUnlock, EnterUserMode, MainUnmask, MainMask,
       MainDisableAll, MainPoll, Inv, MaskRestored
  <2> QED
    BY <2>1, <2>2, <2>3, <2>4, <2>5 DEF Inv, NestOnlyUnlocked, LockDiscipline, NumberRead,
       NumberEnabled, NumberDefined, NoReentry, ServiceWanted
<1> QED
  BY <1>1, <1>2

\* A new frame is pushed only over a frame in the unlocked section.
LEMMA TakeIrqInv ==
  ASSUME Inv, TakeIrq
  PROVE  Inv'
<1> DEFINE n == Len(frames)
           f == [pc |-> "num", irq |-> NoIrq, spsr |-> irqOff]
<1>1. ~irqOff /\ Pending # {} /\ frames' = Append(frames, f) /\ irqOff'
      /\ line' = line /\ enabled' = enabled /\ user' = user /\ wanted' = wanted
  BY DEF TakeIrq, IrqTaken
<1>2. f \in Frame /\ frames \in Seq(Frame)
  BY DEF Inv, TypeOK, Frame, PC
<1>3. n \in Nat /\ DOMAIN frames = 1 .. n
  BY <1>2, LenProperties
<1>4. /\ frames' \in Seq(Frame) /\ Len(frames') = n + 1 /\ DOMAIN frames' = 1 .. n + 1
      /\ frames'[n + 1] = f
      /\ \A k \in 1 .. n : frames'[k] = frames[k]
  BY <1>1, <1>2, <1>3
<1> HIDE DEF n
<1>5. f.pc = "num" /\ f.spsr = FALSE /\ f.pc \notin MaskedPC /\ f.pc \notin NestingPC
  BY <1>1 DEF MaskedPC, NestingPC, Inv, TypeOK
<1>6. Top' = f
  BY <1>4 DEF Top
<1> HIDE DEF f
<1>7. MaskedIrqs' = MaskedIrqs
  BY <1>3, <1>4, <1>5 DEF MaskedIrqs
<1>8. TypeOK'
  BY <1>1, <1>4 DEF Inv, TypeOK
<1>9. NestOnlyUnlocked'
  <2>1. \A k \in 1 .. n : frames[k].pc \in NestingPC
    <3>1. frames # <<>> => frames[n].pc \in NestingPC
      BY <1>1 DEF Inv, LockDiscipline, Top, n
    <3>2. n # 0 => frames # <<>>
      BY <1>2, EmptySeq DEF n
    <3> QED
      BY <3>1, <3>2, <1>3 DEF Inv, NestOnlyUnlocked, n
  <2> QED
    BY <2>1, <1>3, <1>4, <1>5 DEF Inv, NestOnlyUnlocked
<1>10. LockDiscipline'
  BY <1>1, <1>5, <1>6 DEF LockDiscipline
<1>11. NumberRead'
  BY <1>3, <1>4, <1>5 DEF Inv, NumberRead
<1>12. NumberEnabled'
  BY <1>5, <1>6 DEF NumberEnabled
<1>13. NumberDefined'
  BY <1>1 DEF NumberDefined, Pending
<1>14. NoReentry'
  BY <1>3, <1>4, <1>5 DEF Inv, NoReentry
<1>15. MaskRestored'
  BY <1>1, <1>7 DEF Inv, MaskRestored
<1>16. ServiceWanted'
  BY <1>1, <1>7 DEF Inv, ServiceWanted
<1> QED
  BY <1>8, <1>9, <1>10, <1>11, <1>12, <1>13, <1>14, <1>15, <1>16 DEF Inv

-----------------------------------------------------------------------------
\* The numbers of the frames under the newest one.
OlderIrqs == {frames[k].irq : k \in 1 .. Len(frames) - 1}

\* All frames but the newest are in service; what that says of the mask.
LEMMA OlderFrames ==
  ASSUME Inv, frames # <<>>
  PROVE  /\ Len(frames) \in Nat \ {0} /\ DOMAIN frames = 1 .. Len(frames) /\ Top \in Frame
         /\ MaskedIrqs = OlderIrqs \cup (IF Top.pc \in MaskedPC THEN {Top.irq} ELSE {})
         /\ Top.pc \in MaskedPC => Top.irq \notin OlderIrqs
<1> DEFINE n == Len(frames)
<1>1. n \in Nat \ {0} /\ DOMAIN frames = 1 .. n
  BY EmptySeq, LenProperties DEF Inv, TypeOK
<1>2. Top \in Frame
  BY <1>1, ElementOfSeq DEF Inv, TypeOK, Top
<1>3. \A k \in 1 .. n - 1 : frames[k].pc \in MaskedPC
  BY <1>1 DEF Inv, NestOnlyUnlocked, NestingPC, MaskedPC
<1>4. MaskedIrqs = OlderIrqs \cup (IF Top.pc \in MaskedPC THEN {Top.irq} ELSE {})
  BY <1>1, <1>3 DEF MaskedIrqs, OlderIrqs, Top
<1>5. Top.pc \in MaskedPC => Top.irq \notin OlderIrqs
  BY <1>1, <1>3 DEF Inv, NoReentry, OlderIrqs, Top
<1> QED
  BY <1>1, <1>2, <1>4, <1>5

\* A statement of the newest activation that moves it to f preserves Inv if the
\* controller and CPSR.I are as f's pc says.
LEMMA TopStep ==
  ASSUME Inv, frames # <<>>,
         NEW f \in Frame, frames' = [frames EXCEPT ![Len(frames)] = f],
         ~f.spsr, f.pc # "num", f.irq \in IRQ,
         user' \in BOOLEAN, wanted' = wanted, line' \subseteq IRQ, irqOff' \in BOOLEAN,
         irqOff' <=> f.pc \notin NestingPC,
         f.irq \in wanted, f.irq \notin OlderIrqs,
         enabled' = wanted \ (OlderIrqs \cup (IF f.pc \in MaskedPC THEN {f.irq} ELSE {}))
  PROVE  Inv'
<1> DEFINE n == Len(frames)
<1>1. /\ frames' \in Seq(Frame) /\ frames' # <<>> /\ Len(frames') = n /\ n \in Nat \ {0}
      /\ DOMAIN frames = 1 .. n /\ DOMAIN frames' = 1 .. n
      /\ Top' = f /\ frames'[n] = f
      /\ \A k \in 1 .. n - 1 : frames'[k] = frames[k]
  BY TopUpdate DEF Inv, TypeOK, Top
<1> HIDE DEF n
<1>2. \A k \in 1 .. n - 1 : frames[k].pc \in NestingPC /\ frames[k].pc \in MaskedPC
  <2>1. \A k \in DOMAIN frames : k < n => frames[k].pc \in NestingPC
    BY Zenon DEF Inv, NestOnlyUnlocked, n
  <2> QED
    BY <1>1, <2>1 DEF NestingPC, MaskedPC
<1>20. \A k \in DOMAIN frames : ~frames[k].spsr
  BY Zenon DEF Inv, NestOnlyUnlocked
<1>3. \A k \in 1 .. n - 1 : frames'[k].irq # f.irq
  BY <1>1 DEF OlderIrqs, n
<1>4. MaskedIrqs' = OlderIrqs \cup (IF f.pc \in MaskedPC THEN {f.irq} ELSE {})
  <2>1. {j \in DOMAIN frames' : frames'[j].pc \in MaskedPC}
          = (1 .. n - 1) \cup (IF f.pc \in MaskedPC THEN {n} ELSE {})
    BY <1>1, <1>2
  <2>2. CASE f.pc \in MaskedPC
    <3>1. MaskedIrqs' = {frames'[k].irq : k \in (1 .. n - 1) \cup {n}}
      BY <2>1, <2>2 DEF MaskedIrqs
    <3>2. MaskedIrqs' = {frames'[k].irq : k \in 1 .. n - 1} \cup {frames'[n].irq}
      BY <3>1, Zenon
    <3>3. {frames'[k].irq : k \in 1 .. n - 1} = OlderIrqs
      BY <1>1 DEF OlderIrqs, n
    <3> QED
      BY <1>1, <2>2, <3>2, <3>3
  <2>3. CASE f.pc \notin MaskedPC
    <3>1. MaskedIrqs' = {frames'[k].irq : k \in 1 .. n - 1}
      BY <2>1, <2>3 DEF MaskedIrqs
    <3> QED
      BY <1>1, <2>3, <3>1 DEF OlderIrqs, n
  <2> QED
    BY <2>2, <2>3
<1>5. TypeOK'
  BY <1>1 DEF Inv, TypeOK
<1>6. NestOnlyUnlocked'
  BY <1>1, <1>2, <1>20 DEF NestOnlyUnlocked
<1>7. LockDiscipline'
  BY <1>1 DEF LockDiscipline
<1>8. NumberRead'
  BY <1>1 DEF Inv, NumberRead
<1>9. NumberEnabled'
  BY <1>1 DEF NumberEnabled, MaskedPC
<1>10. NumberDefined'
  BY <1>1, <1>2 DEF NumberDefined, NestingPC
<1>11. NoReentry'
  <2> SUFFICES ASSUME NEW j \in 1 .. n, NEW k \in 1 .. n, j < k,
                      frames'[j].pc \in MaskedPC, frames'[k].pc \in MaskedPC,
                      frames'[j].irq = frames'[k].irq
               PROVE  FALSE
    BY <1>1 DEF NoReentry
  <2>1. CASE k = n
    BY <2>1, <1>1, <1>3
  <2>2. CASE k # n
    BY <2>2, <1>1 DEF Inv, NoReentry
  <2> QED
    BY <2>1, <2>2
<1>12. ServiceWanted'
  <2>1. OlderIrqs \subseteq wanted
    BY OlderFrames DEF Inv, ServiceWanted
  <2> QED
    BY <2>1, <1>4 DEF ServiceWanted
<1>13. MaskRestored'
  BY <1>4 DEF MaskRestored
<1> QED
  BY <1>5, <1>6, <1>7, <1>8, <1>9, <1>10, <1>11, <1>12, <1>13 DEF Inv

\* Every statement of BSP_irq moves the newest frame to a state its pc allows.
LEMMA BspIrqInv ==
  ASSUME Inv, BSP_irq
  PROVE  Inv'
<1> USE DEF PC, NestingPC, MaskedPC
<1>0. /\ frames \in Seq(Frame) /\ frames # <<>>
      /\ line \subseteq IRQ /\ user \in BOOLEAN /\ irqOff \in BOOLEAN
      /\ enabled = wanted \ MaskedIrqs /\ MaskedIrqs \subseteq wanted
      /\ irqOff <=> Top.pc \notin NestingPC
      /\ Top.pc # "num" => Top.irq \in IRQ
      /\ Top.pc = "num" => Pending # {}
      /\ Top.pc \in {"mask", "exit"} => Top.irq \in enabled
  <2>1. frames \in Seq(Frame) /\ frames # <<>>
    BY DEF Inv, TypeOK, BSP_irq, ReadNum, MaskIrq, AllowNesting, irq_handler, LockIrq, UnmaskIrq, Step
  <2>2. Len(frames) \in DOMAIN frames
    BY <2>1, OlderFrames
  <2> QED
    BY <2>1, <2>2 DEF Inv, TypeOK, MaskRestored, ServiceWanted, LockDiscipline, NumberRead,
       NumberDefined, NumberEnabled, Top
<1>1. /\ Len(frames) \in Nat \ {0} /\ Top \in Frame
      /\ MaskedIrqs = OlderIrqs \cup (IF Top.pc \in MaskedPC THEN {Top.irq} ELSE {})
      /\ Top.pc \in MaskedPC => Top.irq \notin OlderIrqs
  BY <1>0, OlderFrames
<1>2. ~Top.spsr
  <2>1. Len(frames) \in DOMAIN frames
    BY <1>0, OlderFrames
  <2> QED
    BY <2>1, Zenon DEF Inv, NestOnlyUnlocked, Top
<1>3. CASE ReadNum
  <2> DEFINE f == [Top EXCEPT !.pc = "mask", !.irq = goldfish_get_irq_num]
  <2>1. Top.pc = "num" /\ frames' = [frames EXCEPT ![Len(frames)] = f]
        /\ UNCHANGED <<line, enabled, irqOff, user, wanted>>
    BY <1>0, <1>1, <1>3 DEF ReadNum, Top
  <2>2. goldfish_get_irq_num \in line \cap enabled
    BY <1>0, <2>1, GetIrqNum DEF Inv, Pending
  <2>3. f \in Frame /\ f.pc = "mask" /\ f.irq \in enabled /\ f.irq \in IRQ /\ ~f.spsr
    BY <1>0, <1>1, <1>2, <2>2 DEF Frame
  <2> HIDE DEF f
  <2>4. enabled' = wanted \ OlderIrqs
    BY <1>0, <1>1, <2>1
  <2> QED
    BY <1>0, <2>1, <2>3, <2>4, TopStep
<1>4. CASE MaskIrq
  <2> DEFINE f == [Top EXCEPT !.pc = "unlock"]
  <2>1. Top.pc = "mask" /\ frames' = [frames EXCEPT ![Len(frames)] = f]
        /\ enabled' = enabled \ {Top.irq} /\ UNCHANGED <<line, irqOff, user, wanted>>
    BY <1>0, <1>4, StepUpdate DEF MaskIrq
  <2>2. f \in Frame /\ f.pc = "unlock" /\ f.irq = Top.irq /\ f.irq \in IRQ /\ ~f.spsr
    BY <1>0, <1>1, <1>2, <2>1 DEF Frame
  <2> HIDE DEF f
  <2>3. enabled' = wanted \ (OlderIrqs \cup {f.irq}) /\ f.irq \in wanted /\ f.irq \notin OlderIrqs
    BY <1>0, <1>1, <2>1, <2>2
  <2> QED
    BY <1>0, <2>1, <2>2, <2>3, TopStep
<1>5. CASE AllowNesting
  <2> DEFINE f == [Top EXCEPT !.pc = "handler"]
  <2>1. Top.pc = "unlock" /\ frames' = [frames EXCEPT ![Len(frames)] = f]
        /\ irqOff' = FALSE /\ UNCHANGED <<line, enabled, user, wanted>>
    BY <1>0, <1>5, StepUpdate DEF AllowNesting
  <2>2. f \in Frame /\ f.pc = "handler" /\ f.irq = Top.irq /\ f.irq \in IRQ /\ ~f.spsr
    BY <1>0, <1>1, <1>2, <2>1 DEF Frame
  <2> HIDE DEF f
  <2>3. enabled' = wanted \ (OlderIrqs \cup {f.irq}) /\ f.irq \in wanted /\ f.irq \notin OlderIrqs
    BY <1>0, <1>1, <2>1, <2>2
  <2> QED
    BY <1>0, <2>1, <2>2, <2>3, TopStep
<1>6. CASE irq_handler
  <2> DEFINE f == [Top EXCEPT !.pc = "lock"]
  <2>1. Top.pc = "handler" /\ frames' = [frames EXCEPT ![Len(frames)] = f]
        /\ line' = line \ {Top.irq} /\ UNCHANGED <<enabled, irqOff, user, wanted>>
    BY <1>0, <1>6, StepUpdate DEF irq_handler
  <2>2. f \in Frame /\ f.pc = "lock" /\ f.irq = Top.irq /\ f.irq \in IRQ /\ ~f.spsr
    BY <1>0, <1>1, <1>2, <2>1 DEF Frame
  <2> HIDE DEF f
  <2>3. enabled' = wanted \ (OlderIrqs \cup {f.irq}) /\ f.irq \in wanted /\ f.irq \notin OlderIrqs
    BY <1>0, <1>1, <2>1, <2>2
  <2> QED
    BY <1>0, <2>1, <2>2, <2>3, TopStep
<1>7. CASE LockIrq
  <2> DEFINE f == [Top EXCEPT !.pc = "unmask"]
  <2>1. Top.pc = "lock" /\ frames' = [frames EXCEPT ![Len(frames)] = f]
        /\ irqOff' = TRUE /\ UNCHANGED <<line, enabled, user, wanted>>
    BY <1>0, <1>7, StepUpdate DEF LockIrq
  <2>2. f \in Frame /\ f.pc = "unmask" /\ f.irq = Top.irq /\ f.irq \in IRQ /\ ~f.spsr
    BY <1>0, <1>1, <1>2, <2>1 DEF Frame
  <2> HIDE DEF f
  <2>3. enabled' = wanted \ (OlderIrqs \cup {f.irq}) /\ f.irq \in wanted /\ f.irq \notin OlderIrqs
    BY <1>0, <1>1, <2>1, <2>2
  <2> QED
    BY <1>0, <2>1, <2>2, <2>3, TopStep
<1>8. CASE UnmaskIrq
  <2> DEFINE f == [Top EXCEPT !.pc = "exit"]
  <2>1. Top.pc = "unmask" /\ frames' = [frames EXCEPT ![Len(frames)] = f]
        /\ enabled' = enabled \cup ({Top.irq} \ {NoIrq}) /\ UNCHANGED <<line, irqOff, user, wanted>>
    BY <1>0, <1>8, StepUpdate DEF UnmaskIrq
  <2>2. f \in Frame /\ f.pc = "exit" /\ f.irq = Top.irq /\ f.irq \in IRQ /\ ~f.spsr
    BY <1>0, <1>1, <1>2, <2>1 DEF Frame
  <2> HIDE DEF f
  <2>3. Top.irq # NoIrq
    BY <2>2, IRQAssumption DEF NoIrq
  <2>4. enabled' = wanted \ OlderIrqs /\ f.irq \in wanted /\ f.irq \notin OlderIrqs
    BY <1>0, <1>1, <2>1, <2>2, <2>3
  <2> QED
    BY <1>0, <2>1, <2>2, <2>4, TopStep
<1> QED
  BY <1>3, <1>4, <1>5, <1>6, <1>7, <1>8 DEF BSP_irq

\* The return of ARM_irq uncovers a frame that was interrupted while unlocked.
LEMMA ReturnInv ==
  ASSUME Inv, Return
  PROVE  Inv'
<1> DEFINE n == Len(frames)
<1>1. /\ frames # <<>> /\ Top.pc = "exit" /\ irqOff' = Top.spsr /\ frames' = SubSeq(frames, 1, n - 1)
      /\ UNCHANGED <<line, enabled, user, wanted>>
  BY DEF Return, Below
<1>2. /\ n \in Nat \ {0} /\ DOMAIN frames = 1 .. n /\ Top \in Frame
      /\ MaskedIrqs = OlderIrqs \cup (IF Top.pc \in MaskedPC THEN {Top.irq} ELSE {})
  BY <1>1, OlderFrames
<1>3. \A k \in 1 .. n - 1 : frames[k] \in Frame
  BY <1>2, ElementOfSeq DEF Inv, TypeOK
<1>4. /\ frames' \in Seq(Frame) /\ Len(frames') = n - 1
      /\ \A k \in 1 .. n - 1 : frames'[k] = frames[k]
  BY <1>1, <1>2, <1>3, SubSeqProperties
<1>5. DOMAIN frames' = 1 .. n - 1
  BY <1>4, LenProperties
<1>6. \A k \in DOMAIN frames : ~frames[k].spsr
  BY Zenon DEF Inv, NestOnlyUnlocked
<1>7. ~irqOff'
  BY <1>1, <1>2, <1>6 DEF Top
<1>8. \A k \in 1 .. n - 1 : frames[k].pc \in NestingPC /\ frames[k].pc \in MaskedPC
  <2>1. \A k \in DOMAIN frames : k < n => frames[k].pc \in NestingPC
    BY Zenon DEF Inv, NestOnlyUnlocked
  <2> QED
    BY <1>2, <2>1 DEF NestingPC, MaskedPC
<1> HIDE DEF n
<1>9. MaskedIrqs' = MaskedIrqs
  <2>1. {j \in DOMAIN frames' : frames'[j].pc \in MaskedPC} = 1 .. n - 1
    BY <1>4, <1>5, <1>8
  <2>2. MaskedIrqs' = {frames'[k].irq : k \in 1 .. n - 1}
    BY <2>1 DEF MaskedIrqs
  <2>3. MaskedIrqs = OlderIrqs
    BY <1>1, <1>2 DEF MaskedPC
  <2> QED
    BY <2>2, <2>3, <1>4 DEF OlderIrqs, n
<1>10. TypeOK'
  <2>1. irqOff' \in BOOLEAN
    BY <1>1, <1>2 DEF Frame
  <2> QED
    BY <1>1, <1>4, <2>1 DEF Inv, TypeOK
<1>11. NestOnlyUnlocked'
  BY <1>2, <1>4, <1>5, <1>6, <1>8 DEF NestOnlyUnlocked
<1>12. LockDiscipline'
  <2>1. frames' # <<>> => n - 1 \in 1 .. n - 1
    BY <1>2, <1>4, EmptySeq
  <2>2. frames' # <<>> => Top'.pc \in NestingPC
    BY <2>1, <1>4, <1>8 DEF Top
  <2> QED
    BY <1>7, <2>2 DEF LockDiscipline
<1>13. NumberRead'
  BY <1>2, <1>4, <1>5 DEF Inv, NumberRead
<1>14. NumberEnabled' /\ NumberDefined'
  <2>1. \A k \in DOMAIN frames' : frames'[k].pc \in NestingPC
    BY <1>4, <1>5, <1>8
  <2>2. frames' # <<>> => Len(frames') \in DOMAIN frames'
    BY <1>2, <1>4, <1>5, EmptySeq
  <2> QED
    BY <2>1, <2>2 DEF NumberEnabled, NumberDefined, NestingPC, Top
<1>15. NoReentry'
  BY <1>2, <1>4, <1>5 DEF Inv, NoReentry
<1>16. ServiceWanted' /\ MaskRestored'
  BY <1>1, <1>9 DEF Inv, ServiceWanted, MaskRestored
<1> QED
  BY <1>10, <1>11, <1>12, <1>13, <1>14, <1>15, <1>16 DEF Inv

-----------------------------------------------------------------------------
\* Inv is an invariant of the interrupt path under any interleaving of devices,
\* main and nested activations.
THEOREM InvHolds == Spec => []Inv
<1>1. Inv /\ [Next]_vars => Inv'
  <2> SUFFICES ASSUME Inv, [Next]_vars PROVE Inv'
    OBVIOUS
  <2>1. CASE Device \/ Main
    BY <2>1, OutsideInv
  <2>2. CASE TakeIrq
    BY <2>2, TakeIrqInv
  <2>3. CASE BSP_irq
    BY <2>3, BspIrqInv
  <2>4. CASE Return
    BY <2>4, ReturnInv
  <2>5. CASE UNCHANGED vars
    BY <2>5 DEF vars, Inv, TypeOK, NestOnlyUnlocked, LockDiscipline, NumberRead, NumberEnabled,
       NumberDefined, NoReentry, ServiceWanted, MaskRestored, MaskedIrqs, Top, Pending
  <2> QED
    BY <2>1, <2>2, <2>3, <2>4, <2>5 DEF Next, Interrupt
<1> QED
  BY InitInv, <1>1, PTL DEF Spec

\* Type correctness of the interrupt path's state.
THEOREM TypeCorrect == Spec => []TypeOK
<1>1. Inv => TypeOK
  BY DEF Inv
<1> QED
  BY InvHolds, <1>1, PTL

\* "Block the same IRQ before IRQ handler return" (BSP_irq) holds for any set of
\* interrupt sources.
THEOREM NeverReentered == Spec => []NoReentry
<1>1. Inv => NoReentry
  BY DEF Inv
<1> QED
  BY InvHolds, <1>1, PTL

\* BSP_irq's mask and unmask leave main's mask as main set it.
THEOREM MaskIsRestored == Spec => []MaskRestored
<1>1. Inv => MaskRestored
  BY DEF Inv
<1> QED
  BY InvHolds, <1>1, PTL

\* BSP_irq reads the number of a pending interrupt, never a stale or empty one.
THEOREM NumberIsDefined == Spec => []NumberDefined
<1>1. Inv => NumberDefined
  BY DEF Inv
<1> QED
  BY InvHolds, <1>1, PTL

\* Activations interrupted by others were unlocked and resume unlocked.
THEOREM NestsOnlyUnlocked == Spec => []NestOnlyUnlocked
<1>1. Inv => NestOnlyUnlocked
  BY DEF Inv
<1> QED
  BY InvHolds, <1>1, PTL

\* A frame is charged to the number it serves, or to one it is about to read:
\* no two frames are charged to the same number.
LEMMA InvDepth ==
  ASSUME Inv
  PROVE  DepthBound
<1> DEFINE n == Len(frames)
           charge == [k \in 1 .. n |-> IF frames[k].pc = "num" THEN goldfish_get_irq_num
                                      ELSE frames[k].irq]
<1>1. n \in Nat /\ DOMAIN frames = 1 .. n
  BY LenProperties DEF Inv, TypeOK
<1>2. CASE frames = <<>>
  <2>1. Len(frames) = 0 /\ Cardinality(IRQ) \in Nat
    BY <1>2, FS_CardinalityType, IRQAssumption
  <2> QED
    BY <2>1 DEF DepthBound
<1>3. CASE frames # <<>>
  <2>1. n \in 1 .. n
    BY <1>3, OlderFrames
  <2>2. \A k \in 1 .. n - 1 : frames[k].pc \in NestingPC /\ frames[k].pc \in MaskedPC /\ frames[k].pc # "num"
    <3>1. \A k \in DOMAIN frames : k < n => frames[k].pc \in NestingPC
      BY Zenon DEF Inv, NestOnlyUnlocked
    <3> QED
      BY <1>1, <3>1 DEF NestingPC, MaskedPC
  <2>3. enabled = wanted \ MaskedIrqs /\ enabled \subseteq IRQ /\ TypeOK
    BY DEF Inv, MaskRestored, TypeOK
  <2>4. charge[n] \in IRQ /\ charge[n] \notin OlderIrqs
    <3>1. CASE frames[n].pc = "num"
      <4>1. goldfish_get_irq_num \in enabled
        BY <1>1, <2>1, <3>1, GetIrqNum DEF Inv, NumberDefined, Pending
      <4> QED
        BY <1>3, <2>1, <2>3, <3>1, <4>1, OlderFrames
    <3>2. CASE frames[n].pc \in {"mask", "exit"}
      <4>1. frames[n].irq \in enabled
        BY <1>3, <3>2 DEF Inv, NumberEnabled, Top
      <4> QED
        BY <1>3, <2>1, <2>3, <3>2, <4>1, OlderFrames
    <3>3. CASE frames[n].pc \in MaskedPC
      BY <1>1, <1>3, <2>1, <3>3, OlderFrames DEF Top, MaskedPC, Inv, NumberRead
    <3> QED
      BY <1>3, <3>1, <3>2, <3>3, OlderFrames DEF Top, Frame, PC, MaskedPC
  <2>5. \A k \in 1 .. n - 1 : charge[k] = frames[k].irq /\ charge[k] \in IRQ
    BY <1>1, <2>2 DEF Inv, NumberRead
  <2>6. \A j, k \in 1 .. n - 1 : charge[j] = charge[k] => j = k
    BY <1>1, <2>2, <2>5 DEF Inv, NoReentry
  <2>7. \A k \in 1 .. n - 1 : charge[k] # charge[n]
    BY <2>4, <2>5 DEF OlderIrqs
  <2>8. charge \in Injection(1 .. n, IRQ)
    <3> HIDE DEF charge
    <3>1. charge \in [1 .. n -> IRQ]
      <4>1. charge = [k \in 1 .. n |-> charge[k]]
        BY DEF charge
      <4>2. \A k \in 1 .. n : charge[k] \in IRQ
        BY <1>1, <2>4, <2>5
      <4> QED
        BY <4>1, <4>2, Zenon
    <3>2. \A j, k \in 1 .. n : charge[j] = charge[k] => j = k
      BY <1>1, <2>1, <2>6, <2>7
    <3> QED
      BY <3>1, <3>2 DEF Injection, IsInjective
  <2>9. Cardinality(1 .. n) <= Cardinality(IRQ)
    <3> HIDE DEF charge
    <3> QED
      BY <2>8, FS_Injection, IRQAssumption
  <2>10. Cardinality(1 .. n) = n
    BY <1>1, <2>1, FS_Interval
  <2> QED
    BY <2>9, <2>10 DEF DepthBound
<1> QED
  BY <1>2, <1>3

\* Nested activations of BSP_irq never outnumber the interrupt sources.
THEOREM DepthBounded == Spec => []DepthBound
BY InvHolds, InvDepth, PTL
=============================================================================
