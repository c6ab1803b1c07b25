---------------------------- MODULE ArmExcProofs ----------------------------
(***************************************************************************)
(* StackFits and ContextRestored of ArmExc, for every finite set of        *)
(* interrupt numbers and every stack that holds the nesting they allow     *)
(* (Roomy).                                                                *)
(*                                                                         *)
(* The instructions of a routine are numbered in the order they run, its   *)
(* stages: 1-13 and 24-33 are ARM_irq (ARM_fiq has no stage 24) and 14-23  *)
(* BSP_irq (BSP_fiq is stage 23 alone).  Interrupts(m, c, s, n) says what  *)
(* the registers and the stack of s hold when the routine that interrupted *)
(* context c in mode m is at stage n: how far the frame has been built,    *)
(* which registers still are c's, and where the rest of c is.              *)
(*                                                                         *)
(* The invariant is that every context in the history is the one that the  *)
(* routine above it interrupted, at some stage (Layers); that an IRQ is    *)
(* nested only in BSP_irqs with their handler enabled (Nests); and that    *)
(* those serve different, masked numbers (Numbered), which bounds the      *)
(* depth of the nesting by the number of interrupt sources.                *)
(***************************************************************************)
EXTENDS ArmExc, SequenceTheorems, FiniteSetTheorems, WellFoundedInduction, TLAPS


\* The stack holds a context and BSP_irq's two words for every interrupt
\* source, and one context for an FIQ.
Roomy == StackWords >= 10 * Cardinality(IRQ) + 8

Usr(r) == <<"usr", r>>
Sp(c) == c.reg[Usr("sp")][3]        \* the word that the stack pointer of c points to

Stages(m) == IF m = "irq" THEN 1 .. 33 ELSE (1 .. 13) \cup {23} \cup (25 .. 33)

\* The address of stage n, and CPSR there.
PcAt(m, n) ==
  IF m = "irq"
  THEN IF n <= 13 THEN Code("ARM_irq", n)
       ELSE IF n <= 23 THEN Code("BSP_irq", n - 13) ELSE Code("ARM_irq", n - 10)
  ELSE IF n <= 13 THEN Code("ARM_fiq", n)
       ELSE IF n = 23 THEN Code("BSP_fiq", 1) ELSE Code("ARM_fiq", n - 11)

CpuAt(m, n) ==
  [mode |-> IF n <= 5 \/ n \in {11, 12} \/ n >= 28 THEN m ELSE "sys",
   I |-> n \notin {18, 19}, F |-> m = "fiq" \/ n >= 25]

\* The words that stage n has below the interrupted stack pointer, those of
\* the frame that are written (1 is the lowest), and the registers that still
\* are the interrupted program's.
Depth(n) ==
  IF n <= 6 \/ n >= 27 THEN 0 ELSE IF n = 7 THEN 2 ELSE IF n <= 9 THEN 6
  ELSE IF n <= 14 \/ n >= 23 THEN 8 ELSE 10

Saved(n) == IF n <= 6 THEN {} ELSE IF n = 7 THEN 7 .. 8 ELSE IF n <= 11 THEN 3 .. 8 ELSE 1 .. 8

Held(n) ==
  IF n <= 2 \/ n >= 32 THEN {"r0", "r1", "r2", "r3", "r12", "lr"}
  ELSE IF n <= 4 THEN {"r1", "r2", "r3", "r12", "lr"}
  ELSE IF n <= 13 THEN {"r2", "r3", "r12", "lr"} ELSE {}

\* The frame of context c, from its lowest word.
FrameWord(c) ==
  << c.reg[Usr("r0")], c.reg[Usr("r1")], c.reg[Usr("r2")], c.reg[Usr("r3")],
     c.reg[Usr("r12")], c.reg[Usr("lr")], c.pc, Psr(c.cpu) >>

\* What no exception of mode m changes of c: the other modes' registers (FIQ
\* mode's are always scratch), the SVC stack and the stack above c's pointer.
Kept(m, c, s) ==
  /\ \A r \in RegName : r[1] \notin {"usr", m, "fiq"} => s.reg[r] = c.reg[r]
  /\ \A a \in Cell : a[1] = "svc" \/ a[2] >= Sp(c) => s.mem[a] = c.mem[a]

\* Where the rest of c, and what the routine itself needs, is at stage n.
Scratched(m, c, s, n) ==
  /\ n <= 2 => s.reg[<<m, "lr">>] = Code(c.pc[2], c.pc[3] + 1)
  /\ n \in 2 .. 11 => s.reg[<<m, "sp">>] = c.reg[Usr("r0")]
  /\ n \in 4 .. 11 => s.reg[<<m, "lr">>] = c.reg[Usr("r1")]
  /\ n <= 4 \/ n >= 31 => s.reg[<<m, "spsr">>] = Psr(c.cpu)
  /\ n \in 3 .. 6 => s.reg[Usr("r0")] = c.pc
  /\ n \in 5 .. 6 => s.reg[Usr("r1")] = Psr(c.cpu)
  /\ n \in 9 .. 11 => s.reg[Usr("r0")] = Addr("sys", Sp(c) - 6)
  /\ n \in {14, 22, 23} => s.reg[Usr("lr")] = PcAt(m, IF m = "irq" THEN 24 ELSE 25)
  /\ n \in 15 .. 21 => s.mem[<<"sys", Sp(c) - 9>>] = PcAt(m, 24)
  /\ n \in 16 .. 21 => s.mem[<<"sys", Sp(c) - 10>>] = Number(c.irq)
  /\ n \in 26 .. 28 => s.reg[Usr("r0")] = Addr("sys", Sp(c) - 8)
  /\ n >= 29 => s.reg[<<m, "sp">>] = Addr("sys", Sp(c) - 8)
  /\ n = 30 => s.reg[Usr("r0")] = Psr(c.cpu)
  /\ n = 33 => s.reg[<<m, "lr">>] = c.pc

Where(m, c, s, n) ==
  /\ s.pc = PcAt(m, n) /\ s.cpu = CpuAt(m, n)
  /\ s.reg[Usr("sp")] = Addr("sys", Sp(c) - Depth(n))

Stacked(c, s, n) == \A i \in Saved(n) : s.mem[<<"sys", Sp(c) - 9 + i>>] = FrameWord(c)[i]

Holds(c, s, n) == \A r \in Held(n) : s.reg[Usr(r)] = c.reg[Usr(r)]

\* ARM_irq or ARM_fiq, which interrupted context c, is at stage n in context s.
Interrupts(m, c, s, n) ==
  Where(m, c, s, n) /\ Stacked(c, s, n) /\ Holds(c, s, n) /\ Kept(m, c, s) /\ Scratched(m, c, s, n)

\* The stages of ARM_swi: 3 and 4 are sw_handler.
SvcPc(n) ==
  IF n <= 2 THEN Code("ARM_swi", n) ELSE IF n <= 4 THEN Code("sw_handler", n - 2) ELSE Code("ARM_swi", 3)

\* ARM_swi, which main called in context c, is at stage n in context s.
Calls(c, s, n) ==
  /\ s.pc = SvcPc(n) /\ s.cpu = [mode |-> "svc", I |-> TRUE, F |-> c.cpu.F]
  /\ \A r \in RegName : r[1] = "irq" \/ r \in {Usr("sp"), Usr("lr")} => s.reg[r] = c.reg[r]
  /\ \A a \in Cell : a[1] = "sys" /\ a[2] >= Sp(c) => s.mem[a] = c.mem[a]
  /\ s.reg[<<"svc", "spsr">>] = Psr(c.cpu)
  /\ s.reg[<<"svc", "sp">>] = Addr("svc", StackWords + 1 - (IF n = 1 THEN 0 ELSE 6))
  /\ n = 1 => s.reg[<<"svc", "lr">>] = c.pc /\ \A r \in UserRegs : s.reg[Usr(r)] = c.reg[Usr(r)]
  /\ n > 1 => /\ s.mem[<<"svc", StackWords>>] = c.pc
              /\ \A i \in 1 .. 5 : s.mem[<<"svc", StackWords - 6 + i>>] = FrameWord(c)[i]
  /\ n \in {3, 4} => s.reg[<<"svc", "lr">>] = SvcPc(5)

\* Main is running, with both stacks empty.
MainOK(s) ==
  /\ s.pc = MainAddr /\ s.cpu.mode \in {"sys", "usr"} /\ s.cpu.I = s.cpu.F
  /\ s.reg[Usr("sp")] = Addr("sys", StackWords + 1)
  /\ s.reg[<<"svc", "sp">>] = Addr("svc", StackWords + 1)

-----------------------------------------------------------------------------
(* What a step does to the relations above: one lemma for each instruction *)
(* of ARM_irq and ARM_fiq, as a fact about two contexts s and t.           *)

Cpsr == [mode : {"usr", "sys", "irq", "fiq", "svc"}, I : BOOLEAN, F : BOOLEAN]

Context(c) ==
  /\ c = [pc |-> c.pc, cpu |-> c.cpu, reg |-> c.reg, mem |-> c.mem, irq |-> c.irq]
  /\ c.pc = Code(c.pc[2], c.pc[3]) /\ c.pc[3] \in Int
  /\ c.cpu \in Cpsr
  /\ c.reg = [r \in RegName |-> c.reg[r]]
  /\ c.mem = [a \in Cell |-> c.mem[a]]
  /\ c.reg[Usr("sp")] = Addr("sys", Sp(c)) /\ Sp(c) \in Int

Fits(m, c) == Sp(c) \in Int /\ Sp(c) >= (IF m = "irq" THEN 11 ELSE 9) /\ Sp(c) <= StackWords + 1

\* One register is written.
Sets(s, t, x, w) == t.reg = [s.reg EXCEPT ![x] = w]

\* The words ws are stored (k of them) from low upwards on the shared stack.
Stores(s, t, low, k, ws) ==
  t.mem = [a \in Cell |-> IF a[1] = "sys" /\ a[2] - low + 1 \in 1 .. k
                          THEN ws[a[2] - low + 1] ELSE s.mem[a]]

\* The user registers and the banked sp, lr and spsr are registers.
LEMMA Registers ==
  /\ \A r \in UserRegs : Usr(r) \in RegName
  /\ \A m \in ExcMode : <<m, "sp">> \in RegName /\ <<m, "lr">> \in RegName /\ <<m, "spsr">> \in RegName
<1>1. \A r \in UserRegs : Usr(r) \in RegName
  BY DEF Usr, RegName
<1>2. ASSUME NEW m \in ExcMode, NEW r \in {"sp", "lr", "spsr"}
      PROVE  <<m, r>> \in RegName
  <2>1. r \in Banked(m)
    BY DEF Banked, ExcMode
  <2>2. <<m, r>> \in {m} \X Banked(m)
    BY <2>1
  <2> QED
    BY <2>2 DEF RegName
<1> QED
  BY <1>1, <1>2

\* Writing a register of the user bank or of the exception's own bank disturbs
\* nothing that is kept.
LEMMA KeptSet ==
  ASSUME NEW m \in {"irq", "fiq"}, NEW c, NEW s, NEW t, NEW x, NEW w, Context(s), Kept(m, c, s),
         Sets(s, t, x, w), t.mem = s.mem, x[1] \in {"usr", m}
  PROVE  Kept(m, c, t)
  BY DEF Kept, Sets, Context

\* Nor does a store below the interrupted stack pointer.
LEMMA KeptStore ==
  ASSUME NEW m \in {"irq", "fiq"}, NEW c, NEW s, NEW t, NEW x, NEW w, Context(c), Context(s), Kept(m, c, s),
         Sets(s, t, x, w), x[1] \in {"usr", m},
         NEW low \in Int, NEW ws, NEW k \in Nat, Stores(s, t, low, k, ws), low + k <= Sp(c)
  PROVE  Kept(m, c, t)
<1>1. \A r \in RegName : r[1] \notin {"usr", m, "fiq"} => t.reg[r] = c.reg[r]
  BY DEF Kept, Sets, Context
<1>2. ASSUME NEW a \in Cell, a[1] = "svc" \/ a[2] >= Sp(c) PROVE t.mem[a] = c.mem[a]
  <2>1. a[2] \in Int /\ Sp(c) \in Int
    BY DEF Cell, Context
  <2>2. ~(a[1] = "sys" /\ a[2] - low + 1 \in 1 .. k)
    BY <1>2, <2>1
  <2>3. t.mem[a] = s.mem[a]
    BY <2>2 DEF Stores
  <2> QED
    BY <1>2, <2>3 DEF Kept
<1> QED
  BY <1>1, <1>2 DEF Kept

\* A step that stores nothing keeps the words of the frame.
LEMMA StackedSame ==
  ASSUME NEW c, NEW s, NEW t, NEW n \in Int, NEW k \in Int, t.mem = s.mem, Stacked(c, s, n),
         Saved(k) \subseteq Saved(n)
  PROVE  Stacked(c, t, k)
  BY DEF Stacked

\* A step that writes one register keeps the others.
LEMMA HoldsSame ==
  ASSUME NEW c, NEW s, NEW t, NEW n \in Int, NEW k \in Int, NEW x, NEW w, Context(s), Sets(s, t, x, w),
         Holds(c, s, n), Held(k) \subseteq Held(n), \A r \in Held(k) : x # Usr(r)
  PROVE  Holds(c, t, k)
<1>1. Held(k) \subseteq UserRegs
  BY DEF Held, UserRegs
<1> QED
  BY <1>1, Registers DEF Holds, Sets, Context

\* What a register reads as after one register was written.
LEMMA SetGet ==
  ASSUME NEW s, NEW t, NEW x, NEW w, Context(s), Sets(s, t, x, w), x \in RegName
  PROVE  t.reg[x] = w /\ \A y \in RegName : y # x => t.reg[y] = s.reg[y]
  BY DEF Sets, Context

\* What a word of the shared stack reads as after a store.
LEMMA StoreGet ==
  ASSUME NEW s, NEW t, NEW low \in Int, NEW ws, NEW k \in Nat, Stores(s, t, low, k, ws), NEW i \in 1 .. StackWords
  PROVE  t.mem[<<"sys", i>>] = IF low <= i /\ i < low + k THEN ws[i - low + 1] ELSE s.mem[<<"sys", i>>]
<1>1. <<"sys", i>> \in Cell /\ i \in Int
  BY StackAssumption DEF Cell
<1>2. i - low + 1 \in 1 .. k <=> low <= i /\ i < low + k
  BY <1>1
<1> QED
  BY <1>1, <1>2 DEF Stores

\* The words of a frame by name.
LEMMA FrameWords ==
  ASSUME NEW c
  PROVE  /\ FrameWord(c)[1] = c.reg[Usr("r0")] /\ FrameWord(c)[2] = c.reg[Usr("r1")]
         /\ FrameWord(c)[3] = c.reg[Usr("r2")] /\ FrameWord(c)[4] = c.reg[Usr("r3")]
         /\ FrameWord(c)[5] = c.reg[Usr("r12")] /\ FrameWord(c)[6] = c.reg[Usr("lr")]
         /\ FrameWord(c)[7] = c.pc /\ FrameWord(c)[8] = Psr(c.cpu)
  BY DEF FrameWord

\* Storing ws at d words below the frame's top completes it from stage n's to stage q's.
Fills(c, ws, k, d, n, q) ==
  \A i \in Saved(q) :
    /\ i - (8 - d) \in 1 .. k => ws[i - (8 - d)] = FrameWord(c)[i]
    /\ i - (8 - d) \notin 1 .. k => i \in Saved(n)

\* STMFD completes the frame from stage n's words to stage q's.
LEMMA StackedStore ==
  ASSUME NEW c, NEW s, NEW t, NEW n \in Int, NEW q \in Int, NEW d \in Int, NEW ws, NEW k \in Nat,
         NEW p \in Int, p = Sp(c), p >= 9, p <= StackWords + 1, NEW low \in Int, low = p - d,
         Stores(s, t, low, k, ws), Stacked(c, s, n),
         Saved(q) \subseteq 1 .. 8,
         Fills(c, ws, k, d, n, q)
  PROVE  Stacked(c, t, q)
<1> SUFFICES ASSUME NEW i \in Saved(q) PROVE t.mem[<<"sys", Sp(c) - 9 + i>>] = FrameWord(c)[i]
  BY DEF Stacked
<1>1. i \in 1 .. 8 /\ i \in Int
  OBVIOUS
<1>2. PICK j \in Int : j = p - 9 + i
  BY <1>1
<1>3. /\ j \in 1 .. StackWords /\ j - low + 1 = i - (8 - d)
      /\ low <= j /\ j < low + k <=> i - (8 - d) \in 1 .. k
  BY <1>1, <1>2, StackAssumption
<1>4. t.mem[<<"sys", j>>] = IF low <= j /\ j < low + k THEN ws[j - low + 1] ELSE s.mem[<<"sys", j>>]
  BY <1>3, StoreGet
<1>5. CASE i - (8 - d) \in 1 .. k
  BY <1>2, <1>3, <1>4, <1>5 DEF Fills
<1>6. CASE i - (8 - d) \notin 1 .. k
  <2>1. t.mem[<<"sys", j>>] = s.mem[<<"sys", j>>] /\ i \in Saved(n)
    BY <1>2, <1>3, <1>4, <1>6 DEF Fills
  <2> QED
    BY <1>2, <2>1 DEF Stacked
<1> QED
  BY <1>5, <1>6

\* MOV sp,r0
LEMMA Stage1 ==
  ASSUME NEW m \in {"irq", "fiq"}, NEW c, NEW s, NEW t, Context(c), Context(s), Interrupts(m, c, s, 1),
         t.pc = PcAt(m, 2), t.cpu = s.cpu, t.mem = s.mem, Sets(s, t, <<m, "sp">>, s.reg[Usr("r0")])
  PROVE  Interrupts(m, c, t, 2)
<1> DEFINE x == <<m, "sp">>
<1>1. x \in RegName /\ Usr("r0") \in RegName /\ Usr("r1") \in RegName /\ Usr("sp") \in RegName /\ Usr("lr") \in RegName
      /\ <<m, "sp">> \in RegName /\ <<m, "lr">> \in RegName /\ <<m, "spsr">> \in RegName /\ x[1] \in {"usr", m}
  BY Registers DEF Usr, UserRegs, ExcMode
<1>2. Kept(m, c, t)
  BY <1>1, KeptSet DEF Interrupts
<1>3. t.reg[x] = s.reg[Usr("r0")] /\ \A y \in RegName : y # x => t.reg[y] = s.reg[y]
  BY <1>1, SetGet
<1>4. Where(m, c, t, 2)
  BY <1>1, <1>3 DEF Interrupts, Where, CpuAt, Depth, Usr
<1>5. Stacked(c, t, 2)
  BY StackedSame DEF Interrupts, Saved
<1>6. Holds(c, t, 2)
  BY HoldsSame DEF Interrupts, Held, Usr
<1>7. Scratched(m, c, t, 2)
  BY <1>1, <1>3 DEF Interrupts, Scratched, Where, Depth, Holds, Held, Usr
<1> QED
  BY <1>2, <1>4, <1>5, <1>6, <1>7 DEF Interrupts

\* SUB r0,lr,#4
LEMMA Stage2 ==
  ASSUME NEW m \in {"irq", "fiq"}, NEW c, NEW s, NEW t, Context(c), Context(s), Interrupts(m, c, s, 2),
         t.pc = PcAt(m, 3), t.cpu = s.cpu, t.mem = s.mem, Sets(s, t, Usr("r0"), c.pc)
  PROVE  Interrupts(m, c, t, 3)
<1> DEFINE x == Usr("r0")
<1>1. x \in RegName /\ Usr("r0") \in RegName /\ Usr("r1") \in RegName /\ Usr("sp") \in RegName /\ Usr("lr") \in RegName
      /\ <<m, "sp">> \in RegName /\ <<m, "lr">> \in RegName /\ <<m, "spsr">> \in RegName /\ x[1] \in {"usr", m}
  BY Registers DEF Usr, UserRegs, ExcMode
<1>2. Kept(m, c, t)
  BY <1>1, KeptSet DEF Interrupts
<1>3. t.reg[x] = c.pc /\ \A y \in RegName : y # x => t.reg[y] = s.reg[y]
  BY <1>1, SetGet
<1>4. Where(m, c, t, 3)
  BY <1>1, <1>3 DEF Interrupts, Where, CpuAt, Depth, Usr
<1>5. Stacked(c, t, 3)
  BY StackedSame DEF Interrupts, Saved
<1>6. Holds(c, t, 3)
  BY HoldsSame DEF Interrupts, Held, Usr
<1>7. Scratched(m, c, t, 3)
  BY <1>1, <1>3 DEF Interrupts, Scratched, Where, Depth, Holds, Held, Usr
<1> QED
  BY <1>2, <1>4, <1>5, <1>6, <1>7 DEF Interrupts

\* MOV lr,r1
LEMMA Stage3 ==
  ASSUME NEW m \in {"irq", "fiq"}, NEW c, NEW s, NEW t, Context(c), Context(s), Interrupts(m, c, s, 3),
         t.pc = PcAt(m, 4), t.cpu = s.cpu, t.mem = s.mem, Sets(s, t, <<m, "lr">>, s.reg[Usr("r1")])
  PROVE  Interrupts(m, c, t, 4)
<1> DEFINE x == <<m, "lr">>
<1>1. x \in RegName /\ Usr("r0") \in RegName /\ Usr("r1") \in RegName /\ Usr("sp") \in RegName /\ Usr("lr") \in RegName
      /\ <<m, "sp">> \in RegName /\ <<m, "lr">> \in RegName /\ <<m, "spsr">> \in RegName /\ x[1] \in {"usr", m}
  BY Registers DEF Usr, UserRegs, ExcMode
<1>2. Kept(m, c, t)
  BY <1>1, KeptSet DEF Interrupts
<1>3. t.reg[x] = s.reg[Usr("r1")] /\ \A y \in RegName : y # x => t.reg[y] = s.reg[y]
  BY <1>1, SetGet
<1>4. Where(m, c, t, 4)
  BY <1>1, <1>3 DEF Interrupts, Where, CpuAt, Depth, Usr
<1>5. Stacked(c, t, 4)
  BY StackedSame DEF Interrupts, Saved
<1>6. Holds(c, t, 4)
  BY HoldsSame DEF Interrupts, Held, Usr
<1>7. Scratched(m, c, t, 4)
  BY <1>1, <1>3 DEF Interrupts, Scratched, Where, Depth, Holds, Held, Usr
<1> QED
  BY <1>2, <1>4, <1>5, <1>6, <1>7 DEF Interrupts

\* MRS r1,spsr
LEMMA Stage4 ==
  ASSUME NEW m \in {"irq", "fiq"}, NEW c, NEW s, NEW t, Context(c), Context(s), Interrupts(m, c, s, 4),
         t.pc = PcAt(m, 5), t.cpu = s.cpu, t.mem = s.mem, Sets(s, t, Usr("r1"), s.reg[<<m, "spsr">>])
  PROVE  Interrupts(m, c, t, 5)
<1> DEFINE x == Usr("r1")
<1>1. x \in RegName /\ Usr("r0") \in RegName /\ Usr("r1") \in RegName /\ Usr("sp") \in RegName /\ Usr("lr") \in RegName
      /\ <<m, "sp">> \in RegName /\ <<m, "lr">> \in RegName /\ <<m, "spsr">> \in RegName /\ x[1] \in {"usr", m}
  BY Registers DEF Usr, UserRegs, ExcMode
<1>2. Kept(m, c, t)
  BY <1>1, KeptSet DEF Interrupts
<1>3. t.reg[x] = s.reg[<<m, "spsr">>] /\ \A y \in RegName : y # x => t.reg[y] = s.reg[y]
  BY <1>1, SetGet
<1>4. Where(m, c, t, 5)
  BY <1>1, <1>3 DEF Interrupts, Where, CpuAt, Depth, Usr
<1>5. Stacked(c, t, 5)
  BY StackedSame DEF Interrupts, Saved
<1>6. Holds(c, t, 5)
  BY HoldsSame DEF Interrupts, Held, Usr
<1>7. Scratched(m, c, t, 5)
  BY <1>1, <1>3 DEF Interrupts, Scratched, Where, Depth, Holds, Held, Usr
<1> QED
  BY <1>2, <1>4, <1>5, <1>6, <1>7 DEF Interrupts

\* STMFD sp!,{r0,r1}
LEMMA Stage6 ==
  ASSUME NEW m \in {"irq", "fiq"}, NEW c, NEW s, NEW t, Context(c), Context(s), Fits(m, c), Interrupts(m, c, s, 6),
         t.pc = PcAt(m, 7), t.cpu = s.cpu, Sets(s, t, Usr("sp"), Addr("sys", Sp(c) - 2)),
         NEW low \in Int, low = Sp(c) - 2, Stores(s, t, low, 2, <<c.pc, Psr(c.cpu)>>)
  PROVE  Interrupts(m, c, t, 7)
<1> DEFINE x == Usr("sp")
           ws == <<c.pc, Psr(c.cpu)>>
<1>1. x \in RegName /\ Usr("r0") \in RegName /\ Usr("r1") \in RegName /\ Usr("sp") \in RegName /\ Usr("lr") \in RegName
      /\ <<m, "sp">> \in RegName /\ <<m, "lr">> \in RegName /\ <<m, "spsr">> \in RegName /\ x[1] \in {"usr", m}
  BY Registers DEF Usr, UserRegs, ExcMode
<1>2. Sp(c) \in Int /\ low \in Int /\ 2 \in Nat /\ low + 2 <= Sp(c)
  BY DEF Context
<1>3. t.reg[x] = Addr("sys", Sp(c) - 2) /\ \A y \in RegName : y # x => t.reg[y] = s.reg[y]
  BY <1>1, SetGet
<1>4. Where(m, c, t, 7)
  BY <1>1, <1>3 DEF Interrupts, Where, CpuAt, Depth, Usr
<1>5. Stacked(c, t, 7)
  <2>0. PICK p \in Int : p = Sp(c) /\ low = p - 2 /\ Stores(s, t, low, 2, ws)
    BY <1>2
  <2>1. Saved(7) \subseteq 1 .. 8 /\ p >= 9 /\ p <= StackWords + 1
    BY <2>0 DEF Saved, Fits
  <2>3. Fills(c, ws, 2, 2, 6, 7)
    BY FrameWords DEF Fills, Saved
  <2>4. 2 \in Int /\ 6 \in Int /\ 7 \in Int /\ Stacked(c, s, 6)
    BY DEF Interrupts
  <2> HIDE DEF ws
  <2> QED
    BY <1>2, <2>0, <2>1, <2>3, <2>4, StackedStore
<1>6. Holds(c, t, 7)
  BY HoldsSame DEF Interrupts, Held, Usr
<1>7. Scratched(m, c, t, 7)
  BY <1>1, <1>3 DEF Interrupts, Scratched, Where, Depth, Holds, Held, Usr
<1>8. Kept(m, c, t)
  BY <1>1, <1>2, KeptStore DEF Interrupts
<1> QED
  BY <1>4, <1>5, <1>6, <1>7, <1>8 DEF Interrupts

\* STMFD sp!,{r2,r3,r12,lr}
LEMMA Stage7 ==
  ASSUME NEW m \in {"irq", "fiq"}, NEW c, NEW s, NEW t, Context(c), Context(s), Fits(m, c), Interrupts(m, c, s, 7),
         t.pc = PcAt(m, 8), t.cpu = s.cpu, Sets(s, t, Usr("sp"), Addr("sys", Sp(c) - 6)),
         NEW low \in Int, low = Sp(c) - 6, Stores(s, t, low, 4, <<c.reg[Usr("r2")], c.reg[Usr("r3")], c.reg[Usr("r12")], c.reg[Usr("lr")]>>)
  PROVE  Interrupts(m, c, t, 8)
<1> DEFINE x == Usr("sp")
           ws == <<c.reg[Usr("r2")], c.reg[Usr("r3")], c.reg[Usr("r12")], c.reg[Usr("lr")]>>
<1>1. x \in RegName /\ Usr("r0") \in RegName /\ Usr("r1") \in RegName /\ Usr("sp") \in RegName /\ Usr("lr") \in RegName
      /\ <<m, "sp">> \in RegName /\ <<m, "lr">> \in RegName /\ <<m, "spsr">> \in RegName /\ x[1] \in {"usr", m}
  BY Registers DEF Usr, UserRegs, ExcMode
<1>2. Sp(c) \in Int /\ low \in Int /\ 4 \in Nat /\ low + 4 <= Sp(c)
  BY DEF Context
<1>3. t.reg[x] = Addr("sys", Sp(c) - 6) /\ \A y \in RegName : y # x => t.reg[y] = s.reg[y]
  BY <1>1, SetGet
<1>4. Where(m, c, t, 8)
  BY <1>1, <1>3 DEF Interrupts, Where, CpuAt, Depth, Usr
<1>5. Stacked(c, t, 8)
  <2>0. PICK p \in Int : p = Sp(c) /\ low = p - 6 /\ Stores(s, t, low, 4, ws)
    BY <1>2
  <2>1. Saved(8) \subseteq 1 .. 8 /\ p >= 9 /\ p <= StackWords + 1
    BY <2>0 DEF Saved, Fits
  <2>3. Fills(c, ws, 4, 6, 7, 8)
    BY FrameWords DEF Fills, Saved
  <2>4. 6 \in Int /\ 7 \in Int /\ 8 \in Int /\ Stacked(c, s, 7)
    BY DEF Interrupts
  <2> HIDE DEF ws
  <2> QED
    BY <1>2, <2>0, <2>1, <2>3, <2>4, StackedStore
<1>6. Holds(c, t, 8)
  BY HoldsSame DEF Interrupts, Held, Usr
<1>7. Scratched(m, c, t, 8)
  BY <1>1, <1>3 DEF Interrupts, Scratched, Where, Depth, Holds, Held, Usr
<1>8. Kept(m, c, t)
  BY <1>1, <1>2, KeptStore DEF Interrupts
<1> QED
  BY <1>4, <1>5, <1>6, <1>7, <1>8 DEF Interrupts

\* MOV r0,sp
LEMMA Stage8 ==
  ASSUME NEW m \in {"irq", "fiq"}, NEW c, NEW s, NEW t, Context(c), Context(s), Interrupts(m, c, s, 8),
         t.pc = PcAt(m, 9), t.cpu = s.cpu, t.mem = s.mem, Sets(s, t, Usr("r0"), s.reg[Usr("sp")])
  PROVE  Interrupts(m, c, t, 9)
<1> DEFINE x == Usr("r0")
<1>1. x \in RegName /\ Usr("r0") \in RegName /\ Usr("r1") \in RegName /\ Usr("sp") \in RegName /\ Usr("lr") \in RegName
      /\ <<m, "sp">> \in RegName /\ <<m, "lr">> \in RegName /\ <<m, "spsr">> \in RegName /\ x[1] \in {"usr", m}
  BY Registers DEF Usr, UserRegs, ExcMode
<1>2. Kept(m, c, t)
  BY <1>1, KeptSet DEF Interrupts
<1>3. t.reg[x] = s.reg[Usr("sp")] /\ \A y \in RegName : y # x => t.reg[y] = s.reg[y]
  BY <1>1, SetGet
<1>4. Where(m, c, t, 9)
  BY <1>1, <1>3 DEF Interrupts, Where, CpuAt, Depth, Usr
<1>5. Stacked(c, t, 9)
  BY StackedSame DEF Interrupts, Saved
<1>6. Holds(c, t, 9)
  BY HoldsSame DEF Interrupts, Held, Usr
<1>7. Scratched(m, c, t, 9)
  BY <1>1, <1>3 DEF Interrupts, Scratched, Where, Depth, Holds, Held, Usr
<1> QED
  BY <1>2, <1>4, <1>5, <1>6, <1>7 DEF Interrupts

\* SUB sp,sp,#8
LEMMA Stage9 ==
  ASSUME NEW m \in {"irq", "fiq"}, NEW c, NEW s, NEW t, Context(c), Context(s), Interrupts(m, c, s, 9),
         t.pc = PcAt(m, 10), t.cpu = s.cpu, t.mem = s.mem, Sets(s, t, Usr("sp"), Addr("sys", Sp(c) - 8))
  PROVE  Interrupts(m, c, t, 10)
<1> DEFINE x == Usr("sp")
<1>1. x \in RegName /\ Usr("r0") \in RegName /\ Usr("r1") \in RegName /\ Usr("sp") \in RegName /\ Usr("lr") \in RegName
      /\ <<m, "sp">> \in RegName /\ <<m, "lr">> \in RegName /\ <<m, "spsr">> \in RegName /\ x[1] \in {"usr", m}
  BY Registers DEF Usr, UserRegs, ExcMode
<1>2. Kept(m, c, t)
  BY <1>1, KeptSet DEF Interrupts
<1>3. t.reg[x] = Addr("sys", Sp(c) - 8) /\ \A y \in RegName : y # x => t.reg[y] = s.reg[y]
  BY <1>1, SetGet
<1>4. Where(m, c, t, 10)
  BY <1>1, <1>3 DEF Interrupts, Where, CpuAt, Depth, Usr
<1>5. Stacked(c, t, 10)
  BY StackedSame DEF Interrupts, Saved
<1>6. Holds(c, t, 10)
  BY HoldsSame DEF Interrupts, Held, Usr
<1>7. Scratched(m, c, t, 10)
  BY <1>1, <1>3 DEF Interrupts, Scratched, Where, Depth, Holds, Held, Usr
<1> QED
  BY <1>2, <1>4, <1>5, <1>6, <1>7 DEF Interrupts

\* STMFD r0!,{sp,lr}
LEMMA Stage11 ==
  ASSUME NEW m \in {"irq", "fiq"}, NEW c, NEW s, NEW t, Context(c), Context(s), Fits(m, c), Interrupts(m, c, s, 11),
         t.pc = PcAt(m, 12), t.cpu = s.cpu, Sets(s, t, Usr("r0"), Addr("sys", Sp(c) - 8)),
         NEW low \in Int, low = Sp(c) - 8, Stores(s, t, low, 2, <<c.reg[Usr("r0")], c.reg[Usr("r1")]>>)
  PROVE  Interrupts(m, c, t, 12)
<1> DEFINE x == Usr("r0")
           ws == <<c.reg[Usr("r0")], c.reg[Usr("r1")]>>
<1>1. x \in RegName /\ Usr("r0") \in RegName /\ Usr("r1") \in RegName /\ Usr("sp") \in RegName /\ Usr("lr") \in RegName
      /\ <<m, "sp">> \in RegName /\ <<m, "lr">> \in RegName /\ <<m, "spsr">> \in RegName /\ x[1] \in {"usr", m}
  BY Registers DEF Usr, UserRegs, ExcMode
<1>2. Sp(c) \in Int /\ low \in Int /\ 2 \in Nat /\ low + 2 <= Sp(c)
  BY DEF Context
<1>3. t.reg[x] = Addr("sys", Sp(c) - 8) /\ \A y \in RegName : y # x => t.reg[y] = s.reg[y]
  BY <1>1, SetGet
<1>4. Where(m, c, t, 12)
  BY <1>1, <1>3 DEF Interrupts, Where, CpuAt, Depth, Usr
<1>5. Stacked(c, t, 12)
  <2>0. PICK p \in Int : p = Sp(c) /\ low = p - 8 /\ Stores(s, t, low, 2, ws)
    BY <1>2
  <2>1. Saved(12) \subseteq 1 .. 8 /\ p >= 9 /\ p <= StackWords + 1
    BY <2>0 DEF Saved, Fits
  <2>3. Fills(c, ws, 2, 8, 11, 12)
    BY FrameWords DEF Fills, Saved
  <2>4. 8 \in Int /\ 11 \in Int /\ 12 \in Int /\ Stacked(c, s, 11)
    BY DEF Interrupts
  <2> HIDE DEF ws
  <2> QED
    BY <1>2, <2>0, <2>1, <2>3, <2>4, StackedStore
<1>6. Holds(c, t, 12)
  BY HoldsSame DEF Interrupts, Held, Usr
<1>7. Scratched(m, c, t, 12)
  BY <1>1, <1>3 DEF Interrupts, Scratched, Where, Depth, Holds, Held, Usr
<1>8. Kept(m, c, t)
  BY <1>1, <1>2, KeptStore DEF Interrupts
<1> QED
  BY <1>4, <1>5, <1>6, <1>7, <1>8 DEF Interrupts

\* MOV r0,sp
LEMMA Stage25 ==
  ASSUME NEW m \in {"irq", "fiq"}, NEW c, NEW s, NEW t, Context(c), Context(s), Interrupts(m, c, s, 25),
         t.pc = PcAt(m, 26), t.cpu = s.cpu, t.mem = s.mem, Sets(s, t, Usr("r0"), s.reg[Usr("sp")])
  PROVE  Interrupts(m, c, t, 26)
<1> DEFINE x == Usr("r0")
<1>1. x \in RegName /\ Usr("r0") \in RegName /\ Usr("r1") \in RegName /\ Usr("sp") \in RegName /\ Usr("lr") \in RegName
      /\ <<m, "sp">> \in RegName /\ <<m, "lr">> \in RegName /\ <<m, "spsr">> \in RegName /\ x[1] \in {"usr", m}
  BY Registers DEF Usr, UserRegs, ExcMode
<1>2. Kept(m, c, t)
  BY <1>1, KeptSet DEF Interrupts
<1>3. t.reg[x] = s.reg[Usr("sp")] /\ \A y \in RegName : y # x => t.reg[y] = s.reg[y]
  BY <1>1, SetGet
<1>4. Where(m, c, t, 26)
  BY <1>1, <1>3 DEF Interrupts, Where, CpuAt, Depth, Usr
<1>5. Stacked(c, t, 26)
  BY StackedSame DEF Interrupts, Saved
<1>6. Holds(c, t, 26)
  BY HoldsSame DEF Interrupts, Held, Usr
<1>7. Scratched(m, c, t, 26)
  BY <1>1, <1>3 DEF Interrupts, Scratched, Where, Depth, Holds, Held, Usr
<1> QED
  BY <1>2, <1>4, <1>5, <1>6, <1>7 DEF Interrupts

\* ADD sp,sp,#32
LEMMA Stage26 ==
  ASSUME NEW m \in {"irq", "fiq"}, NEW c, NEW s, NEW t, Context(c), Context(s), Interrupts(m, c, s, 26),
         t.pc = PcAt(m, 27), t.cpu = s.cpu, t.mem = s.mem, Sets(s, t, Usr("sp"), Addr("sys", Sp(c) - 0))
  PROVE  Interrupts(m, c, t, 27)
<1> DEFINE x == Usr("sp")
<1>1. x \in RegName /\ Usr("r0") \in RegName /\ Usr("r1") \in RegName /\ Usr("sp") \in RegName /\ Usr("lr") \in RegName
      /\ <<m, "sp">> \in RegName /\ <<m, "lr">> \in RegName /\ <<m, "spsr">> \in RegName /\ x[1] \in {"usr", m}
  BY Registers DEF Usr, UserRegs, ExcMode
<1>2. Kept(m, c, t)
  BY <1>1, KeptSet DEF Interrupts
<1>3. t.reg[x] = Addr("sys", Sp(c) - 0) /\ \A y \in RegName : y # x => t.reg[y] = s.reg[y]
  BY <1>1, SetGet
<1>4. Where(m, c, t, 27)
  BY <1>1, <1>3 DEF Interrupts, Where, CpuAt, Depth, Usr
<1>5. Stacked(c, t, 27)
  BY StackedSame DEF Interrupts, Saved
<1>6. Holds(c, t, 27)
  BY HoldsSame DEF Interrupts, Held, Usr
<1>7. Scratched(m, c, t, 27)
  BY <1>1, <1>3 DEF Interrupts, Scratched, Where, Depth, Holds, Held, Usr
<1> QED
  BY <1>2, <1>4, <1>5, <1>6, <1>7 DEF Interrupts

\* MOV sp,r0
LEMMA Stage28 ==
  ASSUME NEW m \in {"irq", "fiq"}, NEW c, NEW s, NEW t, Context(c), Context(s), Interrupts(m, c, s, 28),
         t.pc = PcAt(m, 29), t.cpu = s.cpu, t.mem = s.mem, Sets(s, t, <<m, "sp">>, s.reg[Usr("r0")])
  PROVE  Interrupts(m, c, t, 29)
<1> DEFINE x == <<m, "sp">>
<1>1. x \in RegName /\ Usr("r0") \in RegName /\ Usr("r1") \in RegName /\ Usr("sp") \in RegName /\ Usr("lr") \in RegName
      /\ <<m, "sp">> \in RegName /\ <<m, "lr">> \in RegName /\ <<m, "spsr">> \in RegName /\ x[1] \in {"usr", m}
  BY Registers DEF Usr, UserRegs, ExcMode
<1>2. Kept(m, c, t)
  BY <1>1, KeptSet DEF Interrupts
<1>3. t.reg[x] = s.reg[Usr("r0")] /\ \A y \in RegName : y # x => t.reg[y] = s.reg[y]
  BY <1>1, SetGet
<1>4. Where(m, c, t, 29)
  BY <1>1, <1>3 DEF Interrupts, Where, CpuAt, Depth, Usr
<1>5. Stacked(c, t, 29)
  BY StackedSame DEF Interrupts, Saved
<1>6. Holds(c, t, 29)
  BY HoldsSame DEF Interrupts, Held, Usr
<1>7. Scratched(m, c, t, 29)
  BY <1>1, <1>3 DEF Interrupts, Scratched, Where, Depth, Holds, Held, Usr
<1> QED
  BY <1>2, <1>4, <1>5, <1>6, <1>7 DEF Interrupts

\* LDR r0,[sp,#28]
LEMMA Stage29 ==
  ASSUME NEW m \in {"irq", "fiq"}, NEW c, NEW s, NEW t, Context(c), Context(s), Interrupts(m, c, s, 29),
         t.pc = PcAt(m, 30), t.cpu = s.cpu, t.mem = s.mem, Sets(s, t, Usr("r0"), Psr(c.cpu))
  PROVE  Interrupts(m, c, t, 30)
<1> DEFINE x == Usr("r0")
<1>1. x \in RegName /\ Usr("r0") \in RegName /\ Usr("r1") \in RegName /\ Usr("sp") \in RegName /\ Usr("lr") \in RegName
      /\ <<m, "sp">> \in RegName /\ <<m, "lr">> \in RegName /\ <<m, "spsr">> \in RegName /\ x[1] \in {"usr", m}
  BY Registers DEF Usr, UserRegs, ExcMode
<1>2. Kept(m, c, t)
  BY <1>1, KeptSet DEF Interrupts
<1>3. t.reg[x] = Psr(c.cpu) /\ \A y \in RegName : y # x => t.reg[y] = s.reg[y]
  BY <1>1, SetGet
<1>4. Where(m, c, t, 30)
  BY <1>1, <1>3 DEF Interrupts, Where, CpuAt, Depth, Usr
<1>5. Stacked(c, t, 30)
  BY StackedSame DEF Interrupts, Saved
<1>6. Holds(c, t, 30)
  BY HoldsSame DEF Interrupts, Held, Usr
<1>7. Scratched(m, c, t, 30)
  BY <1>1, <1>3 DEF Interrupts, Scratched, Where, Depth, Holds, Held, Usr
<1> QED
  BY <1>2, <1>4, <1>5, <1>6, <1>7 DEF Interrupts

\* MSR spsr,r0
LEMMA Stage30 ==
  ASSUME NEW m \in {"irq", "fiq"}, NEW c, NEW s, NEW t, Context(c), Context(s), Interrupts(m, c, s, 30),
         t.pc = PcAt(m, 31), t.cpu = s.cpu, t.mem = s.mem, Sets(s, t, <<m, "spsr">>, s.reg[Usr("r0")])
  PROVE  Interrupts(m, c, t, 31)
<1> DEFINE x == <<m, "spsr">>
<1>1. x \in RegName /\ Usr("r0") \in RegName /\ Usr("r1") \in RegName /\ Usr("sp") \in RegName /\ Usr("lr") \in RegName
      /\ <<m, "sp">> \in RegName /\ <<m, "lr">> \in RegName /\ <<m, "spsr">> \in RegName /\ x[1] \in {"usr", m}
  BY Registers DEF Usr, UserRegs, ExcMode
<1>2. Kept(m, c, t)
  BY <1>1, KeptSet DEF Interrupts
<1>3. t.reg[x] = s.reg[Usr("r0")] /\ \A y \in RegName : y # x => t.reg[y] = s.reg[y]
  BY <1>1, SetGet
<1>4. Where(m, c, t, 31)
  BY <1>1, <1>3 DEF Interrupts, Where, CpuAt, Depth, Usr
<1>5. Stacked(c, t, 31)
  BY StackedSame DEF Interrupts, Saved
<1>6. Holds(c, t, 31)
  BY HoldsSame DEF Interrupts, Held, Usr
<1>7. Scratched(m, c, t, 31)
  BY <1>1, <1>3 DEF Interrupts, Scratched, Where, Depth, Holds, Held, Usr
<1> QED
  BY <1>2, <1>4, <1>5, <1>6, <1>7 DEF Interrupts

\* LDR lr,[sp,#24]
LEMMA Stage32 ==
  ASSUME NEW m \in {"irq", "fiq"}, NEW c, NEW s, NEW t, Context(c), Context(s), Interrupts(m, c, s, 32),
         t.pc = PcAt(m, 33), t.cpu = s.cpu, t.mem = s.mem, Sets(s, t, <<m, "lr">>, c.pc)
  PROVE  Interrupts(m, c, t, 33)
<1> DEFINE x == <<m, "lr">>
<1>1. x \in RegName /\ Usr("r0") \in RegName /\ Usr("r1") \in RegName /\ Usr("sp") \in RegName /\ Usr("lr") \in RegName
      /\ <<m, "sp">> \in RegName /\ <<m, "lr">> \in RegName /\ <<m, "spsr">> \in RegName /\ x[1] \in {"usr", m}
  BY Registers DEF Usr, UserRegs, ExcMode
<1>2. Kept(m, c, t)
  BY <1>1, KeptSet DEF Interrupts
<1>3. t.reg[x] = c.pc /\ \A y \in RegName : y # x => t.reg[y] = s.reg[y]
  BY <1>1, SetGet
<1>4. Where(m, c, t, 33)
  BY <1>1, <1>3 DEF Interrupts, Where, CpuAt, Depth, Usr
<1>5. Stacked(c, t, 33)
  BY StackedSame DEF Interrupts, Saved
<1>6. Holds(c, t, 33)
  BY HoldsSame DEF Interrupts, Held, Usr
<1>7. Scratched(m, c, t, 33)
  BY <1>1, <1>3 DEF Interrupts, Scratched, Where, Depth, Holds, Held, Usr
<1> QED
  BY <1>2, <1>4, <1>5, <1>6, <1>7 DEF Interrupts

\* The C functions change the registers that the calling convention lets them, no others.
Clobbers(s, t) ==
  \A r \in RegName : r[1] # "usr" \/ r[2] \in {"lr", "sp"} => t.reg[r] = s.reg[r]

\* A C function that keeps to the APCS disturbs nothing that is kept.
LEMMA KeptClobbered ==
  ASSUME NEW m \in {"irq", "fiq"}, NEW c, NEW s, NEW t, Kept(m, c, s), Clobbers(s, t), t.mem = s.mem
  PROVE  Kept(m, c, t)
  BY DEF Kept, Clobbers

\* MSR cpsr
LEMMA StageMsr ==
  ASSUME NEW m \in {"irq", "fiq"}, NEW c, NEW s, NEW t, NEW n \in {5, 10, 12, 17, 19, 24, 27}, Interrupts(m, c, s, n),
         t.pc = PcAt(m, n + 1), t.cpu = CpuAt(m, n + 1), t.reg = s.reg, t.mem = s.mem
  PROVE  Interrupts(m, c, t, n + 1)
<1>1. Kept(m, c, t)
  BY DEF Interrupts, Kept
<1>2. Depth(n + 1) = Depth(n) /\ Saved(n + 1) = Saved(n) /\ Held(n + 1) = Held(n)
  BY DEF Depth, Saved, Held
<1>3. Where(m, c, t, n + 1)
  BY <1>2 DEF Interrupts, Where
<1>4. Stacked(c, t, n + 1)
  BY <1>2 DEF Interrupts, Stacked
<1>5. Holds(c, t, n + 1)
  BY <1>2 DEF Interrupts, Holds
<1>6. Scratched(m, c, t, n + 1)
  BY DEF Interrupts, Scratched
<1> QED
  BY <1>1, <1>3, <1>4, <1>5, <1>6 DEF Interrupts

\* LDR r12,=handler; MOV lr,pc; BX r12
LEMMA Stage13 ==
  ASSUME NEW m \in {"irq", "fiq"}, NEW c, NEW s, NEW t, NEW w, NEW n, n = (IF m = "irq" THEN 14 ELSE 23),
         Context(c), Context(s), Interrupts(m, c, s, 13), t.pc = PcAt(m, n), t.cpu = s.cpu, t.mem = s.mem,
         t.reg = [s.reg EXCEPT ![Usr("r12")] = w, ![Usr("lr")] = PcAt(m, IF m = "irq" THEN 24 ELSE 25)]
  PROVE  Interrupts(m, c, t, n)
<1>1. Usr("r12") \in RegName /\ Usr("lr") \in RegName /\ Usr("sp") \in RegName
  BY Registers DEF UserRegs
<1>2. /\ t.reg[Usr("lr")] = PcAt(m, IF m = "irq" THEN 24 ELSE 25) /\ t.reg[Usr("sp")] = s.reg[Usr("sp")]
      /\ \A r \in RegName : r[1] # "usr" => t.reg[r] = s.reg[r]
  BY <1>1 DEF Context, Usr
<1>3. Where(m, c, t, n)
  BY <1>2 DEF Interrupts, Where, CpuAt, Depth
<1>4. Stacked(c, t, n)
  BY StackedSame DEF Interrupts, Saved
<1>5. Holds(c, t, n)
  BY DEF Holds, Held
<1>6. Scratched(m, c, t, n)
  BY <1>2 DEF Scratched
<1>7. Kept(m, c, t)
  BY <1>2 DEF Interrupts, Kept
<1> QED
  BY <1>3, <1>4, <1>5, <1>6, <1>7 DEF Interrupts

\* STMFD sp!,{r0,lr}: BSP_irq's frame
LEMMA Stage14 ==
  ASSUME NEW m \in {"irq"}, NEW c, NEW s, NEW t, Context(c), Context(s), Fits(m, c), Interrupts(m, c, s, 14),
         t.pc = PcAt(m, 15), t.cpu = s.cpu, Sets(s, t, Usr("sp"), Addr("sys", Sp(c) - 10)),
         NEW low \in Int, low = Sp(c) - 10, Stores(s, t, low, 2, <<s.reg[Usr("r0")], PcAt(m, 24)>>)
  PROVE  Interrupts(m, c, t, 15)
<1> DEFINE x == Usr("sp")
           ws == <<s.reg[Usr("r0")], PcAt(m, 24)>>
<1>1. x \in RegName /\ Usr("r0") \in RegName /\ Usr("r1") \in RegName /\ Usr("sp") \in RegName /\ Usr("lr") \in RegName
      /\ <<m, "sp">> \in RegName /\ <<m, "lr">> \in RegName /\ <<m, "spsr">> \in RegName /\ x[1] \in {"usr", m}
  BY Registers DEF Usr, UserRegs, ExcMode
<1>2. Sp(c) \in Int /\ low \in Int /\ 2 \in Nat /\ low + 2 <= Sp(c)
  BY DEF Context
<1>3. t.reg[x] = Addr("sys", Sp(c) - 10) /\ \A y \in RegName : y # x => t.reg[y] = s.reg[y]
  BY <1>1, SetGet
<1>4. Where(m, c, t, 15)
  BY <1>1, <1>3 DEF Interrupts, Where, CpuAt, Depth, Usr
<1>5. Stacked(c, t, 15)
  <2>0. PICK p \in Int : p = Sp(c) /\ low = p - 10 /\ Stores(s, t, low, 2, ws)
    BY <1>2
  <2>1. Saved(15) \subseteq 1 .. 8 /\ p >= 9 /\ p <= StackWords + 1
    BY <2>0 DEF Saved, Fits
  <2>3. Fills(c, ws, 2, 10, 14, 15)
    BY FrameWords DEF Fills, Saved
  <2>4. 10 \in Int /\ 14 \in Int /\ 15 \in Int /\ Stacked(c, s, 14)
    BY DEF Interrupts
  <2> HIDE DEF ws
  <2> QED
    BY <1>2, <2>0, <2>1, <2>3, <2>4, StackedStore
<1>6. Holds(c, t, 15)
  BY HoldsSame DEF Interrupts, Held, Usr
<1>7. Scratched(m, c, t, 15)
  <2>1. Sp(c) - 9 \in 1 .. StackWords /\ low <= Sp(c) - 9 /\ Sp(c) - 9 < low + 2 /\ (Sp(c) - 9) - low + 1 = 2
    BY <1>2, StackAssumption DEF Fits
  <2>2. t.mem[<<"sys", Sp(c) - 9>>] = ws[2]
    BY <1>2, <2>1, StoreGet
  <2> QED
    BY <1>1, <1>3, <2>2 DEF Interrupts, Scratched, Usr
<1>8. Kept(m, c, t)
  BY <1>1, <1>2, KeptStore DEF Interrupts
<1> QED
  BY <1>4, <1>5, <1>6, <1>7, <1>8 DEF Interrupts

\* irq = goldfish_get_irq_num(): the number goes to the frame, and to the history.
LEMMA Stage15 ==
  ASSUME NEW c, NEW d, NEW s, NEW t, NEW w, Context(c), Context(s), Fits("irq", c), Interrupts("irq", c, s, 15),
         d = [c EXCEPT !.irq = w], t.pc = PcAt("irq", 16), t.cpu = s.cpu, Clobbers(s, t),
         t.mem = [s.mem EXCEPT ![<<"sys", Sp(c) - 10>>] = Number(w)]
  PROVE  Interrupts("irq", d, t, 16)
<1>1. d.pc = c.pc /\ d.cpu = c.cpu /\ d.reg = c.reg /\ d.mem = c.mem /\ d.irq = w
  BY DEF Context
<1>2. Sp(d) = Sp(c) /\ FrameWord(d) = FrameWord(c) /\ Sp(c) \in Int /\ Usr("sp") \in RegName
  BY <1>1, Registers DEF Sp, FrameWord, Context, UserRegs
<1>3. <<"sys", Sp(c) - 10>> \in Cell
  BY <1>2, StackAssumption DEF Cell, Fits
<1>4. /\ t.mem[<<"sys", Sp(c) - 10>>] = Number(w)
      /\ \A a \in Cell : a # <<"sys", Sp(c) - 10>> => t.mem[a] = s.mem[a]
  BY <1>3 DEF Context
<1>5. ASSUME NEW i \in 0 .. 8 PROVE t.mem[<<"sys", Sp(c) - 9 + i>>] = s.mem[<<"sys", Sp(c) - 9 + i>>]
  <2>1. PICK j \in Int : j = Sp(c) - 9 + i
    BY <1>2
  <2>2. j \in 1 .. StackWords /\ j # Sp(c) - 10
    BY <1>2, <2>1, StackAssumption DEF Fits
  <2>3. <<"sys", j>> \in Cell /\ <<"sys", j>> # <<"sys", Sp(c) - 10>>
    BY <2>2 DEF Cell
  <2> QED
    BY <1>4, <2>1, <2>3
<1>6. Where("irq", d, t, 16)
  BY <1>2 DEF Interrupts, Where, CpuAt, Depth, Clobbers, Usr
<1>7. Stacked(d, t, 16)
  BY <1>2, <1>5 DEF Interrupts, Stacked, Saved
<1>8. Holds(d, t, 16)
  BY DEF Holds, Held
<1>9. Scratched("irq", d, t, 16)
  <2>1. t.mem[<<"sys", Sp(c) - 9>>] = s.mem[<<"sys", Sp(c) - 9>>]
    <3>1. Sp(c) - 9 + 0 = Sp(c) - 9
      BY <1>2
    <3> QED
      BY <1>5, <3>1
  <2> QED
    BY <1>1, <1>2, <1>4, <2>1 DEF Interrupts, Scratched
<1>10. Kept("irq", d, t)
  <2>1. ASSUME NEW a \in Cell, a[1] = "svc" \/ a[2] >= Sp(c) PROVE a # <<"sys", Sp(c) - 10>>
    BY <1>2, <2>1 DEF Cell
  <2> QED
    BY <1>1, <1>2, <1>4, <2>1 DEF Interrupts, Kept, Clobbers
<1> QED
  BY <1>6, <1>7, <1>8, <1>9, <1>10 DEF Interrupts

\* The other statements of BSP_irq.
LEMMA StageC ==
  ASSUME NEW c, NEW s, NEW t, NEW n \in {16, 18, 20}, Interrupts("irq", c, s, n),
         t.pc = PcAt("irq", n + 1), t.cpu = s.cpu, Clobbers(s, t), t.mem = s.mem
  PROVE  Interrupts("irq", c, t, n + 1)
<1>1. Usr("sp") \in RegName
  BY Registers DEF UserRegs
<1>2. Where("irq", c, t, n + 1)
  BY <1>1 DEF Interrupts, Where, CpuAt, Depth, Clobbers, Usr
<1>3. Stacked(c, t, n + 1)
  BY DEF Interrupts, Stacked, Saved
<1>4. Holds(c, t, n + 1)
  BY DEF Holds, Held
<1>5. Scratched("irq", c, t, n + 1)
  BY DEF Interrupts, Scratched
<1>6. Kept("irq", c, t)
  BY KeptClobbered DEF Interrupts
<1> QED
  BY <1>2, <1>3, <1>4, <1>5, <1>6 DEF Interrupts

\* LDR lr,[sp,#4]
LEMMA Stage21 ==
  ASSUME NEW m, m = "irq", NEW c, NEW s, NEW t, Context(c), Context(s), Interrupts(m, c, s, 21),
         t.pc = PcAt(m, 22), t.cpu = s.cpu, t.mem = s.mem, Sets(s, t, Usr("lr"), PcAt(m, 24))
  PROVE  Interrupts(m, c, t, 22)
<1> DEFINE x == Usr("lr")
<1>1. x \in RegName /\ Usr("r0") \in RegName /\ Usr("r1") \in RegName /\ Usr("sp") \in RegName /\ Usr("lr") \in RegName
      /\ <<m, "sp">> \in RegName /\ <<m, "lr">> \in RegName /\ <<m, "spsr">> \in RegName /\ x[1] \in {"usr", m}
  BY Registers DEF Usr, UserRegs, ExcMode
<1>2. Kept(m, c, t)
  BY <1>1, KeptSet DEF Interrupts
<1>3. t.reg[x] = PcAt(m, 24) /\ \A y \in RegName : y # x => t.reg[y] = s.reg[y]
  BY <1>1, SetGet
<1>4. Where(m, c, t, 22)
  BY <1>1, <1>3 DEF Interrupts, Where, CpuAt, Depth, Usr
<1>5. Stacked(c, t, 22)
  BY StackedSame DEF Interrupts, Saved
<1>6. Holds(c, t, 22)
  BY HoldsSame DEF Interrupts, Held, Usr
<1>7. Scratched(m, c, t, 22)
  BY <1>1, <1>3 DEF Interrupts, Scratched, Where, Depth, Holds, Held, Usr
<1> QED
  BY <1>2, <1>4, <1>5, <1>6, <1>7 DEF Interrupts

\* ADD sp,sp,#8
LEMMA Stage22 ==
  ASSUME NEW m, m = "irq", NEW c, NEW s, NEW t, Context(c), Context(s), Interrupts(m, c, s, 22),
         t.pc = PcAt(m, 23), t.cpu = s.cpu, t.mem = s.mem, Sets(s, t, Usr("sp"), Addr("sys", Sp(c) - 8))
  PROVE  Interrupts(m, c, t, 23)
<1> DEFINE x == Usr("sp")
<1>1. x \in RegName /\ Usr("r0") \in RegName /\ Usr("r1") \in RegName /\ Usr("sp") \in RegName /\ Usr("lr") \in RegName
      /\ <<m, "sp">> \in RegName /\ <<m, "lr">> \in RegName /\ <<m, "spsr">> \in RegName /\ x[1] \in {"usr", m}
  BY Registers DEF Usr, UserRegs, ExcMode
<1>2. Kept(m, c, t)
  BY <1>1, KeptSet DEF Interrupts
<1>3. t.reg[x] = Addr("sys", Sp(c) - 8) /\ \A y \in RegName : y # x => t.reg[y] = s.reg[y]
  BY <1>1, SetGet
<1>4. Where(m, c, t, 23)
  BY <1>1, <1>3 DEF Interrupts, Where, CpuAt, Depth, Usr
<1>5. Stacked(c, t, 23)
  BY StackedSame DEF Interrupts, Saved
<1>6. Holds(c, t, 23)
  BY HoldsSame DEF Interrupts, Held, Usr
<1>7. Scratched(m, c, t, 23)
  BY <1>1, <1>3 DEF Interrupts, Scratched, Where, Depth, Holds, Held, Usr
<1> QED
  BY <1>2, <1>4, <1>5, <1>6, <1>7 DEF Interrupts

\* BX lr
LEMMA Stage23 ==
  ASSUME NEW m \in {"irq", "fiq"}, NEW c, NEW s, NEW t, NEW n, n = (IF m = "irq" THEN 24 ELSE 25),
         Interrupts(m, c, s, 23), t.pc = PcAt(m, n), t.cpu = s.cpu, t.mem = s.mem, t.reg = s.reg
  PROVE  Interrupts(m, c, t, n)
<1>1. Where(m, c, t, n)
  BY DEF Interrupts, Where, CpuAt, Depth
<1>2. Stacked(c, t, n) /\ Holds(c, t, n)
  BY DEF Interrupts, Stacked, Saved, Holds, Held
<1>3. Scratched(m, c, t, n)
  BY DEF Interrupts, Scratched
<1>4. Kept(m, c, t)
  BY DEF Interrupts, Kept
<1> QED
  BY <1>1, <1>2, <1>3, <1>4 DEF Interrupts

\* LDMFD sp,{r0-r3,r12,lr}^
LEMMA Stage31 ==
  ASSUME NEW m \in {"irq", "fiq"}, NEW c, NEW s, NEW t, Context(s), Interrupts(m, c, s, 31),
         t.pc = PcAt(m, 32), t.cpu = s.cpu, t.mem = s.mem,
         \A r \in RegName : r[1] # "usr" \/ r[2] = "sp" => t.reg[r] = s.reg[r],
         Holds(c, t, 32)
  PROVE  Interrupts(m, c, t, 32)
<1>1. Usr("sp") \in RegName /\ <<m, "sp">> \in RegName /\ <<m, "lr">> \in RegName /\ <<m, "spsr">> \in RegName
  BY Registers DEF UserRegs, ExcMode
<1>2. Where(m, c, t, 32)
  BY <1>1 DEF Interrupts, Where, CpuAt, Depth, Usr
<1>3. Stacked(c, t, 32)
  BY DEF Interrupts, Stacked, Saved
<1>4. Scratched(m, c, t, 32)
  BY <1>1 DEF Interrupts, Scratched
<1>5. Kept(m, c, t)
  BY DEF Interrupts, Kept
<1> QED
  BY <1>2, <1>3, <1>4, <1>5 DEF Interrupts

-----------------------------------------------------------------------------
(* Entry, return, and an exception taken and left inside BSP_irq.          *)

\* An exception's entry by the hardware.
LEMMA Enter ==
  ASSUME NEW m \in {"irq", "fiq"}, NEW c, NEW t, Context(c),
         t.pc = PcAt(m, 1), t.cpu = CpuAt(m, 1), t.mem = c.mem,
         t.reg = [c.reg EXCEPT ![<<m, "lr">>] = Code(c.pc[2], c.pc[3] + 1), ![<<m, "spsr">>] = Psr(c.cpu)]
  PROVE  Interrupts(m, c, t, 1)
<1>1. <<m, "lr">> \in RegName /\ <<m, "spsr">> \in RegName /\ \A r \in UserRegs : Usr(r) \in RegName
  BY Registers DEF ExcMode
<1>2. /\ t.reg[<<m, "lr">>] = Code(c.pc[2], c.pc[3] + 1) /\ t.reg[<<m, "spsr">>] = Psr(c.cpu)
      /\ \A r \in RegName : r[1] # m => t.reg[r] = c.reg[r]
  BY <1>1 DEF Context
<1>3. \A r \in UserRegs : t.reg[Usr(r)] = c.reg[Usr(r)]
  BY <1>1, <1>2 DEF Usr
<1>4. Where(m, c, t, 1)
  <2>1. Sp(c) - 0 = Sp(c)
    BY DEF Context
  <2> QED
    BY <1>3, <2>1 DEF Where, Depth, Context, UserRegs
<1>5. Stacked(c, t, 1)
  BY DEF Stacked, Saved
<1>6. Holds(c, t, 1)
  BY <1>3 DEF Holds, Held, UserRegs
<1>7. Scratched(m, c, t, 1)
  BY <1>2 DEF Scratched
<1>8. Kept(m, c, t)
  BY <1>2 DEF Kept
<1> QED
  BY <1>4, <1>5, <1>6, <1>7, <1>8 DEF Interrupts

\* t goes on where exception e interrupted c.
Resumes(e, c, t) ==
  /\ t.pc = c.pc /\ t.cpu = c.cpu
  /\ \A r \in RegName \ Scratch(e) : t.reg[r] = c.reg[r]
  /\ \A a \in Cell : (a[1] = "svc" /\ e # "svc") \/ (a[1] = "sys" /\ a[2] >= Sp(c)) => t.mem[a] = c.mem[a]

\* What a CPSR was saved as is what is restored from it.
LEMMA PsrBack ==
  ASSUME NEW u \in Cpsr
  PROVE  [mode |-> Psr(u)[2], I |-> Psr(u)[3], F |-> Psr(u)[4]] = u
  BY DEF Psr, Cpsr

\* No user register is scratch of an exception.
LEMMA NotScratch ==
  ASSUME NEW e \in ExcMode
  PROVE  \A r \in RegName : r[1] = "usr" => r \notin Scratch(e)
  BY DEF Scratch, ExcMode

\* The registers of the user bank are the user registers.
LEMMA UserNames ==
  ASSUME NEW r \in RegName, r[1] = "usr"
  PROVE  r[2] \in UserRegs /\ r = Usr(r[2])
  BY DEF RegName, Usr, ExcMode

\* MOVS pc,lr
LEMMA Leave ==
  ASSUME NEW m \in {"irq", "fiq"}, NEW c, NEW s, NEW t, Context(c), Context(s), Interrupts(m, c, s, 33),
         t.pc = s.reg[<<m, "lr">>],
         t.cpu = [mode |-> s.reg[<<m, "spsr">>][2], I |-> s.reg[<<m, "spsr">>][3], F |-> s.reg[<<m, "spsr">>][4]],
         t.reg = [r \in RegName |-> IF r \in {m} \X Banked(m) THEN Junk ELSE s.reg[r]],
         t.mem = [a \in Cell |-> IF a[1] = "sys" /\ a[2] < Sp(s) THEN Junk ELSE s.mem[a]]
  PROVE  Resumes(m, c, t)
<1>1. t.pc = c.pc
  BY DEF Interrupts, Scratched
<1>2. t.cpu = c.cpu
  BY PsrBack DEF Interrupts, Scratched, Context
<1>3. Sp(s) = Sp(c) /\ s.reg[Usr("sp")] = c.reg[Usr("sp")]
  <2>1. Sp(c) - 0 = Sp(c)
    BY DEF Context
  <2>2. s.reg[Usr("sp")] = Addr("sys", Sp(c))
    BY <2>1 DEF Interrupts, Where, Depth
  <2> QED
    BY <2>2 DEF Sp, Addr, Context
<1>4. ASSUME NEW r \in RegName \ Scratch(m) PROVE t.reg[r] = c.reg[r]
  <2>1. r \notin {m} \X Banked(m) /\ t.reg[r] = s.reg[r]
    BY DEF Scratch
  <2>2. CASE r[1] = "usr"
    <3>1. r = Usr(r[2]) /\ r[2] \in UserRegs
      BY <2>2, UserNames
    <3> QED
      BY <1>3, <2>1, <3>1 DEF Interrupts, Holds, Held, UserRegs
  <2>3. CASE r[1] # "usr"
    <3>1. r[1] \notin {m, "fiq"}
      <4>1. r \in {r[1]} \X Banked(r[1])
        BY <2>3 DEF RegName
      <4> QED
        BY <4>1 DEF Scratch
    <3> QED
      BY <2>1, <2>3, <3>1 DEF Interrupts, Kept
  <2> QED
    BY <2>2, <2>3
<1>5. ASSUME NEW a \in Cell, a[1] = "svc" \/ (a[1] = "sys" /\ a[2] >= Sp(c)) PROVE t.mem[a] = c.mem[a]
  <2>1. a[2] \in Int /\ Sp(c) \in Int
    BY DEF Cell, Context
  <2>2. t.mem[a] = s.mem[a]
    BY <1>3, <1>5, <2>1
  <2> QED
    BY <1>5, <2>2 DEF Interrupts, Kept
<1> QED
  BY <1>1, <1>2, <1>4, <1>5 DEF Resumes

\* An IRQ's code goes on unharmed after an FIQ, and after an IRQ where it allows one.
LEMMA IrqUnharmed ==
  ASSUME NEW e \in {"irq", "fiq"}, NEW c, NEW s, NEW t, NEW n \in 1 .. 24, Context(c), Context(s),
         Fits("irq", c), Interrupts("irq", c, s, n), e = "irq" => n \in {18, 19}, Resumes(e, s, t)
  PROVE  Interrupts("irq", c, t, n)
<1>1. Usr("sp") \in RegName /\ \A r \in UserRegs : Usr(r) \in RegName
  BY Registers DEF UserRegs
<1>2. \A r \in UserRegs : t.reg[Usr(r)] = s.reg[Usr(r)]
  BY <1>1, NotScratch DEF Resumes, Usr, ExcMode
<1>3. Sp(s) = Sp(c) - Depth(n) /\ Sp(c) \in Int /\ Depth(n) \in 0 .. 10
  <2>1. s.reg[Usr("sp")] = Addr("sys", Sp(c) - Depth(n))
    BY DEF Interrupts, Where
  <2> QED
    BY <2>1 DEF Sp, Addr, Context, Depth
<1>4. ASSUME NEW i \in Int, i <= Depth(n), i >= 1 PROVE t.mem[<<"sys", Sp(c) - i>>] = s.mem[<<"sys", Sp(c) - i>>]
  <2>1. PICK j \in Int : j = Sp(c) - i
    BY <1>3
  <2>2. j \in 1 .. StackWords /\ j >= Sp(s)
    BY <1>3, <1>4, <2>1, StackAssumption DEF Fits
  <2>3. <<"sys", j>> \in Cell
    BY <2>2 DEF Cell
  <2> QED
    BY <2>1, <2>2, <2>3 DEF Resumes
<1>5. Where("irq", c, t, n)
  BY <1>2 DEF Interrupts, Where, Resumes, UserRegs
<1>6. Stacked(c, t, n)
  <2> SUFFICES ASSUME NEW i \in Saved(n) PROVE t.mem[<<"sys", Sp(c) - 9 + i>>] = FrameWord(c)[i]
    BY DEF Stacked
  <2>1. i \in 1 .. 8 /\ 9 - i <= Depth(n) /\ 9 - i >= 1 /\ 9 - i \in Int
    BY DEF Saved, Depth
  <2>2. Sp(c) - 9 + i = Sp(c) - (9 - i)
    BY <1>3, <2>1
  <2> QED
    BY <1>4, <2>1, <2>2 DEF Interrupts, Stacked
<1>7. Holds(c, t, n)
  <2>1. Held(n) \subseteq UserRegs
    BY DEF Held, UserRegs
  <2> QED
    BY <1>2, <2>1 DEF Interrupts, Holds
<1>8. Kept("irq", c, t)
  <2>1. ASSUME NEW r \in RegName, r[1] \notin {"usr", "irq", "fiq"} PROVE t.reg[r] = c.reg[r]
    <3>1. r \notin Scratch(e)
      BY <2>1 DEF Scratch
    <3> QED
      BY <2>1, <3>1 DEF Interrupts, Kept, Resumes
  <2>2. ASSUME NEW a \in Cell, a[1] = "svc" \/ a[2] >= Sp(c) PROVE t.mem[a] = c.mem[a]
    <3>1. a[2] \in Int /\ a[1] \in {"sys", "svc"}
      BY DEF Cell
    <3>2. a[2] >= Sp(c) => a[2] >= Sp(s)
      BY <1>3, <3>1
    <3>3. t.mem[a] = s.mem[a]
      BY <2>2, <3>1, <3>2 DEF Resumes
    <3> QED
      BY <2>2, <3>3 DEF Interrupts, Kept
  <2> QED
    BY <2>1, <2>2 DEF Kept
<1>9. Scratched("irq", c, t, n)
  <2>1. ASSUME e = "fiq", NEW r \in {"sp", "lr", "spsr"} PROVE t.reg[<<"irq", r>>] = s.reg[<<"irq", r>>]
    <3>1. <<"irq", r>> \in RegName /\ <<"irq", r>> \notin Scratch(e)
      BY <2>1, Registers DEF Scratch, ExcMode
    <3> QED
      BY <3>1 DEF Resumes
  <2>2. n \in 15 .. 21 => t.mem[<<"sys", Sp(c) - 9>>] = s.mem[<<"sys", Sp(c) - 9>>]
    BY <1>4 DEF Depth
  <2>3. n \in 16 .. 21 => t.mem[<<"sys", Sp(c) - 10>>] = s.mem[<<"sys", Sp(c) - 10>>]
    BY <1>4 DEF Depth
  <2>4. t.reg[Usr("r0")] = s.reg[Usr("r0")] /\ t.reg[Usr("r1")] = s.reg[Usr("r1")] /\ t.reg[Usr("lr")] = s.reg[Usr("lr")]
    BY <1>2 DEF UserRegs
  <2>5. CASE e = "fiq"
    BY <2>1, <2>2, <2>3, <2>4, <2>5 DEF Interrupts, Scratched
  <2>6. CASE n \in {18, 19}
    BY <2>2, <2>3, <2>6 DEF Interrupts, Scratched
  <2> QED
    BY <2>5, <2>6
<1> QED
  BY <1>5, <1>6, <1>7, <1>8, <1>9 DEF Interrupts

-----------------------------------------------------------------------------
(* The same for ARM_swi and sw_handler.                                    *)

SvcSp == <<"svc", "sp">>
SvcLr == <<"svc", "lr">>
SvcSpsr == <<"svc", "spsr">>

\* The banked registers of SVC mode are registers, and not user registers.
LEMMA SvcNames ==
  /\ SvcSp \in RegName /\ SvcLr \in RegName /\ SvcSpsr \in RegName
  /\ \A r \in UserRegs : Usr(r) \in RegName /\ Usr(r) \notin {SvcSp, SvcLr, SvcSpsr}
  BY Registers DEF ExcMode, SvcSp, SvcLr, SvcSpsr, Usr

\* SWI
LEMMA EnterSvc ==
  ASSUME NEW c, NEW t, Context(c), MainOK(c),
         t.pc = SvcPc(1), t.cpu = [mode |-> "svc", I |-> TRUE, F |-> c.cpu.F], t.mem = c.mem,
         t.reg = [c.reg EXCEPT ![SvcLr] = c.pc, ![SvcSpsr] = Psr(c.cpu)]
  PROVE  Calls(c, t, 1)
<1>1. /\ t.reg[SvcLr] = c.pc /\ t.reg[SvcSpsr] = Psr(c.cpu)
      /\ \A r \in RegName : r \notin {SvcLr, SvcSpsr} => t.reg[r] = c.reg[r]
  BY SvcNames DEF Context, SvcLr, SvcSpsr
<1>2. t.reg[SvcSp] = Addr("svc", StackWords + 1 - 0)
  <2>1. SvcSp \notin {SvcLr, SvcSpsr} /\ StackWords + 1 - 0 = StackWords + 1
    BY StackAssumption DEF SvcSp, SvcLr, SvcSpsr
  <2> QED
    BY <1>1, <2>1, SvcNames DEF MainOK, SvcSp
<1>3. \A r \in UserRegs : t.reg[Usr(r)] = c.reg[Usr(r)]
  BY <1>1, SvcNames
<1>4. \A r \in RegName : r[1] = "irq" \/ r \in {Usr("sp"), Usr("lr")} => t.reg[r] = c.reg[r]
  BY <1>1 DEF Usr, SvcLr, SvcSpsr
<1> QED
  BY <1>1, <1>2, <1>3, <1>4 DEF Calls, SvcSp, SvcLr, SvcSpsr

\* STMFD sp!,{r0-r12,lr}
LEMMA Svc1 ==
  ASSUME NEW c, NEW s, NEW t, NEW ws, Context(s), Calls(c, s, 1), StackWords >= 6, t.pc = SvcPc(2), t.cpu = s.cpu,
         Sets(s, t, SvcSp, Addr("svc", StackWords - 5)),
         t.mem = [a \in Cell |-> IF a[1] = "svc" /\ a[2] - (StackWords - 5) + 1 \in 1 .. 6
                                 THEN ws[a[2] - (StackWords - 5) + 1] ELSE s.mem[a]],
         ws = << s.reg[Usr("r0")], s.reg[Usr("r1")], s.reg[Usr("r2")], s.reg[Usr("r3")],
                 s.reg[Usr("r12")], s.reg[SvcLr] >>
  PROVE  Calls(c, t, 2)
<1>1. t.reg[SvcSp] = Addr("svc", StackWords - 5) /\ \A r \in RegName : r # SvcSp => t.reg[r] = s.reg[r]
  BY SvcNames, SetGet
<1>2. ASSUME NEW i \in 1 .. 6 PROVE t.mem[<<"svc", StackWords - 6 + i>>] = ws[i]
  <2>1. PICK j \in Int : j = StackWords - 6 + i
    BY StackAssumption
  <2>2. j \in 1 .. StackWords /\ j - (StackWords - 5) + 1 = i
    BY <2>1, StackAssumption
  <2>3. <<"svc", j>> \in Cell
    BY <2>2 DEF Cell
  <2> QED
    BY <2>1, <2>2, <2>3
<1>3. ws[1] = c.reg[Usr("r0")] /\ ws[2] = c.reg[Usr("r1")] /\ ws[3] = c.reg[Usr("r2")] /\ ws[4] = c.reg[Usr("r3")]
      /\ ws[5] = c.reg[Usr("r12")] /\ ws[6] = c.pc
  BY DEF Calls, UserRegs, SvcLr
<1>4. \A i \in 1 .. 5 : t.mem[<<"svc", StackWords - 6 + i>>] = FrameWord(c)[i]
  <2>1. \A i \in 1 .. 5 : ws[i] = FrameWord(c)[i]
    <3>1. \A i \in 1 .. 5 : i = 1 \/ i = 2 \/ i = 3 \/ i = 4 \/ i = 5
      OBVIOUS
    <3> QED
      BY <1>3, <3>1, FrameWords
  <2> QED
    BY <1>2, <2>1
<1>5. t.mem[<<"svc", StackWords>>] = c.pc
  <2>1. StackWords - 6 + 6 = StackWords
    BY StackAssumption
  <2> QED
    BY <1>2, <1>3, <2>1
<1>6. \A r \in RegName : r[1] = "irq" \/ r \in {Usr("sp"), Usr("lr")} => t.reg[r] = c.reg[r]
  BY <1>1 DEF Calls, Usr, SvcSp
<1>7. \A a \in Cell : a[1] = "sys" /\ a[2] >= Sp(c) => t.mem[a] = c.mem[a]
  BY DEF Calls
<1>8. t.reg[SvcSpsr] = Psr(c.cpu)
  BY <1>1, SvcNames DEF Calls, SvcSpsr, SvcSp
<1>9. t.reg[SvcSp] = Addr("svc", StackWords + 1 - 6)
  <2>1. StackWords + 1 - 6 = StackWords - 5
    BY StackAssumption
  <2> QED
    BY <1>1, <2>1
<1>10. t.pc = SvcPc(2) /\ t.cpu = [mode |-> "svc", I |-> TRUE, F |-> c.cpu.F]
  BY DEF Calls
<1>11. t.reg[<<"svc", "sp">>] = Addr("svc", StackWords + 1 - (IF 2 = 1 THEN 0 ELSE 6)) /\ t.reg[<<"svc", "spsr">>] = Psr(c.cpu)
  BY <1>8, <1>9 DEF SvcSp, SvcSpsr
<1>12. 2 # 1 /\ 2 \notin {3, 4}
  OBVIOUS
<1> QED
  BY <1>4, <1>5, <1>6, <1>7, <1>10, <1>11, <1>12, Zenon DEF Calls

\* The call of sw_handler, its statements and its return.
LEMMA SvcOn ==
  ASSUME NEW c, NEW s, NEW t, NEW n \in 2 .. 4, Calls(c, s, n), t.pc = SvcPc(n + 1), t.cpu = s.cpu, t.mem = s.mem,
         n = 2 => t.reg[SvcLr] = SvcPc(5), n = 3 => t.reg[SvcLr] = s.reg[SvcLr],
         \A r \in RegName : (r[1] # "usr" /\ r # SvcLr) \/ r \in {Usr("sp"), Usr("lr")} => t.reg[r] = s.reg[r]
  PROVE  Calls(c, t, n + 1)
<1>1. t.reg[SvcSp] = s.reg[SvcSp] /\ t.reg[SvcSpsr] = s.reg[SvcSpsr]
  BY SvcNames DEF SvcSp, SvcSpsr, SvcLr
<1>2. \A r \in RegName : r[1] = "irq" \/ r \in {Usr("sp"), Usr("lr")} => t.reg[r] = c.reg[r]
  BY DEF Calls, SvcLr
<1>3. n + 1 # 1 /\ n # 1 /\ n > 1 /\ n + 1 > 1
  OBVIOUS
<1>4. n + 1 \in {3, 4} => t.reg[SvcLr] = SvcPc(5)
  BY DEF Calls, SvcLr
<1> QED
  BY <1>1, <1>2, <1>3, <1>4 DEF Calls, SvcSp, SvcSpsr, SvcLr

\* LDMFD sp!,{r0-r12,pc}^
LEMMA LeaveSvc ==
  ASSUME NEW c, NEW s, NEW t, Context(c), Context(s), MainOK(c), Calls(c, s, 5), t.pc = s.mem[<<"svc", StackWords>>],
         t.cpu = [mode |-> s.reg[SvcSpsr][2], I |-> s.reg[SvcSpsr][3], F |-> s.reg[SvcSpsr][4]],
         t.reg[SvcSp] = Addr("svc", StackWords + 1),
         \A r \in {"r0", "r1", "r2", "r3", "r12"} : t.reg[Usr(r)] = c.reg[Usr(r)],
         \A r \in RegName : r[1] = "irq" \/ r \in {Usr("sp"), Usr("lr")} => t.reg[r] = s.reg[r],
         t.mem = [a \in Cell |-> IF a[1] = "sys" /\ a[2] < Sp(s) THEN Junk ELSE s.mem[a]]
  PROVE  Resumes("svc", c, t)
<1>1. t.pc = c.pc
  BY DEF Calls
<1>2. t.cpu = c.cpu
  BY PsrBack DEF Calls, Context, SvcSpsr
<1>3. Sp(s) = Sp(c)
  BY SvcNames DEF Calls, Sp, UserRegs
<1>4. ASSUME NEW r \in RegName \ Scratch("svc") PROVE t.reg[r] = c.reg[r]
  <2>1. CASE r[1] = "usr"
    <3>1. r = Usr(r[2]) /\ r[2] \in UserRegs
      BY <2>1, UserNames
    <3> QED
      BY <3>1 DEF Calls, UserRegs
  <2>2. CASE r[1] # "usr"
    <3>1. r[1] \in ExcMode /\ r \in {r[1]} \X Banked(r[1])
      BY <2>2 DEF RegName
    <3>2. r[1] # "fiq"
      BY <3>1 DEF Scratch
    <3>3. CASE r[1] = "irq"
      BY <3>3 DEF Calls
    <3>4. CASE r[1] = "svc"
      <4>1. r[2] = "sp" /\ r = <<r[1], r[2]>>
        BY <3>1, <3>4 DEF Scratch
      <4>2. r = SvcSp
        BY <3>4, <4>1 DEF SvcSp
      <4> QED
        BY <4>2 DEF MainOK, SvcSp
    <3> QED
      BY <3>1, <3>2, <3>3, <3>4 DEF ExcMode
  <2> QED
    BY <2>1, <2>2
<1>5. ASSUME NEW a \in Cell, a[1] = "sys" /\ a[2] >= Sp(c) PROVE t.mem[a] = c.mem[a]
  <2>1. a[2] \in Int /\ Sp(c) \in Int
    BY DEF Cell, Context
  <2>2. t.mem[a] = s.mem[a]
    BY <1>3, <1>5, <2>1
  <2> QED
    BY <1>5, <2>2 DEF Calls
<1> QED
  BY <1>1, <1>2, <1>4, <1>5 DEF Resumes

\* A system call goes on unharmed after an FIQ.
LEMMA SvcUnharmed ==
  ASSUME NEW c, NEW s, NEW t, NEW n \in 1 .. 5, Context(c), Calls(c, s, n), Resumes("fiq", s, t), StackWords >= 6
  PROVE  Calls(c, t, n)
<1>1. \A r \in RegName : r[1] # "fiq" => t.reg[r] = s.reg[r]
  BY DEF Resumes, Scratch
<1>2. /\ t.reg[SvcSp] = s.reg[SvcSp] /\ t.reg[SvcLr] = s.reg[SvcLr] /\ t.reg[SvcSpsr] = s.reg[SvcSpsr]
      /\ \A r \in UserRegs : t.reg[Usr(r)] = s.reg[Usr(r)]
  BY <1>1, SvcNames DEF SvcSp, SvcLr, SvcSpsr, Usr
<1>3. Sp(s) = Sp(c)
  BY SvcNames DEF Calls, Sp, UserRegs
<1>4. ASSUME NEW i \in 1 .. 6 PROVE t.mem[<<"svc", StackWords - 6 + i>>] = s.mem[<<"svc", StackWords - 6 + i>>]
  <2>1. PICK j \in Int : j = StackWords - 6 + i
    BY StackAssumption
  <2>2. j \in 1 .. StackWords
    BY <2>1, StackAssumption
  <2>3. <<"svc", j>> \in Cell
    BY <2>2 DEF Cell
  <2> QED
    BY <2>1, <2>3 DEF Resumes
<1>5. n > 1 => /\ t.mem[<<"svc", StackWords>>] = c.pc
               /\ \A i \in 1 .. 5 : t.mem[<<"svc", StackWords - 6 + i>>] = FrameWord(c)[i]
  <2>1. StackWords - 6 + 6 = StackWords
    BY StackAssumption
  <2>2. t.mem[<<"svc", StackWords>>] = s.mem[<<"svc", StackWords>>]
    BY <1>4, <2>1
  <2> QED
    BY <1>4, <2>2 DEF Calls
<1>6. \A a \in Cell : a[1] = "sys" /\ a[2] >= Sp(c) => t.mem[a] = c.mem[a]
  BY <1>3 DEF Calls, Resumes
<1>7. \A r \in RegName : r[1] = "irq" \/ r \in {Usr("sp"), Usr("lr")} => t.reg[r] = c.reg[r]
  BY <1>1 DEF Calls, Usr
<1>8. t.pc = s.pc /\ t.cpu = s.cpu
  BY DEF Resumes
<1> QED
  BY <1>2, <1>5, <1>6, <1>7, <1>8 DEF Calls, SvcSp, SvcLr, SvcSpsr

\* main goes on unharmed.
LEMMA MainUnharmed ==
  ASSUME NEW e \in ExcMode, NEW c, NEW t, MainOK(c), Resumes(e, c, t)
  PROVE  MainOK(t)
<1>1. t.reg[Usr("sp")] = c.reg[Usr("sp")]
  BY SvcNames, NotScratch DEF Resumes, UserRegs, Usr
<1>2. SvcSp \in RegName \ Scratch(e)
  BY SvcNames DEF SvcSp, Scratch, ExcMode
<1>3. t.reg[SvcSp] = c.reg[SvcSp]
  BY <1>2 DEF Resumes
<1> QED
  BY <1>1, <1>3 DEF MainOK, Resumes, SvcSp

-----------------------------------------------------------------------------
(* The texts of the routines: the instruction at every stage.              *)

\* The instruction at address p.
Op(p) == Program[p[2]][p[3]]

\* The routine under each name of Program.
LEMMA Routines ==
  /\ Program["ARM_irq"] = ARM_irq /\ Program["ARM_fiq"] = ARM_fiq /\ Program["ARM_swi"] = ARM_swi
  /\ Program["BSP_irq"] = BSP_irq /\ Program["BSP_fiq"] = BSP_fiq /\ Program["sw_handler"] = sw_handler
  BY DEF Program

\* The code of ARM_irq and ARM_fiq that is the same but for the mode.
SameCode(m, f) ==
  /\ Op(PcAt(m, 1)) = Mov("sp", "r0") /\ Op(PcAt(m, 2)) = SubLr4("r0")
  /\ Op(PcAt(m, 3)) = Mov("lr", "r1") /\ Op(PcAt(m, 4)) = Mrs("r1")
  /\ Op(PcAt(m, 5)) = Msr("sys", TRUE, f) /\ Op(PcAt(m, 6)) = Stmfd("sp", <<"r0", "r1">>)
  /\ Op(PcAt(m, 7)) = Stmfd("sp", <<"r2", "r3", "r12", "lr">>) /\ Op(PcAt(m, 8)) = Mov("r0", "sp")
  /\ Op(PcAt(m, 9)) = AddSp(-2) /\ Op(PcAt(m, 10)) = Msr(m, TRUE, f)
  /\ Op(PcAt(m, 11)) = Stmfd("r0", <<"sp", "lr">>) /\ Op(PcAt(m, 12)) = Msr("sys", TRUE, f)
  /\ Op(PcAt(m, 23)) = Ret /\ Op(PcAt(m, 25)) = Mov("r0", "sp") /\ Op(PcAt(m, 26)) = AddSp(8)
  /\ Op(PcAt(m, 27)) = Msr(m, TRUE, TRUE) /\ Op(PcAt(m, 28)) = Mov("sp", "r0")
  /\ Op(PcAt(m, 29)) = Ldr("r0", 7) /\ Op(PcAt(m, 30)) = MsrSpsr("r0")
  /\ Op(PcAt(m, 31)) = LdmUser(<<"r0", "r1", "r2", "r3", "r12", "lr">>)
  /\ Op(PcAt(m, 32)) = Ldr("lr", 6) /\ Op(PcAt(m, 33)) = MovsPc

\* The instructions of a routine's exit, after the 13 of its entry.
LEMMA JoinAt ==
  ASSUME NEW X, NEW s, NEW t, s \in Seq(X), t \in Seq(X), Len(s) = 13
  PROVE  /\ Len(t) = 10 => (s \o t)[14] = t[1] /\ (s \o t)[17] = t[4]
         /\ Len(t) = 9 => (s \o t)[16] = t[3]
<1>1. \A l \in 1 .. Len(s) + Len(t) : (s \o t)[l] = IF l <= Len(s) THEN s[l] ELSE t[l - Len(s)]
  BY ConcatProperties
<1>2. ASSUME Len(t) = 10 PROVE (s \o t)[14] = t[1] /\ (s \o t)[17] = t[4]
  <2>1. /\ 14 \in 1 .. Len(s) + Len(t) /\ ~(14 <= Len(s)) /\ 14 - Len(s) = 1
        /\ 17 \in 1 .. Len(s) + Len(t) /\ ~(17 <= Len(s)) /\ 17 - Len(s) = 4
    BY <1>2
  <2> QED
    BY <1>1, <2>1
<1>3. ASSUME Len(t) = 9 PROVE (s \o t)[16] = t[3]
  <2>1. 16 \in 1 .. Len(s) + Len(t) /\ ~(16 <= Len(s)) /\ 16 - Len(s) = 3
    BY <1>3
  <2> QED
    BY <1>1, <2>1
<1> QED
  BY <1>2, <1>3

\* ARM_fiq's exit lacks the first instruction of ARM_irq's.
LEMMA TailAt ==
  ASSUME NEW X, NEW t, t \in Seq(X), Len(t) = 10
  PROVE  \E u : u = Tail(t) /\ u \in Seq(X) /\ Len(u) = 9 /\ u[3] = t[4]
<1>1. t # <<>>
  BY EmptySeq
<1>2. PICK u : u = Tail(t)
  OBVIOUS
<1>3. u \in Seq(X)
  BY <1>1, <1>2, HeadTailProperties
<1>4. Len(u) = Len(t) - 1 
  BY <1>1, <1>2, HeadTailProperties
<1>5. \A i \in 1 .. Len(u) : u[i] = t[i + 1]
  BY <1>1, <1>2, HeadTailProperties
<1>6. Len(u) = 9
  BY <1>4
<1>7. u[3] = t[4]
  BY <1>5, <1>6
<1> QED
  BY <1>2, <1>3, <1>6, <1>7

\* The lengths of entry and exit, and the two MSRs of the exit.
LEMMA Parts ==
  ASSUME NEW m, NEW f, NEW h
  PROVE  \E X : /\ Entry(m, f, h) \in Seq(X) /\ Exit(m) \in Seq(X) /\ Len(Entry(m, f, h)) = 13 /\ Len(Exit(m)) = 10
                /\ Exit(m)[1] = Msr("sys", TRUE, TRUE) /\ Exit(m)[4] = Msr(m, TRUE, TRUE)
<1>1. PICK X : X = {Entry(m, f, h)[i] : i \in 1 .. 13} \cup {Exit(m)[i] : i \in 1 .. 10}
  OBVIOUS
<1>2. Entry(m, f, h) = [i \in 1 .. 13 |-> Entry(m, f, h)[i]]
  BY DEF Entry
<1>3. Exit(m) = [i \in 1 .. 10 |-> Exit(m)[i]]
  BY DEF Exit
<1>4. Entry(m, f, h) \in Seq(X)
  BY <1>1, <1>2
<1>5. Exit(m) \in Seq(X)
  BY <1>1, <1>3
<1>6. Len(Entry(m, f, h)) = 13 /\ Len(Exit(m)) = 10
  BY DEF Entry, Exit
<1>7. Exit(m)[1] = Msr("sys", TRUE, TRUE) /\ Exit(m)[4] = Msr(m, TRUE, TRUE)
  BY DEF Exit
<1> QED
  BY <1>4, <1>5, <1>6, <1>7

\* ARM_irq instruction by instruction, as in arm_exc.S.
LEMMA IrqText ==
  /\ ARM_irq[1] = Mov("sp", "r0") /\ ARM_irq[2] = SubLr4("r0") /\ ARM_irq[3] = Mov("lr", "r1") /\ ARM_irq[4] = Mrs("r1")
  /\ ARM_irq[5] = Msr("sys", TRUE, FALSE) /\ ARM_irq[6] = Stmfd("sp", <<"r0", "r1">>)
  /\ ARM_irq[7] = Stmfd("sp", <<"r2", "r3", "r12", "lr">>) /\ ARM_irq[8] = Mov("r0", "sp") /\ ARM_irq[9] = AddSp(-2)
  /\ ARM_irq[10] = Msr("irq", TRUE, FALSE) /\ ARM_irq[11] = Stmfd("r0", <<"sp", "lr">>)
  /\ ARM_irq[12] = Msr("sys", TRUE, FALSE) /\ ARM_irq[13] = Call("BSP_irq")
  /\ ARM_irq[14] = Msr("sys", TRUE, TRUE) /\ ARM_irq[15] = Mov("r0", "sp") /\ ARM_irq[16] = AddSp(8)
  /\ ARM_irq[17] = Msr("irq", TRUE, TRUE) /\ ARM_irq[18] = Mov("sp", "r0") /\ ARM_irq[19] = Ldr("r0", 7)
  /\ ARM_irq[20] = MsrSpsr("r0") /\ ARM_irq[21] = LdmUser(<<"r0", "r1", "r2", "r3", "r12", "lr">>)
  /\ ARM_irq[22] = Ldr("lr", 6) /\ ARM_irq[23] = MovsPc
<1>1. ARM_irq[1] = Mov("sp", "r0")
  BY DEF ARM_irq, Entry, Exit
<1>2. ARM_irq[2] = SubLr4("r0")
  BY DEF ARM_irq, Entry, Exit
<1>3. ARM_irq[3] = Mov("lr", "r1")
  BY DEF ARM_irq, Entry, Exit
<1>4. ARM_irq[4] = Mrs("r1")
  BY DEF ARM_irq, Entry, Exit
<1>5. ARM_irq[5] = Msr("sys", TRUE, FALSE)
  BY DEF ARM_irq, Entry, Exit
<1>6. ARM_irq[6] = Stmfd("sp", <<"r0", "r1">>)
  BY DEF ARM_irq, Entry, Exit
<1>7. ARM_irq[7] = Stmfd("sp", <<"r2", "r3", "r12", "lr">>)
  BY DEF ARM_irq, Entry, Exit
<1>8. ARM_irq[8] = Mov("r0", "sp")
  BY DEF ARM_irq, Entry, Exit
<1>9. ARM_irq[9] = AddSp(-2)
  BY DEF ARM_irq, Entry, Exit
<1>10. ARM_irq[10] = Msr("irq", TRUE, FALSE)
  BY DEF ARM_irq, Entry, Exit
<1>11. ARM_irq[11] = Stmfd("r0", <<"sp", "lr">>)
  BY DEF ARM_irq, Entry, Exit
<1>12. ARM_irq[12] = Msr("sys", TRUE, FALSE)
  BY DEF ARM_irq, Entry, Exit
<1>13. ARM_irq[13] = Call("BSP_irq")
  BY DEF ARM_irq, Entry, Exit
<1>14. ARM_irq[14] = Msr("sys", TRUE, TRUE)
  <2>1. PICK X, e, x : /\ e = Entry("irq", FALSE, "BSP_irq") /\ x = Exit("irq") /\ e \in Seq(X) /\ x \in Seq(X)
                       /\ Len(e) = 13 /\ Len(x) = 10 /\ x[1] = Msr("sys", TRUE, TRUE) /\ x[4] = Msr("irq", TRUE, TRUE)
    BY Parts, Zenon
  <2>2. (e \o x)[14] = x[1]
    BY <2>1, JoinAt, Zenon
  <2>3. ARM_irq = e \o x
    BY <2>1 DEF ARM_irq
  <2> QED
    BY <2>1, <2>2, <2>3, Zenon
<1>15. ARM_irq[15] = Mov("r0", "sp")
  BY DEF ARM_irq, Entry, Exit
<1>16. ARM_irq[16] = AddSp(8)
  BY DEF ARM_irq, Entry, Exit
<1>17. ARM_irq[17] = Msr("irq", TRUE, TRUE)
  <2>1. PICK X, e, x : /\ e = Entry("irq", FALSE, "BSP_irq") /\ x = Exit("irq") /\ e \in Seq(X) /\ x \in Seq(X)
                       /\ Len(e) = 13 /\ Len(x) = 10 /\ x[1] = Msr("sys", TRUE, TRUE) /\ x[4] = Msr("irq", TRUE, TRUE)
    BY Parts, Zenon
  <2>2. (e \o x)[17] = x[4]
    BY <2>1, JoinAt, Zenon
  <2>3. ARM_irq = e \o x
    BY <2>1 DEF ARM_irq
  <2> QED
    BY <2>1, <2>2, <2>3, Zenon
<1>18. ARM_irq[18] = Mov("sp", "r0")
  BY DEF ARM_irq, Entry, Exit
<1>19. ARM_irq[19] = Ldr("r0", 7)
  BY DEF ARM_irq, Entry, Exit
<1>20. ARM_irq[20] = MsrSpsr("r0")
  BY DEF ARM_irq, Entry, Exit
<1>21. ARM_irq[21] = LdmUser(<<"r0", "r1", "r2", "r3", "r12", "lr">>)
  BY DEF ARM_irq, Entry, Exit
<1>22. ARM_irq[22] = Ldr("lr", 6)
  BY DEF ARM_irq, Entry, Exit
<1>23. ARM_irq[23] = MovsPc
  BY DEF ARM_irq, Entry, Exit
<1> QED
  BY <1>1, <1>2, <1>3, <1>4, <1>5, <1>6, <1>7, <1>8, <1>9, <1>10, <1>11, <1>12,
     <1>13, <1>14, <1>15, <1>16, <1>17, <1>18, <1>19, <1>20, <1>21, <1>22, <1>23

\* ARM_fiq instruction by instruction, as in arm_exc.S.
LEMMA FiqText ==
  /\ ARM_fiq[1] = Mov("sp", "r0") /\ ARM_fiq[2] = SubLr4("r0") /\ ARM_fiq[3] = Mov("lr", "r1") /\ ARM_fiq[4] = Mrs("r1")
  /\ ARM_fiq[5] = Msr("sys", TRUE, TRUE) /\ ARM_fiq[6] = Stmfd("sp", <<"r0", "r1">>)
  /\ ARM_fiq[7] = Stmfd("sp", <<"r2", "r3", "r12", "lr">>) /\ ARM_fiq[8] = Mov("r0", "sp") /\ ARM_fiq[9] = AddSp(-2)
  /\ ARM_fiq[10] = Msr("fiq", TRUE, TRUE) /\ ARM_fiq[11] = Stmfd("r0", <<"sp", "lr">>)
  /\ ARM_fiq[12] = Msr("sys", TRUE, TRUE) /\ ARM_fiq[13] = Call("BSP_fiq")
  /\ ARM_fiq[14] = Mov("r0", "sp") /\ ARM_fiq[15] = AddSp(8)
  /\ ARM_fiq[16] = Msr("fiq", TRUE, TRUE) /\ ARM_fiq[17] = Mov("sp", "r0") /\ ARM_fiq[18] = Ldr("r0", 7)
  /\ ARM_fiq[19] = MsrSpsr("r0") /\ ARM_fiq[20] = LdmUser(<<"r0", "r1", "r2", "r3", "r12", "lr">>)
  /\ ARM_fiq[21] = Ldr("lr", 6) /\ ARM_fiq[22] = MovsPc
<1>1. ARM_fiq[1] = Mov("sp", "r0")
  BY DEF ARM_fiq, Entry, Exit
<1>2. ARM_fiq[2] = SubLr4("r0")
  BY DEF ARM_fiq, Entry, Exit
<1>3. ARM_fiq[3] = Mov("lr", "r1")
  BY DEF ARM_fiq, Entry, Exit
<1>4. ARM_fiq[4] = Mrs("r1")
  BY DEF ARM_fiq, Entry, Exit
<1>5. ARM_fiq[5] = Msr("sys", TRUE, TRUE)
  BY DEF ARM_fiq, Entry, Exit
<1>6. ARM_fiq[6] = Stmfd("sp", <<"r0", "r1">>)
  BY DEF ARM_fiq, Entry, Exit
<1>7. ARM_fiq[7] = Stmfd("sp", <<"r2", "r3", "r12", "lr">>)
  BY DEF ARM_fiq, Entry, Exit
<1>8. ARM_fiq[8] = Mov("r0", "sp")
  BY DEF ARM_fiq, Entry, Exit
<1>9. ARM_fiq[9] = AddSp(-2)
  BY DEF ARM_fiq, Entry, Exit
<1>10. ARM_fiq[10] = Msr("fiq", TRUE, TRUE)
  BY DEF ARM_fiq, Entry, Exit
<1>11. ARM_fiq[11] = Stmfd("r0", <<"sp", "lr">>)
  BY DEF ARM_fiq, Entry, Exit
<1>12. ARM_fiq[12] = Msr("sys", TRUE, TRUE)
  BY DEF ARM_fiq, Entry, Exit
<1>13. ARM_fiq[13] = Call("BSP_fiq")
  BY DEF ARM_fiq, Entry, Exit
<1>14. ARM_fiq[14] = Mov("r0", "sp")
  BY DEF ARM_fiq, Entry, Exit
<1>15. ARM_fiq[15] = AddSp(8)
  BY DEF ARM_fiq, Entry, Exit
<1>16. ARM_fiq[16] = Msr("fiq", TRUE, TRUE)
  <2>1. PICK X, e, x : /\ e = Entry("fiq", TRUE, "BSP_fiq") /\ x = Exit("fiq") /\ e \in Seq(X) /\ x \in Seq(X)
                       /\ Len(e) = 13 /\ Len(x) = 10 /\ x[4] = Msr("fiq", TRUE, TRUE)
    BY Parts, Zenon
  <2>2. PICK u : u = Tail(x) /\ u \in Seq(X) /\ Len(u) = 9 /\ u[3] = x[4]
    BY <2>1, TailAt, Zenon
  <2>3. e \in Seq(X) /\ Len(e) = 13
    BY <2>1, Zenon
  <2>4. u \in Seq(X) /\ Len(u) = 9
    BY <2>2, Zenon
  <2>5. (e \o u)[16] = u[3]
    BY <2>3, <2>4, JoinAt, Zenon
  <2>6. ARM_fiq = e \o Tail(x)
    BY <2>1, Zenon DEF ARM_fiq
  <2> QED
    BY <2>1, <2>2, <2>5, <2>6, Zenon
<1>17. ARM_fiq[17] = Mov("sp", "r0")
  BY DEF ARM_fiq, Entry, Exit
<1>18. ARM_fiq[18] = Ldr("r0", 7)
  BY DEF ARM_fiq, Entry, Exit
<1>19. ARM_fiq[19] = MsrSpsr("r0")
  BY DEF ARM_fiq, Entry, Exit
<1>20. ARM_fiq[20] = LdmUser(<<"r0", "r1", "r2", "r3", "r12", "lr">>)
  BY DEF ARM_fiq, Entry, Exit
<1>21. ARM_fiq[21] = Ldr("lr", 6)
  BY DEF ARM_fiq, Entry, Exit
<1>22. ARM_fiq[22] = MovsPc
  BY DEF ARM_fiq, Entry, Exit
<1> QED
  BY <1>1, <1>2, <1>3, <1>4, <1>5, <1>6, <1>7, <1>8, <1>9, <1>10, <1>11, <1>12,
     <1>13, <1>14, <1>15, <1>16, <1>17, <1>18, <1>19, <1>20, <1>21, <1>22

\* The instruction at every stage of an IRQ.
LEMMA IrqOps ==
  /\ Op(PcAt("irq", 1)) = ARM_irq[1] /\ Op(PcAt("irq", 2)) = ARM_irq[2] /\ Op(PcAt("irq", 3)) = ARM_irq[3]
  /\ Op(PcAt("irq", 4)) = ARM_irq[4] /\ Op(PcAt("irq", 5)) = ARM_irq[5] /\ Op(PcAt("irq", 6)) = ARM_irq[6]
  /\ Op(PcAt("irq", 7)) = ARM_irq[7] /\ Op(PcAt("irq", 8)) = ARM_irq[8] /\ Op(PcAt("irq", 9)) = ARM_irq[9]
  /\ Op(PcAt("irq", 10)) = ARM_irq[10] /\ Op(PcAt("irq", 11)) = ARM_irq[11] /\ Op(PcAt("irq", 12)) = ARM_irq[12]
  /\ Op(PcAt("irq", 13)) = ARM_irq[13] /\ Op(PcAt("irq", 14)) = BSP_irq[1] /\ Op(PcAt("irq", 15)) = BSP_irq[2]
  /\ Op(PcAt("irq", 16)) = BSP_irq[3] /\ Op(PcAt("irq", 17)) = BSP_irq[4] /\ Op(PcAt("irq", 18)) = BSP_irq[5]
  /\ Op(PcAt("irq", 19)) = BSP_irq[6] /\ Op(PcAt("irq", 20)) = BSP_irq[7] /\ Op(PcAt("irq", 21)) = BSP_irq[8]
  /\ Op(PcAt("irq", 22)) = BSP_irq[9] /\ Op(PcAt("irq", 23)) = BSP_irq[10] /\ Op(PcAt("irq", 24)) = ARM_irq[14]
  /\ Op(PcAt("irq", 25)) = ARM_irq[15] /\ Op(PcAt("irq", 26)) = ARM_irq[16] /\ Op(PcAt("irq", 27)) = ARM_irq[17]
  /\ Op(PcAt("irq", 28)) = ARM_irq[18] /\ Op(PcAt("irq", 29)) = ARM_irq[19] /\ Op(PcAt("irq", 30)) = ARM_irq[20]
  /\ Op(PcAt("irq", 31)) = ARM_irq[21] /\ Op(PcAt("irq", 32)) = ARM_irq[22] /\ Op(PcAt("irq", 33)) = ARM_irq[23]
  BY Routines DEF Op, PcAt, Code

\* The instruction at every stage of an FIQ.
LEMMA FiqOps ==
  /\ Op(PcAt("fiq", 1)) = ARM_fiq[1] /\ Op(PcAt("fiq", 2)) = ARM_fiq[2] /\ Op(PcAt("fiq", 3)) = ARM_fiq[3]
  /\ Op(PcAt("fiq", 4)) = ARM_fiq[4] /\ Op(PcAt("fiq", 5)) = ARM_fiq[5] /\ Op(PcAt("fiq", 6)) = ARM_fiq[6]
  /\ Op(PcAt("fiq", 7)) = ARM_fiq[7] /\ Op(PcAt("fiq", 8)) = ARM_fiq[8] /\ Op(PcAt("fiq", 9)) = ARM_fiq[9]
  /\ Op(PcAt("fiq", 10)) = ARM_fiq[10] /\ Op(PcAt("fiq", 11)) = ARM_fiq[11] /\ Op(PcAt("fiq", 12)) = ARM_fiq[12]
  /\ Op(PcAt("fiq", 13)) = ARM_fiq[13] /\ Op(PcAt("fiq", 23)) = BSP_fiq[1] /\ Op(PcAt("fiq", 25)) = ARM_fiq[14]
  /\ Op(PcAt("fiq", 26)) = ARM_fiq[15] /\ Op(PcAt("fiq", 27)) = ARM_fiq[16] /\ Op(PcAt("fiq", 28)) = ARM_fiq[17]
  /\ Op(PcAt("fiq", 29)) = ARM_fiq[18] /\ Op(PcAt("fiq", 30)) = ARM_fiq[19] /\ Op(PcAt("fiq", 31)) = ARM_fiq[20]
  /\ Op(PcAt("fiq", 32)) = ARM_fiq[21] /\ Op(PcAt("fiq", 33)) = ARM_fiq[22]
  BY Routines DEF Op, PcAt, Code

\* An IRQ runs the instructions that the two routines share.
LEMMA IrqSame == SameCode("irq", FALSE)
<1>1. BSP_irq[10] = Ret
  BY DEF BSP_irq
<1> QED
  BY <1>1, IrqOps, IrqText, Zenon DEF SameCode

\* And so does an FIQ.
LEMMA FiqSame == SameCode("fiq", TRUE)
<1>1. BSP_fiq[1] = Ret
  BY DEF BSP_fiq
<1> QED
  BY <1>1, FiqOps, FiqText, Zenon DEF SameCode

\* The instructions that only an IRQ runs: BSP_irq's, and the MSR that begins
\* the exit.
LEMMA BspOps ==
  /\ Op(PcAt("irq", 13)) = Call("BSP_irq") /\ Op(PcAt("irq", 14)) = Stmfd("sp", <<"r0", "lr">>)
  /\ Op(PcAt("irq", 15)) = C("num") /\ Op(PcAt("irq", 16)) = C("mask")
  /\ Op(PcAt("irq", 17)) = Msr("sys", FALSE, FALSE) /\ Op(PcAt("irq", 18)) = C("handler")
  /\ Op(PcAt("irq", 19)) = Msr("sys", TRUE, FALSE) /\ Op(PcAt("irq", 20)) = C("unmask")
  /\ Op(PcAt("irq", 21)) = Ldr("lr", 1) /\ Op(PcAt("irq", 22)) = AddSp(2)
  /\ Op(PcAt("irq", 24)) = Msr("sys", TRUE, TRUE) /\ Op(PcAt("fiq", 13)) = Call("BSP_fiq")
<1>1. /\ BSP_irq[1] = Stmfd("sp", <<"r0", "lr">>) /\ BSP_irq[2] = C("num") /\ BSP_irq[3] = C("mask")
      /\ BSP_irq[4] = Msr("sys", FALSE, FALSE) /\ BSP_irq[5] = C("handler") /\ BSP_irq[6] = Msr("sys", TRUE, FALSE)
      /\ BSP_irq[7] = C("unmask") /\ BSP_irq[8] = Ldr("lr", 1) /\ BSP_irq[9] = AddSp(2)
  BY DEF BSP_irq
<1> QED
  BY <1>1, IrqOps, IrqText, FiqOps, FiqText, Zenon

\* The instruction at every stage of a system call.
LEMMA SwiOps ==
  /\ Op(SvcPc(1)) = Stmfd("sp", SwiList) /\ Op(SvcPc(2)) = Call("sw_handler") /\ Op(SvcPc(3)) = C("body")
  /\ Op(SvcPc(4)) = Ret /\ Op(SvcPc(5)) = C("restore")
  BY Routines DEF Op, SvcPc, Code, ARM_swi, sw_handler

-----------------------------------------------------------------------------
(* The instructions executed: Execute at stage n leads to stage n + 1.     *)

\* Which registers the instructions name in each mode.
LEMMA PhysSys ==
  ASSUME cpu.mode = "sys", NEW r
  PROVE  Phys(r) = Usr(r)
  BY DEF Phys, Usr, Banked

\* In IRQ and FIQ mode sp, lr and spsr are banked; r0 and r1 are not.
LEMMA PhysExc ==
  ASSUME NEW m \in {"irq", "fiq"}, cpu.mode = m
  PROVE  /\ Phys("sp") = <<m, "sp">> /\ Phys("lr") = <<m, "lr">> /\ Phys("spsr") = <<m, "spsr">>
         /\ Phys("r0") = Usr("r0") /\ Phys("r1") = Usr("r1")
  BY DEF Phys, Usr, Banked

\* In SVC mode sp, lr and spsr are banked; r0 to r3 and r12 are not.
LEMMA PhysSvc ==
  ASSUME cpu.mode = "svc"
  PROVE  /\ Phys("sp") = SvcSp /\ Phys("lr") = SvcLr /\ Phys("spsr") = SvcSpsr
         /\ \A r \in {"r0", "r1", "r2", "r3", "r12"} : Phys(r) = Usr(r)
  BY DEF Phys, Usr, Banked, SvcSp, SvcLr, SvcSpsr

\* The instruction after that of stage n.
LEMMA NextPc ==
  ASSUME NEW m \in {"irq", "fiq"}, NEW n \in Stages(m) \ {13, 23, 33}
  PROVE  Code(PcAt(m, n)[2], PcAt(m, n)[3] + 1) = PcAt(m, n + 1)
<1>1. CASE m = "irq"
  <2>1. n \in (1 .. 12) \cup (14 .. 22) \cup (24 .. 32) /\ n \in Int
    BY <1>1 DEF Stages
  <2>2. CASE n \in 1 .. 12
    BY <1>1, <2>2 DEF PcAt, Code
  <2>3. CASE n \in 14 .. 22
    <3>1. (n - 13) + 1 = (n + 1) - 13
      BY <2>1
    <3> QED
      BY <1>1, <2>3, <3>1 DEF PcAt, Code
  <2>4. CASE n \in 24 .. 32
    <3>1. (n - 10) + 1 = (n + 1) - 10
      BY <2>1
    <3> QED
      BY <1>1, <2>4, <3>1 DEF PcAt, Code
  <2> QED
    BY <2>1, <2>2, <2>3, <2>4
<1>2. CASE m = "fiq"
  <2>1. n \in (1 .. 12) \cup (25 .. 32) /\ n \in Int
    BY <1>2 DEF Stages
  <2>2. CASE n \in 1 .. 12
    BY <1>2, <2>2 DEF PcAt, Code
  <2>3. CASE n \in 25 .. 32
    <3>1. (n - 11) + 1 = (n + 1) - 11
      BY <2>1
    <3> QED
      BY <1>2, <2>3, <3>1 DEF PcAt, Code
  <2> QED
    BY <2>1, <2>2, <2>3
<1> QED
  BY <1>1, <1>2

Quiet == UNCHANGED <<line, enabled, wanted, ghost>>

\* MOV sp,r0 executed
LEMMA Run1 ==
  ASSUME NEW m \in {"irq", "fiq"}, NEW c, Context(c), Context(Interrupted), Interrupts(m, c, Interrupted, 1), Execute
  PROVE  Interrupts(m, c, Interrupted', 2) /\ Quiet
<1>1. PICK s, t : s = Interrupted /\ t = Interrupted'
  OBVIOUS
<1>2. pc = PcAt(m, 1) /\ cpu = CpuAt(m, 1) /\ cpu.mode = m
  BY DEF Interrupts, Where, Interrupted, CpuAt
<1>3. Instr = Mov("sp", "r0")
  BY <1>2, IrqSame, FiqSame DEF SameCode, Instr, Op
<1>4. Set("sp", Get("r0")) /\ Advance /\ Quiet /\ UNCHANGED <<cpu, mem>>
  BY <1>3 DEF Execute, ExecMove, ExecMsr, ExecStmfd, ExecLdmUser, ExecCall, ExecRet, ExecMovsPc, ReadNum, MaskIrq,
         irq_handler, UnmaskIrq, SwHandler, SwiRestore, Fetch, FetchC, Quiet, Mov
<1>5. Phys("sp") = <<m, "sp">> /\ Phys("r0") = Usr("r0")
  BY <1>2, PhysExc
<1>6. t.pc = PcAt(m, 2)
  BY <1>1, <1>2, <1>4, NextPc DEF Advance, Next4, Interrupted, Stages
<1>8. t.cpu = s.cpu /\ t.mem = s.mem /\ Sets(s, t, <<m, "sp">>, s.reg[Usr("r0")])
  BY <1>1, <1>4, <1>5 DEF Set, Get, Interrupted, Sets
<1> QED
  BY <1>1, <1>4, <1>6, <1>8, Stage1

\* SUB r0,lr,#4 executed
LEMMA Run2 ==
  ASSUME NEW m \in {"irq", "fiq"}, NEW c, Context(c), Context(Interrupted), Interrupts(m, c, Interrupted, 2), Execute
  PROVE  Interrupts(m, c, Interrupted', 3) /\ Quiet
<1>1. PICK s, t : s = Interrupted /\ t = Interrupted'
  OBVIOUS
<1>2. pc = PcAt(m, 2) /\ cpu = CpuAt(m, 2) /\ cpu.mode = m
  BY DEF Interrupts, Where, Interrupted, CpuAt
<1>3. Instr = SubLr4("r0")
  BY <1>2, IrqSame, FiqSame DEF SameCode, Instr, Op
<1>4. Set("r0", Code(Get("lr")[2], Get("lr")[3] - 1)) /\ Advance /\ Quiet /\ UNCHANGED <<cpu, mem>>
  BY <1>3 DEF Execute, ExecMove, ExecMsr, ExecStmfd, ExecLdmUser, ExecCall, ExecRet, ExecMovsPc, ReadNum, MaskIrq,
         irq_handler, UnmaskIrq, SwHandler, SwiRestore, Fetch, FetchC, Quiet, SubLr4
<1>5. Phys("lr") = <<m, "lr">> /\ Phys("r0") = Usr("r0")
  BY <1>2, PhysExc
<1>6. t.pc = PcAt(m, 3)
  BY <1>1, <1>2, <1>4, NextPc DEF Advance, Next4, Interrupted, Stages
<1>7. Code(reg[<<m, "lr">>][2], reg[<<m, "lr">>][3] - 1) = c.pc
  <2>1. reg[<<m, "lr">>] = Code(c.pc[2], c.pc[3] + 1)
    BY DEF Interrupts, Scratched, Interrupted
  <2>2. reg[<<m, "lr">>][2] = c.pc[2] /\ reg[<<m, "lr">>][3] - 1 = c.pc[3]
    BY <2>1 DEF Code, Context
  <2> QED
    BY <2>2 DEF Context
<1>8. t.cpu = s.cpu /\ t.mem = s.mem /\ Sets(s, t, Usr("r0"), c.pc)
  BY <1>1, <1>4, <1>5, <1>7 DEF Set, Get, Interrupted, Sets
<1> QED
  BY <1>1, <1>4, <1>6, <1>8, Stage2

\* MOV lr,r1 executed
LEMMA Run3 ==
  ASSUME NEW m \in {"irq", "fiq"}, NEW c, Context(c), Context(Interrupted), Interrupts(m, c, Interrupted, 3), Execute
  PROVE  Interrupts(m, c, Interrupted', 4) /\ Quiet
<1>1. PICK s, t : s = Interrupted /\ t = Interrupted'
  OBVIOUS
<1>2. pc = PcAt(m, 3) /\ cpu = CpuAt(m, 3) /\ cpu.mode = m
  BY DEF Interrupts, Where, Interrupted, CpuAt
<1>3. Instr = Mov("lr", "r1")
  BY <1>2, IrqSame, FiqSame DEF SameCode, Instr, Op
<1>4. Set("lr", Get("r1")) /\ Advance /\ Quiet /\ UNCHANGED <<cpu, mem>>
  BY <1>3 DEF Execute, ExecMove, ExecMsr, ExecStmfd, ExecLdmUser, ExecCall, ExecRet, ExecMovsPc, ReadNum, MaskIrq,
         irq_handler, UnmaskIrq, SwHandler, SwiRestore, Fetch, FetchC, Quiet, Mov
<1>5. Phys("lr") = <<m, "lr">> /\ Phys("r1") = Usr("r1")
  BY <1>2, PhysExc
<1>6. t.pc = PcAt(m, 4)
  BY <1>1, <1>2, <1>4, NextPc DEF Advance, Next4, Interrupted, Stages
<1>8. t.cpu = s.cpu /\ t.mem = s.mem /\ Sets(s, t, <<m, "lr">>, s.reg[Usr("r1")])
  BY <1>1, <1>4, <1>5 DEF Set, Get, Interrupted, Sets
<1> QED
  BY <1>1, <1>4, <1>6, <1>8, Stage3

\* MRS r1,spsr executed
LEMMA Run4 ==
  ASSUME NEW m \in {"irq", "fiq"}, NEW c, Context(c), Context(Interrupted), Interrupts(m, c, Interrupted, 4), Execute
  PROVE  Interrupts(m, c, Interrupted', 5) /\ Quiet
<1>1. PICK s, t : s = Interrupted /\ t = Interrupted'
  OBVIOUS
<1>2. pc = PcAt(m, 4) /\ cpu = CpuAt(m, 4) /\ cpu.mode = m
  BY DEF Interrupts, Where, Interrupted, CpuAt
<1>3. Instr = Mrs("r1")
  BY <1>2, IrqSame, FiqSame DEF SameCode, Instr, Op
<1>4. Set("r1", Get("spsr")) /\ Advance /\ Quiet /\ UNCHANGED <<cpu, mem>>
  BY <1>3 DEF Execute, ExecMove, ExecMsr, ExecStmfd, ExecLdmUser, ExecCall, ExecRet, ExecMovsPc, ReadNum, MaskIrq,
         irq_handler, UnmaskIrq, SwHandler, SwiRestore, Fetch, FetchC, Quiet, Mrs
<1>5. Phys("spsr") = <<m, "spsr">> /\ Phys("r1") = Usr("r1")
  BY <1>2, PhysExc
<1>6. t.pc = PcAt(m, 5)
  BY <1>1, <1>2, <1>4, NextPc DEF Advance, Next4, Interrupted, Stages
<1>8. t.cpu = s.cpu /\ t.mem = s.mem /\ Sets(s, t, Usr("r1"), s.reg[<<m, "spsr">>])
  BY <1>1, <1>4, <1>5 DEF Set, Get, Interrupted, Sets
<1> QED
  BY <1>1, <1>4, <1>6, <1>8, Stage4

\* MOV r0,sp executed
LEMMA Run8 ==
  ASSUME NEW m \in {"irq", "fiq"}, NEW c, Context(c), Context(Interrupted), Interrupts(m, c, Interrupted, 8), Execute
  PROVE  Interrupts(m, c, Interrupted', 9) /\ Quiet
<1>1. PICK s, t : s = Interrupted /\ t = Interrupted'
  OBVIOUS
<1>2. pc = PcAt(m, 8) /\ cpu = CpuAt(m, 8) /\ cpu.mode = "sys"
  BY DEF Interrupts, Where, Interrupted, CpuAt
<1>3. Instr = Mov("r0", "sp")
  BY <1>2, IrqSame, FiqSame DEF SameCode, Instr, Op
<1>4. Set("r0", Get("sp")) /\ Advance /\ Quiet /\ UNCHANGED <<cpu, mem>>
  BY <1>3 DEF Execute, ExecMove, ExecMsr, ExecStmfd, ExecLdmUser, ExecCall, ExecRet, ExecMovsPc, ReadNum, MaskIrq,
         irq_handler, UnmaskIrq, SwHandler, SwiRestore, Fetch, FetchC, Quiet, Mov
<1>5. Phys("sp") = Usr("sp") /\ Phys("r0") = Usr("r0")
  BY <1>2, PhysSys
<1>6. t.pc = PcAt(m, 9)
  BY <1>1, <1>2, <1>4, NextPc DEF Advance, Next4, Interrupted, Stages
<1>8. t.cpu = s.cpu /\ t.mem = s.mem /\ Sets(s, t, Usr("r0"), s.reg[Usr("sp")])
  BY <1>1, <1>4, <1>5 DEF Set, Get, Interrupted, Sets
<1> QED
  BY <1>1, <1>4, <1>6, <1>8, Stage8

\* SUB sp,sp,#8 executed
LEMMA Run9 ==
  ASSUME NEW m \in {"irq", "fiq"}, NEW c, Context(c), Context(Interrupted), Interrupts(m, c, Interrupted, 9), Execute
  PROVE  Interrupts(m, c, Interrupted', 10) /\ Quiet
<1>1. PICK s, t : s = Interrupted /\ t = Interrupted'
  OBVIOUS
<1>2. pc = PcAt(m, 9) /\ cpu = CpuAt(m, 9) /\ cpu.mode = "sys"
  BY DEF Interrupts, Where, Interrupted, CpuAt
<1>3. Instr = AddSp(-2)
  BY <1>2, IrqSame, FiqSame DEF SameCode, Instr, Op
<1>4. Set("sp", Offset(Get("sp"), -2)) /\ Advance /\ Quiet /\ UNCHANGED <<cpu, mem>>
  BY <1>3 DEF Execute, ExecMove, ExecMsr, ExecStmfd, ExecLdmUser, ExecCall, ExecRet, ExecMovsPc, ReadNum, MaskIrq,
         irq_handler, UnmaskIrq, SwHandler, SwiRestore, Fetch, FetchC, Quiet, AddSp
<1>5. Phys("sp") = Usr("sp")
  BY <1>2, PhysSys
<1>6. t.pc = PcAt(m, 10)
  BY <1>1, <1>2, <1>4, NextPc DEF Advance, Next4, Interrupted, Stages
<1>7. Offset(reg[Usr("sp")], -2) = Addr("sys", Sp(c) - 8)
  <2>1. reg[Usr("sp")] = Addr("sys", Sp(c) - 6)
    BY DEF Interrupts, Where, Depth, Interrupted
  <2>2. Sp(c) - 6 + (-2) = Sp(c) - 8
    BY DEF Context
  <2> QED
    BY <2>1, <2>2 DEF Offset, Addr
<1>8. t.cpu = s.cpu /\ t.mem = s.mem /\ Sets(s, t, Usr("sp"), Addr("sys", Sp(c) - 8))
  BY <1>1, <1>4, <1>5, <1>7 DEF Set, Get, Interrupted, Sets
<1> QED
  BY <1>1, <1>4, <1>6, <1>8, Stage9

\* LDR lr,[sp,#4], of BSP_irq's return, executed
LEMMA Run21 ==
  ASSUME NEW m, m = "irq", NEW c, Context(c), Context(Interrupted), Interrupts(m, c, Interrupted, 21), Execute
  PROVE  Interrupts(m, c, Interrupted', 22) /\ Quiet
<1>1. PICK s, t : s = Interrupted /\ t = Interrupted'
  OBVIOUS
<1>2. pc = PcAt(m, 21) /\ cpu = CpuAt(m, 21) /\ cpu.mode = "sys"
  BY DEF Interrupts, Where, Interrupted, CpuAt
<1>3. Instr = Ldr("lr", 1)
  BY <1>2, BspOps DEF Instr, Op
<1>4. Set("lr", Load(Offset(Get("sp"), 1))) /\ Advance /\ Quiet /\ UNCHANGED <<cpu, mem>>
  BY <1>3 DEF Execute, ExecMove, ExecMsr, ExecStmfd, ExecLdmUser, ExecCall, ExecRet, ExecMovsPc, ReadNum, MaskIrq,
         irq_handler, UnmaskIrq, SwHandler, SwiRestore, Fetch, FetchC, Quiet, Ldr
<1>5. Phys("sp") = Usr("sp") /\ Phys("lr") = Usr("lr")
  BY <1>2, PhysSys
<1>6. t.pc = PcAt(m, 22)
  BY <1>1, <1>2, <1>4, NextPc DEF Advance, Next4, Interrupted, Stages
<1>7. Load(Offset(reg[Usr("sp")], 1)) = PcAt(m, 24)
  <2>1. reg[Usr("sp")] = Addr("sys", Sp(c) - 10) /\ mem[<<"sys", Sp(c) - 9>>] = PcAt(m, 24)
    BY DEF Interrupts, Where, Depth, Interrupted, Scratched
  <2>2. Sp(c) - 10 + 1 = Sp(c) - 9
    BY DEF Context
  <2> QED
    BY <2>1, <2>2 DEF Offset, Addr, Load
<1>8. t.cpu = s.cpu /\ t.mem = s.mem /\ Sets(s, t, Usr("lr"), PcAt(m, 24))
  BY <1>1, <1>4, <1>5, <1>7 DEF Set, Get, Interrupted, Sets
<1> QED
  BY <1>1, <1>4, <1>6, <1>8, Stage21

\* ADD sp,sp,#8, of BSP_irq's return, executed
LEMMA Run22 ==
  ASSUME NEW m, m = "irq", NEW c, Context(c), Context(Interrupted), Interrupts(m, c, Interrupted, 22), Execute
  PROVE  Interrupts(m, c, Interrupted', 23) /\ Quiet
<1>1. PICK s, t : s = Interrupted /\ t = Interrupted'
  OBVIOUS
<1>2. pc = PcAt(m, 22) /\ cpu = CpuAt(m, 22) /\ cpu.mode = "sys"
  BY DEF Interrupts, Where, Interrupted, CpuAt
<1>3. Instr = AddSp(2)
  BY <1>2, BspOps DEF Instr, Op
<1>4. Set("sp", Offset(Get("sp"), 2)) /\ Advance /\ Quiet /\ UNCHANGED <<cpu, mem>>
  BY <1>3 DEF Execute, ExecMove, ExecMsr, ExecStmfd, ExecLdmUser, ExecCall, ExecRet, ExecMovsPc, ReadNum, MaskIrq,
         irq_handler, UnmaskIrq, SwHandler, SwiRestore, Fetch, FetchC, Quiet, AddSp
<1>5. Phys("sp") = Usr("sp")
  BY <1>2, PhysSys
<1>6. t.pc = PcAt(m, 23)
  BY <1>1, <1>2, <1>4, NextPc DEF Advance, Next4, Interrupted, Stages
<1>7. Offset(reg[Usr("sp")], 2) = Addr("sys", Sp(c) - 8)
  <2>1. reg[Usr("sp")] = Addr("sys", Sp(c) - 10)
    BY DEF Interrupts, Where, Depth, Interrupted
  <2>2. Sp(c) - 10 + (2) = Sp(c) - 8
    BY DEF Context
  <2> QED
    BY <2>1, <2>2 DEF Offset, Addr
<1>8. t.cpu = s.cpu /\ t.mem = s.mem /\ Sets(s, t, Usr("sp"), Addr("sys", Sp(c) - 8))
  BY <1>1, <1>4, <1>5, <1>7 DEF Set, Get, Interrupted, Sets
<1> QED
  BY <1>1, <1>4, <1>6, <1>8, Stage22

\* MOV r0,sp executed
LEMMA Run25 ==
  ASSUME NEW m \in {"irq", "fiq"}, NEW c, Context(c), Context(Interrupted), Interrupts(m, c, Interrupted, 25), Execute
  PROVE  Interrupts(m, c, Interrupted', 26) /\ Quiet
<1>1. PICK s, t : s = Interrupted /\ t = Interrupted'
  OBVIOUS
<1>2. pc = PcAt(m, 25) /\ cpu = CpuAt(m, 25) /\ cpu.mode = "sys"
  BY DEF Interrupts, Where, Interrupted, CpuAt
<1>3. Instr = Mov("r0", "sp")
  BY <1>2, IrqSame, FiqSame DEF SameCode, Instr, Op
<1>4. Set("r0", Get("sp")) /\ Advance /\ Quiet /\ UNCHANGED <<cpu, mem>>
  BY <1>3 DEF Execute, ExecMove, ExecMsr, ExecStmfd, ExecLdmUser, ExecCall, ExecRet, ExecMovsPc, ReadNum, MaskIrq,
         irq_handler, UnmaskIrq, SwHandler, SwiRestore, Fetch, FetchC, Quiet, Mov
<1>5. Phys("sp") = Usr("sp") /\ Phys("r0") = Usr("r0")
  BY <1>2, PhysSys
<1>6. t.pc = PcAt(m, 26)
  BY <1>1, <1>2, <1>4, NextPc DEF Advance, Next4, Interrupted, Stages
<1>8. t.cpu = s.cpu /\ t.mem = s.mem /\ Sets(s, t, Usr("r0"), s.reg[Usr("sp")])
  BY <1>1, <1>4, <1>5 DEF Set, Get, Interrupted, Sets
<1> QED
  BY <1>1, <1>4, <1>6, <1>8, Stage25

\* ADD sp,sp,#32 executed
LEMMA Run26 ==
  ASSUME NEW m \in {"irq", "fiq"}, NEW c, Context(c), Context(Interrupted), Interrupts(m, c, Interrupted, 26), Execute
  PROVE  Interrupts(m, c, Interrupted', 27) /\ Quiet
<1>1. PICK s, t : s = Interrupted /\ t = Interrupted'
  OBVIOUS
<1>2. pc = PcAt(m, 26) /\ cpu = CpuAt(m, 26) /\ cpu.mode = "sys"
  BY DEF Interrupts, Where, Interrupted, CpuAt
<1>3. Instr = AddSp(8)
  BY <1>2, IrqSame, FiqSame DEF SameCode, Instr, Op
<1>4. Set("sp", Offset(Get("sp"), 8)) /\ Advance /\ Quiet /\ UNCHANGED <<cpu, mem>>
  BY <1>3 DEF Execute, ExecMove, ExecMsr, ExecStmfd, ExecLdmUser, ExecCall, ExecRet, ExecMovsPc, ReadNum, MaskIrq,
         irq_handler, UnmaskIrq, SwHandler, SwiRestore, Fetch, FetchC, Quiet, AddSp
<1>5. Phys("sp") = Usr("sp")
  BY <1>2, PhysSys
<1>6. t.pc = PcAt(m, 27)
  BY <1>1, <1>2, <1>4, NextPc DEF Advance, Next4, Interrupted, Stages
<1>7. Offset(reg[Usr("sp")], 8) = Addr("sys", Sp(c) - 0)
  <2>1. reg[Usr("sp")] = Addr("sys", Sp(c) - 8)
    BY DEF Interrupts, Where, Depth, Interrupted
  <2>2. Sp(c) - 8 + (8) = Sp(c) - 0
    BY DEF Context
  <2> QED
    BY <2>1, <2>2 DEF Offset, Addr
<1>8. t.cpu = s.cpu /\ t.mem = s.mem /\ Sets(s, t, Usr("sp"), Addr("sys", Sp(c) - 0))
  BY <1>1, <1>4, <1>5, <1>7 DEF Set, Get, Interrupted, Sets
<1> QED
  BY <1>1, <1>4, <1>6, <1>8, Stage26

\* MOV sp,r0 executed
LEMMA Run28 ==
  ASSUME NEW m \in {"irq", "fiq"}, NEW c, Context(c), Context(Interrupted), Interrupts(m, c, Interrupted, 28), Execute
  PROVE  Interrupts(m, c, Interrupted', 29) /\ Quiet
<1>1. PICK s, t : s = Interrupted /\ t = Interrupted'
  OBVIOUS
<1>2. pc = PcAt(m, 28) /\ cpu = CpuAt(m, 28) /\ cpu.mode = m
  BY DEF Interrupts, Where, Interrupted, CpuAt
<1>3. Instr = Mov("sp", "r0")
  BY <1>2, IrqSame, FiqSame DEF SameCode, Instr, Op
<1>4. Set("sp", Get("r0")) /\ Advance /\ Quiet /\ UNCHANGED <<cpu, mem>>
  BY <1>3 DEF Execute, ExecMove, ExecMsr, ExecStmfd, ExecLdmUser, ExecCall, ExecRet, ExecMovsPc, ReadNum, MaskIrq,
         irq_handler, UnmaskIrq, SwHandler, SwiRestore, Fetch, FetchC, Quiet, Mov
<1>5. Phys("sp") = <<m, "sp">> /\ Phys("r0") = Usr("r0")
  BY <1>2, PhysExc
<1>6. t.pc = PcAt(m, 29)
  BY <1>1, <1>2, <1>4, NextPc DEF Advance, Next4, Interrupted, Stages
<1>8. t.cpu = s.cpu /\ t.mem = s.mem /\ Sets(s, t, <<m, "sp">>, s.reg[Usr("r0")])
  BY <1>1, <1>4, <1>5 DEF Set, Get, Interrupted, Sets
<1> QED
  BY <1>1, <1>4, <1>6, <1>8, Stage28

\* LDR r0,[sp,#28] executed
LEMMA Run29 ==
  ASSUME NEW m \in {"irq", "fiq"}, NEW c, Context(c), Context(Interrupted), Interrupts(m, c, Interrupted, 29), Execute
  PROVE  Interrupts(m, c, Interrupted', 30) /\ Quiet
<1>1. PICK s, t : s = Interrupted /\ t = Interrupted'
  OBVIOUS
<1>2. pc = PcAt(m, 29) /\ cpu = CpuAt(m, 29) /\ cpu.mode = m
  BY DEF Interrupts, Where, Interrupted, CpuAt
<1>3. Instr = Ldr("r0", 7)
  BY <1>2, IrqSame, FiqSame DEF SameCode, Instr, Op
<1>4. Set("r0", Load(Offset(Get("sp"), 7))) /\ Advance /\ Quiet /\ UNCHANGED <<cpu, mem>>
  BY <1>3 DEF Execute, ExecMove, ExecMsr, ExecStmfd, ExecLdmUser, ExecCall, ExecRet, ExecMovsPc, ReadNum, MaskIrq,
         irq_handler, UnmaskIrq, SwHandler, SwiRestore, Fetch, FetchC, Quiet, Ldr
<1>5. Phys("sp") = <<m, "sp">> /\ Phys("r0") = Usr("r0")
  BY <1>2, PhysExc
<1>6. t.pc = PcAt(m, 30)
  BY <1>1, <1>2, <1>4, NextPc DEF Advance, Next4, Interrupted, Stages
<1>7. Load(Offset(reg[<<m, "sp">>], 7)) = Psr(c.cpu)
  <2>1. reg[<<m, "sp">>] = Addr("sys", Sp(c) - 8)
    BY DEF Interrupts, Scratched, Interrupted
  <2>2. Sp(c) - 8 + 7 = Sp(c) - 9 + 8 /\ 8 \in Saved(29)
    BY DEF Context, Saved
  <2>3. mem[<<"sys", Sp(c) - 9 + 8>>] = Psr(c.cpu)
    BY <2>2, FrameWords DEF Interrupts, Stacked, Interrupted
  <2> QED
    BY <2>1, <2>2, <2>3 DEF Offset, Addr, Load
<1>8. t.cpu = s.cpu /\ t.mem = s.mem /\ Sets(s, t, Usr("r0"), Psr(c.cpu))
  BY <1>1, <1>4, <1>5, <1>7 DEF Set, Get, Interrupted, Sets
<1> QED
  BY <1>1, <1>4, <1>6, <1>8, Stage29

\* MSR spsr,r0 executed
LEMMA Run30 ==
  ASSUME NEW m \in {"irq", "fiq"}, NEW c, Context(c), Context(Interrupted), Interrupts(m, c, Interrupted, 30), Execute
  PROVE  Interrupts(m, c, Interrupted', 31) /\ Quiet
<1>1. PICK s, t : s = Interrupted /\ t = Interrupted'
  OBVIOUS
<1>2. pc = PcAt(m, 30) /\ cpu = CpuAt(m, 30) /\ cpu.mode = m
  BY DEF Interrupts, Where, Interrupted, CpuAt
<1>3. Instr = MsrSpsr("r0")
  BY <1>2, IrqSame, FiqSame DEF SameCode, Instr, Op
<1>4. Set("spsr", Get("r0")) /\ Advance /\ Quiet /\ UNCHANGED <<cpu, mem>>
  BY <1>3 DEF Execute, ExecMove, ExecMsr, ExecStmfd, ExecLdmUser, ExecCall, ExecRet, ExecMovsPc, ReadNum, MaskIrq,
         irq_handler, UnmaskIrq, SwHandler, SwiRestore, Fetch, FetchC, Quiet, MsrSpsr
<1>5. Phys("spsr") = <<m, "spsr">> /\ Phys("r0") = Usr("r0")
  BY <1>2, PhysExc
<1>6. t.pc = PcAt(m, 31)
  BY <1>1, <1>2, <1>4, NextPc DEF Advance, Next4, Interrupted, Stages
<1>8. t.cpu = s.cpu /\ t.mem = s.mem /\ Sets(s, t, <<m, "spsr">>, s.reg[Usr("r0")])
  BY <1>1, <1>4, <1>5 DEF Set, Get, Interrupted, Sets
<1> QED
  BY <1>1, <1>4, <1>6, <1>8, Stage30

\* LDR lr,[sp,#24] executed
LEMMA Run32 ==
  ASSUME NEW m \in {"irq", "fiq"}, NEW c, Context(c), Context(Interrupted), Interrupts(m, c, Interrupted, 32), Execute
  PROVE  Interrupts(m, c, Interrupted', 33) /\ Quiet
<1>1. PICK s, t : s = Interrupted /\ t = Interrupted'
  OBVIOUS
<1>2. pc = PcAt(m, 32) /\ cpu = CpuAt(m, 32) /\ cpu.mode = m
  BY DEF Interrupts, Where, Interrupted, CpuAt
<1>3. Instr = Ldr("lr", 6)
  BY <1>2, IrqSame, FiqSame DEF SameCode, Instr, Op
<1>4. Set("lr", Load(Offset(Get("sp"), 6))) /\ Advance /\ Quiet /\ UNCHANGED <<cpu, mem>>
  BY <1>3 DEF Execute, ExecMove, ExecMsr, ExecStmfd, ExecLdmUser, ExecCall, ExecRet, ExecMovsPc, ReadNum, MaskIrq,
         irq_handler, UnmaskIrq, SwHandler, SwiRestore, Fetch, FetchC, Quiet, Ldr
<1>5. Phys("sp") = <<m, "sp">> /\ Phys("lr") = <<m, "lr">>
  BY <1>2, PhysExc
<1>6. t.pc = PcAt(m, 33)
  BY <1>1, <1>2, <1>4, NextPc DEF Advance, Next4, Interrupted, Stages
<1>7. Load(Offset(reg[<<m, "sp">>], 6)) = c.pc
  <2>1. reg[<<m, "sp">>] = Addr("sys", Sp(c) - 8)
    BY DEF Interrupts, Scratched, Interrupted
  <2>2. Sp(c) - 8 + 6 = Sp(c) - 9 + 7 /\ 7 \in Saved(32)
    BY DEF Context, Saved
  <2>3. mem[<<"sys", Sp(c) - 9 + 7>>] = c.pc
    BY <2>2, FrameWords DEF Interrupts, Stacked, Interrupted
  <2> QED
    BY <2>1, <2>2, <2>3 DEF Offset, Addr, Load
<1>8. t.cpu = s.cpu /\ t.mem = s.mem /\ Sets(s, t, <<m, "lr">>, c.pc)
  BY <1>1, <1>4, <1>5, <1>7 DEF Set, Get, Interrupted, Sets
<1> QED
  BY <1>1, <1>4, <1>6, <1>8, Stage32

-----------------------------------------------------------------------------
(* The instructions that store.                                            *)

\* STMFD sp!,{r0,r1} executed
LEMMA Run6 ==
  ASSUME NEW m \in {"irq", "fiq"}, NEW c, Context(c), Context(Interrupted), Fits(m, c), Interrupts(m, c, Interrupted, 6), Execute
  PROVE  Interrupts(m, c, Interrupted', 7) /\ Quiet
<1> DEFINE list == <<"r0", "r1">>
<1>1. PICK s, t : s = Interrupted /\ t = Interrupted'
  OBVIOUS
<1>2. pc = PcAt(m, 6) /\ cpu = CpuAt(m, 6) /\ cpu.mode = "sys"
  BY DEF Interrupts, Where, Interrupted, CpuAt
<1>3. Instr = Stmfd("sp", list)
  BY <1>2, IrqSame, FiqSame DEF SameCode, Instr, Op
<1>4. Phys("sp") = Usr("sp") /\ Phys("r0") = Usr("r0") /\ Phys("r1") = Usr("r1")
  BY <1>2, PhysSys
<1>5. PICK low \in Int : low = Sp(c) - 2
  BY DEF Context
<1>6. Offset(Get("sp"), -2) = Addr("sys", low)
  <2>1. reg[Usr("sp")] = Addr("sys", Sp(c) - 0)
    BY DEF Interrupts, Where, Depth, Interrupted
  <2>2. Sp(c) - 0 + (-2) = low
    BY <1>5 DEF Context
  <2> QED
    BY <1>4, <2>1, <2>2 DEF Get, Offset, Addr
<1>7. PICK ws : ws = <<c.pc, Psr(c.cpu)>>
  OBVIOUS
<1>8. reg[Phys("r0")] = c.pc /\ reg[Phys("r1")] = Psr(c.cpu)
  BY <1>4 DEF Interrupts, Interrupted, Scratched, Holds, Held
<1>9. \A i \in 1 .. 2 : reg[Phys(list[i])] = ws[i]
  <2>1. \A i \in 1 .. 2 : i = 1 \/ i = 2
    OBVIOUS
  <2>2. list[1] = "r0" /\ ws[1] = c.pc /\ list[2] = "r1" /\ ws[2] = Psr(c.cpu)
    BY <1>7
  <2> QED
    BY <1>8, <2>1, <2>2
<1>10. DOMAIN list = 1 .. 2 /\ Len(list) = 2 /\ 2 \in Nat
  OBVIOUS
<1> HIDE DEF list
<1>11. /\ mem' = [a \in Cell |-> IF a[1] = "sys" /\ a[2] - low + 1 \in 1 .. 2
                                 THEN ws[a[2] - low + 1] ELSE mem[a]]
       /\ reg' = [reg EXCEPT ![Phys("sp")] = Addr("sys", low)]
       /\ Advance /\ Quiet /\ cpu' = cpu
  <2>1. PICK k \in Nat : k = 2
    OBVIOUS
  <2>2. DOMAIN list = 1 .. k /\ Len(list) = k /\ Offset(Get("sp"), -k) = Addr("sys", low)
    BY <2>1, <1>6, <1>10
  <2>3. ExecStmfd /\ Quiet
    BY <1>3 DEF Execute, ExecMove, ExecMsr, ExecStmfd, ExecLdmUser, ExecCall, ExecRet, ExecMovsPc, ReadNum, MaskIrq,
           irq_handler, UnmaskIrq, SwHandler, SwiRestore, Fetch, FetchC, Quiet, Stmfd
  <2>4. Instr.list = list /\ Instr.b = "sp"
    BY <1>3 DEF Stmfd
  <2>5. mem' = [a \in Cell |-> IF a[1] = "sys" /\ a[2] - low + 1 \in 1 .. k
                              THEN reg[Phys(list[a[2] - low + 1])] ELSE mem[a]]
    BY <2>2, <2>3, <2>4 DEF ExecStmfd, Get, Addr
  <2>6. reg' = [reg EXCEPT ![Phys("sp")] = Addr("sys", low)]
    BY <2>2, <2>3, <2>4 DEF ExecStmfd, Set
  <2>7. mem' = [a \in Cell |-> IF a[1] = "sys" /\ a[2] - low + 1 \in 1 .. 2
                              THEN ws[a[2] - low + 1] ELSE mem[a]]
    BY <1>9, <2>1, <2>5
  <2> QED
    BY <2>3, <2>6, <2>7 DEF ExecStmfd
<1>12. t.pc = PcAt(m, 7)
  BY <1>1, <1>2, <1>11, NextPc DEF Advance, Next4, Interrupted, Stages
<1>13. t.cpu = s.cpu /\ Sets(s, t, Usr("sp"), Addr("sys", Sp(c) - 2)) /\ Stores(s, t, low, 2, ws)
  BY <1>1, <1>4, <1>5, <1>11 DEF Interrupted, Sets, Stores
<1>14. ws = <<c.pc, Psr(c.cpu)>>
  BY <1>1, <1>7 DEF Interrupted
<1> QED
  BY <1>1, <1>5, <1>11, <1>12, <1>13, <1>14, Stage6

\* STMFD sp!,{r2-r3,r12,lr} executed
LEMMA Run7 ==
  ASSUME NEW m \in {"irq", "fiq"}, NEW c, Context(c), Context(Interrupted), Fits(m, c), Interrupts(m, c, Interrupted, 7), Execute
  PROVE  Interrupts(m, c, Interrupted', 8) /\ Quiet
<1> DEFINE list == <<"r2", "r3", "r12", "lr">>
<1>1. PICK s, t : s = Interrupted /\ t = Interrupted'
  OBVIOUS
<1>2. pc = PcAt(m, 7) /\ cpu = CpuAt(m, 7) /\ cpu.mode = "sys"
  BY DEF Interrupts, Where, Interrupted, CpuAt
<1>3. Instr = Stmfd("sp", list)
  BY <1>2, IrqSame, FiqSame DEF SameCode, Instr, Op
<1>4. Phys("sp") = Usr("sp") /\ Phys("r2") = Usr("r2") /\ Phys("r3") = Usr("r3") /\ Phys("r12") = Usr("r12") /\ Phys("lr") = Usr("lr")
  BY <1>2, PhysSys
<1>5. PICK low \in Int : low = Sp(c) - 6
  BY DEF Context
<1>6. Offset(Get("sp"), -4) = Addr("sys", low)
  <2>1. reg[Usr("sp")] = Addr("sys", Sp(c) - 2)
    BY DEF Interrupts, Where, Depth, Interrupted
  <2>2. Sp(c) - 2 + (-4) = low
    BY <1>5 DEF Context
  <2> QED
    BY <1>4, <2>1, <2>2 DEF Get, Offset, Addr
<1>7. PICK ws : ws = <<c.reg[Usr("r2")], c.reg[Usr("r3")], c.reg[Usr("r12")], c.reg[Usr("lr")]>>
  OBVIOUS
<1>8. reg[Phys("r2")] = c.reg[Usr("r2")] /\ reg[Phys("r3")] = c.reg[Usr("r3")] /\ reg[Phys("r12")] = c.reg[Usr("r12")] /\ reg[Phys("lr")] = c.reg[Usr("lr")]
  BY <1>4 DEF Interrupts, Interrupted, Scratched, Holds, Held
<1>9. \A i \in 1 .. 4 : reg[Phys(list[i])] = ws[i]
  <2>1. \A i \in 1 .. 4 : i = 1 \/ i = 2 \/ i = 3 \/ i = 4
    OBVIOUS
  <2>2. list[1] = "r2" /\ ws[1] = c.reg[Usr("r2")] /\ list[2] = "r3" /\ ws[2] = c.reg[Usr("r3")] /\ list[3] = "r12" /\ ws[3] = c.reg[Usr("r12")] /\ list[4] = "lr" /\ ws[4] = c.reg[Usr("lr")]
    BY <1>7
  <2> QED
    BY <1>8, <2>1, <2>2
<1>10. DOMAIN list = 1 .. 4 /\ Len(list) = 4 /\ 4 \in Nat
  OBVIOUS
<1> HIDE DEF list
<1>11. /\ mem' = [a \in Cell |-> IF a[1] = "sys" /\ a[2] - low + 1 \in 1 .. 4
                                 THEN ws[a[2] - low + 1] ELSE mem[a]]
       /\ reg' = [reg EXCEPT ![Phys("sp")] = Addr("sys", low)]
       /\ Advance /\ Quiet /\ cpu' = cpu
  <2>1. PICK k \in Nat : k = 4
    OBVIOUS
  <2>2. DOMAIN list = 1 .. k /\ Len(list) = k /\ Offset(Get("sp"), -k) = Addr("sys", low)
    BY <2>1, <1>6, <1>10
  <2>3. ExecStmfd /\ Quiet
    BY <1>3 DEF Execute, ExecMove, ExecMsr, ExecStmfd, ExecLdmUser, ExecCall, ExecRet, ExecMovsPc, ReadNum, MaskIrq,
           irq_handler, UnmaskIrq, SwHandler, SwiRestore, Fetch, FetchC, Quiet, Stmfd
  <2>4. Instr.list = list /\ Instr.b = "sp"
    BY <1>3 DEF Stmfd
  <2>5. mem' = [a \in Cell |-> IF a[1] = "sys" /\ a[2] - low + 1 \in 1 .. k
                              THEN reg[Phys(list[a[2] - low + 1])] ELSE mem[a]]
    BY <2>2, <2>3, <2>4 DEF ExecStmfd, Get, Addr
  <2>6. reg' = [reg EXCEPT ![Phys("sp")] = Addr("sys", low)]
    BY <2>2, <2>3, <2>4 DEF ExecStmfd, Set
  <2>7. mem' = [a \in Cell |-> IF a[1] = "sys" /\ a[2] - low + 1 \in 1 .. 4
                              THEN ws[a[2] - low + 1] ELSE mem[a]]
    BY <1>9, <2>1, <2>5
  <2> QED
    BY <2>3, <2>6, <2>7 DEF ExecStmfd
<1>12. t.pc = PcAt(m, 8)
  BY <1>1, <1>2, <1>11, NextPc DEF Advance, Next4, Interrupted, Stages
<1>13. t.cpu = s.cpu /\ Sets(s, t, Usr("sp"), Addr("sys", Sp(c) - 6)) /\ Stores(s, t, low, 4, ws)
  BY <1>1, <1>4, <1>5, <1>11 DEF Interrupted, Sets, Stores
<1>14. ws = <<c.reg[Usr("r2")], c.reg[Usr("r3")], c.reg[Usr("r12")], c.reg[Usr("lr")]>>
  BY <1>1, <1>7 DEF Interrupted
<1> QED
  BY <1>1, <1>5, <1>11, <1>12, <1>13, <1>14, Stage7

\* STMFD r0!,{sp,lr} executed
LEMMA Run11 ==
  ASSUME NEW m \in {"irq", "fiq"}, NEW c, Context(c), Context(Interrupted), Fits(m, c), Interrupts(m, c, Interrupted, 11), Execute
  PROVE  Interrupts(m, c, Interrupted', 12) /\ Quiet
<1> DEFINE list == <<"sp", "lr">>
<1>1. PICK s, t : s = Interrupted /\ t = Interrupted'
  OBVIOUS
<1>2. pc = PcAt(m, 11) /\ cpu = CpuAt(m, 11) /\ cpu.mode = m
  BY DEF Interrupts, Where, Interrupted, CpuAt
<1>3. Instr = Stmfd("r0", list)
  BY <1>2, IrqSame, FiqSame DEF SameCode, Instr, Op
<1>4. Phys("r0") = Usr("r0") /\ Phys("sp") = <<m, "sp">> /\ Phys("lr") = <<m, "lr">>
  BY <1>2, PhysExc
<1>5. PICK low \in Int : low = Sp(c) - 8
  BY DEF Context
<1>6. Offset(Get("r0"), -2) = Addr("sys", low)
  <2>1. reg[Usr("r0")] = Addr("sys", Sp(c) - 6)
    BY DEF Interrupts, Scratched, Interrupted
  <2>2. Sp(c) - 6 + (-2) = low
    BY <1>5 DEF Context
  <2> QED
    BY <1>4, <2>1, <2>2 DEF Get, Offset, Addr
<1>7. PICK ws : ws = <<c.reg[Usr("r0")], c.reg[Usr("r1")]>>
  OBVIOUS
<1>8. reg[Phys("sp")] = c.reg[Usr("r0")] /\ reg[Phys("lr")] = c.reg[Usr("r1")]
  BY <1>4 DEF Interrupts, Interrupted, Scratched, Holds, Held
<1>9. \A i \in 1 .. 2 : reg[Phys(list[i])] = ws[i]
  <2>1. \A i \in 1 .. 2 : i = 1 \/ i = 2
    OBVIOUS
  <2>2. list[1] = "sp" /\ ws[1] = c.reg[Usr("r0")] /\ list[2] = "lr" /\ ws[2] = c.reg[Usr("r1")]
    BY <1>7
  <2> QED
    BY <1>8, <2>1, <2>2
<1>10. DOMAIN list = 1 .. 2 /\ Len(list) = 2 /\ 2 \in Nat
  OBVIOUS
<1> HIDE DEF list
<1>11. /\ mem' = [a \in Cell |-> IF a[1] = "sys" /\ a[2] - low + 1 \in 1 .. 2
                                 THEN ws[a[2] - low + 1] ELSE mem[a]]
       /\ reg' = [reg EXCEPT ![Phys("r0")] = Addr("sys", low)]
       /\ Advance /\ Quiet /\ cpu' = cpu
  <2>1. PICK k \in Nat : k = 2
    OBVIOUS
  <2>2. DOMAIN list = 1 .. k /\ Len(list) = k /\ Offset(Get("r0"), -k) = Addr("sys", low)
    BY <2>1, <1>6, <1>10
  <2>3. ExecStmfd /\ Quiet
    BY <1>3 DEF Execute, ExecMove, ExecMsr, ExecStmfd, ExecLdmUser, ExecCall, ExecRet, ExecMovsPc, ReadNum, MaskIrq,
           irq_handler, UnmaskIrq, SwHandler, SwiRestore, Fetch, FetchC, Quiet, Stmfd
  <2>4. Instr.list = list /\ Instr.b = "r0"
    BY <1>3 DEF Stmfd
  <2>5. mem' = [a \in Cell |-> IF a[1] = "sys" /\ a[2] - low + 1 \in 1 .. k
                              THEN reg[Phys(list[a[2] - low + 1])] ELSE mem[a]]
    BY <2>2, <2>3, <2>4 DEF ExecStmfd, Get, Addr
  <2>6. reg' = [reg EXCEPT ![Phys("r0")] = Addr("sys", low)]
    BY <2>2, <2>3, <2>4 DEF ExecStmfd, Set
  <2>7. mem' = [a \in Cell |-> IF a[1] = "sys" /\ a[2] - low + 1 \in 1 .. 2
                              THEN ws[a[2] - low + 1] ELSE mem[a]]
    BY <1>9, <2>1, <2>5
  <2> QED
    BY <2>3, <2>6, <2>7 DEF ExecStmfd
<1>12. t.pc = PcAt(m, 12)
  BY <1>1, <1>2, <1>11, NextPc DEF Advance, Next4, Interrupted, Stages
<1>13. t.cpu = s.cpu /\ Sets(s, t, Usr("r0"), Addr("sys", Sp(c) - 8)) /\ Stores(s, t, low, 2, ws)
  BY <1>1, <1>4, <1>5, <1>11 DEF Interrupted, Sets, Stores
<1>14. ws = <<c.reg[Usr("r0")], c.reg[Usr("r1")]>>
  BY <1>1, <1>7 DEF Interrupted
<1> QED
  BY <1>1, <1>5, <1>11, <1>12, <1>13, <1>14, Stage11

\* STMFD sp!,{r0,lr}, BSP_irq's prologue, executed
LEMMA Run14 ==
  ASSUME NEW m, m = "irq", NEW c, Context(c), Context(Interrupted), Fits(m, c), Interrupts(m, c, Interrupted, 14), Execute
  PROVE  Interrupts(m, c, Interrupted', 15) /\ Quiet
<1> DEFINE list == <<"r0", "lr">>
<1>1. PICK s, t : s = Interrupted /\ t = Interrupted'
  OBVIOUS
<1>2. pc = PcAt(m, 14) /\ cpu = CpuAt(m, 14) /\ cpu.mode = "sys"
  BY DEF Interrupts, Where, Interrupted, CpuAt
<1>3. Instr = Stmfd("sp", list)
  BY <1>2, BspOps DEF Instr, Op
<1>4. Phys("sp") = Usr("sp") /\ Phys("r0") = Usr("r0") /\ Phys("lr") = Usr("lr")
  BY <1>2, PhysSys
<1>5. PICK low \in Int : low = Sp(c) - 10
  BY DEF Context
<1>6. Offset(Get("sp"), -2) = Addr("sys", low)
  <2>1. reg[Usr("sp")] = Addr("sys", Sp(c) - 8)
    BY DEF Interrupts, Where, Depth, Interrupted
  <2>2. Sp(c) - 8 + (-2) = low
    BY <1>5 DEF Context
  <2> QED
    BY <1>4, <2>1, <2>2 DEF Get, Offset, Addr
<1>7. PICK ws : ws = <<reg[Usr("r0")], PcAt(m, 24)>>
  OBVIOUS
<1>8. reg[Phys("r0")] = reg[Usr("r0")] /\ reg[Phys("lr")] = PcAt(m, 24)
  BY <1>4 DEF Interrupts, Interrupted, Scratched, Holds, Held
<1>9. \A i \in 1 .. 2 : reg[Phys(list[i])] = ws[i]
  <2>1. \A i \in 1 .. 2 : i = 1 \/ i = 2
    OBVIOUS
  <2>2. list[1] = "r0" /\ ws[1] = reg[Usr("r0")] /\ list[2] = "lr" /\ ws[2] = PcAt(m, 24)
    BY <1>7
  <2> QED
    BY <1>8, <2>1, <2>2
<1>10. DOMAIN list = 1 .. 2 /\ Len(list) = 2 /\ 2 \in Nat
  OBVIOUS
<1> HIDE DEF list
<1>11. /\ mem' = [a \in Cell |-> IF a[1] = "sys" /\ a[2] - low + 1 \in 1 .. 2
                                 THEN ws[a[2] - low + 1] ELSE mem[a]]
       /\ reg' = [reg EXCEPT ![Phys("sp")] = Addr("sys", low)]
       /\ Advance /\ Quiet /\ cpu' = cpu
  <2>1. PICK k \in Nat : k = 2
    OBVIOUS
  <2>2. DOMAIN list = 1 .. k /\ Len(list) = k /\ Offset(Get("sp"), -k) = Addr("sys", low)
    BY <2>1, <1>6, <1>10
  <2>3. ExecStmfd /\ Quiet
    BY <1>3 DEF Execute, ExecMove, ExecMsr, ExecStmfd, ExecLdmUser, ExecCall, ExecRet, ExecMovsPc, ReadNum, MaskIrq,
           irq_handler, UnmaskIrq, SwHandler, SwiRestore, Fetch, FetchC, Quiet, Stmfd
  <2>4. Instr.list = list /\ Instr.b = "sp"
    BY <1>3 DEF Stmfd
  <2>5. mem' = [a \in Cell |-> IF a[1] = "sys" /\ a[2] - low + 1 \in 1 .. k
                              THEN reg[Phys(list[a[2] - low + 1])] ELSE mem[a]]
    BY <2>2, <2>3, <2>4 DEF ExecStmfd, Get, Addr
  <2>6. reg' = [reg EXCEPT ![Phys("sp")] = Addr("sys", low)]
    BY <2>2, <2>3, <2>4 DEF ExecStmfd, Set
  <2>7. mem' = [a \in Cell |-> IF a[1] = "sys" /\ a[2] - low + 1 \in 1 .. 2
                              THEN ws[a[2] - low + 1] ELSE mem[a]]
    BY <1>9, <2>1, <2>5
  <2> QED
    BY <2>3, <2>6, <2>7 DEF ExecStmfd
<1>12. t.pc = PcAt(m, 15)
  BY <1>1, <1>2, <1>11, NextPc DEF Advance, Next4, Interrupted, Stages
<1>13. t.cpu = s.cpu /\ Sets(s, t, Usr("sp"), Addr("sys", Sp(c) - 10)) /\ Stores(s, t, low, 2, ws)
  BY <1>1, <1>4, <1>5, <1>11 DEF Interrupted, Sets, Stores
<1>14. ws = <<s.reg[Usr("r0")], PcAt(m, 24)>>
  BY <1>1, <1>7 DEF Interrupted
<1> QED
  BY <1>1, <1>5, <1>11, <1>12, <1>13, <1>14, Stage14

-----------------------------------------------------------------------------
(* MSR, calls, returns and the C statements of BSP_irq.                    *)

\* What an MSR leaves in CPSR.
LEMMA MsrOps ==
  /\ Op(PcAt("irq", 5)).op = "msr" /\ Op(PcAt("irq", 5)).c = CpuAt("irq", 6)
  /\ Op(PcAt("irq", 10)).op = "msr" /\ Op(PcAt("irq", 10)).c = CpuAt("irq", 11)
  /\ Op(PcAt("irq", 12)).op = "msr" /\ Op(PcAt("irq", 12)).c = CpuAt("irq", 13)
  /\ Op(PcAt("irq", 17)).op = "msr" /\ Op(PcAt("irq", 17)).c = CpuAt("irq", 18)
  /\ Op(PcAt("irq", 19)).op = "msr" /\ Op(PcAt("irq", 19)).c = CpuAt("irq", 20)
  /\ Op(PcAt("irq", 24)).op = "msr" /\ Op(PcAt("irq", 24)).c = CpuAt("irq", 25)
  /\ Op(PcAt("irq", 27)).op = "msr" /\ Op(PcAt("irq", 27)).c = CpuAt("irq", 28)
  /\ Op(PcAt("fiq", 5)).op = "msr" /\ Op(PcAt("fiq", 5)).c = CpuAt("fiq", 6)
  /\ Op(PcAt("fiq", 10)).op = "msr" /\ Op(PcAt("fiq", 10)).c = CpuAt("fiq", 11)
  /\ Op(PcAt("fiq", 12)).op = "msr" /\ Op(PcAt("fiq", 12)).c = CpuAt("fiq", 13)
  /\ Op(PcAt("fiq", 27)).op = "msr" /\ Op(PcAt("fiq", 27)).c = CpuAt("fiq", 28)
<1>1. Op(PcAt("irq", 5)).op = "msr" /\ Op(PcAt("irq", 5)).c = CpuAt("irq", 6)
  <2>1. (6 \notin {18, 19}) = TRUE /\ (6 <= 5 \/ 6 \in {11, 12} \/ 6 >= 28) = FALSE
        /\ ("irq" = "fiq" \/ 6 >= 25) = FALSE
    OBVIOUS
  <2>2. CpuAt("irq", 6) = [mode |-> "sys", I |-> TRUE, F |-> FALSE]
    BY <2>1, Zenon DEF CpuAt
  <2>3. Op(PcAt("irq", 5)) = Msr("sys", TRUE, FALSE)
    BY IrqSame, Zenon DEF SameCode
  <2>4. Msr("sys", TRUE, FALSE).op = "msr"
        /\ Msr("sys", TRUE, FALSE).c = [mode |-> "sys", I |-> TRUE, F |-> FALSE]
    BY DEF Msr
  <2> QED
    BY <2>2, <2>3, <2>4, Zenon
<1>2. Op(PcAt("irq", 10)).op = "msr" /\ Op(PcAt("irq", 10)).c = CpuAt("irq", 11)
  <2>1. (11 \notin {18, 19}) = TRUE /\ (11 <= 5 \/ 11 \in {11, 12} \/ 11 >= 28) = TRUE
        /\ ("irq" = "fiq" \/ 11 >= 25) = FALSE
    OBVIOUS
  <2>2. CpuAt("irq", 11) = [mode |-> "irq", I |-> TRUE, F |-> FALSE]
    BY <2>1, Zenon DEF CpuAt
  <2>3. Op(PcAt("irq", 10)) = Msr("irq", TRUE, FALSE)
    BY IrqSame, Zenon DEF SameCode
  <2>4. Msr("irq", TRUE, FALSE).op = "msr"
        /\ Msr("irq", TRUE, FALSE).c = [mode |-> "irq", I |-> TRUE, F |-> FALSE]
    BY DEF Msr
  <2> QED
    BY <2>2, <2>3, <2>4, Zenon
<1>3. Op(PcAt("irq", 12)).op = "msr" /\ Op(PcAt("irq", 12)).c = CpuAt("irq", 13)
  <2>1. (13 \notin {18, 19}) = TRUE /\ (13 <= 5 \/ 13 \in {11, 12} \/ 13 >= 28) = FALSE
        /\ ("irq" = "fiq" \/ 13 >= 25) = FALSE
    OBVIOUS
  <2>2. CpuAt("irq", 13) = [mode |-> "sys", I |-> TRUE, F |-> FALSE]
    BY <2>1, Zenon DEF CpuAt
  <2>3. Op(PcAt("irq", 12)) = Msr("sys", TRUE, FALSE)
    BY IrqSame, Zenon DEF SameCode
  <2>4. Msr("sys", TRUE, FALSE).op = "msr"
        /\ Msr("sys", TRUE, FALSE).c = [mode |-> "sys", I |-> TRUE, F |-> FALSE]
    BY DEF Msr
  <2> QED
    BY <2>2, <2>3, <2>4, Zenon
<1>4. Op(PcAt("irq", 17)).op = "msr" /\ Op(PcAt("irq", 17)).c = CpuAt("irq", 18)
  <2>1. (18 \notin {18, 19}) = FALSE /\ (18 <= 5 \/ 18 \in {11, 12} \/ 18 >= 28) = FALSE
        /\ ("irq" = "fiq" \/ 18 >= 25) = FALSE
    OBVIOUS
  <2>2. CpuAt("irq", 18) = [mode |-> "sys", I |-> FALSE, F |-> FALSE]
    BY <2>1, Zenon DEF CpuAt
  <2>3. Op(PcAt("irq", 17)) = Msr("sys", FALSE, FALSE)
    BY BspOps, Zenon DEF SameCode
  <2>4. Msr("sys", FALSE, FALSE).op = "msr"
        /\ Msr("sys", FALSE, FALSE).c = [mode |-> "sys", I |-> FALSE, F |-> FALSE]
    BY DEF Msr
  <2> QED
    BY <2>2, <2>3, <2>4, Zenon
<1>5. Op(PcAt("irq", 19)).op = "msr" /\ Op(PcAt("irq", 19)).c = CpuAt("irq", 20)
  <2>1. (20 \notin {18, 19}) = TRUE /\ (20 <= 5 \/ 20 \in {11, 12} \/ 20 >= 28) = FALSE
        /\ ("irq" = "fiq" \/ 20 >= 25) = FALSE
    OBVIOUS
  <2>2. CpuAt("irq", 20) = [mode |-> "sys", I |-> TRUE, F |-> FALSE]
    BY <2>1, Zenon DEF CpuAt
  <2>3. Op(PcAt("irq", 19)) = Msr("sys", TRUE, FALSE)
    BY BspOps, Zenon DEF SameCode
  <2>4. Msr("sys", TRUE, FALSE).op = "msr"
        /\ Msr("sys", TRUE, FALSE).c = [mode |-> "sys", I |-> TRUE, F |-> FALSE]
    BY DEF Msr
  <2> QED
    BY <2>2, <2>3, <2>4, Zenon
<1>6. Op(PcAt("irq", 24)).op = "msr" /\ Op(PcAt("irq", 24)).c = CpuAt("irq", 25)
  <2>1. (25 \notin {18, 19}) = TRUE /\ (25 <= 5 \/ 25 \in {11, 12} \/ 25 >= 28) = FALSE
        /\ ("irq" = "fiq" \/ 25 >= 25) = TRUE
    OBVIOUS
  <2>2. CpuAt("irq", 25) = [mode |-> "sys", I |-> TRUE, F |-> TRUE]
    BY <2>1, Zenon DEF CpuAt
  <2>3. Op(PcAt("irq", 24)) = Msr("sys", TRUE, TRUE)
    BY BspOps, Zenon DEF SameCode
  <2>4. Msr("sys", TRUE, TRUE).op = "msr"
        /\ Msr("sys", TRUE, TRUE).c = [mode |-> "sys", I |-> TRUE, F |-> TRUE]
    BY DEF Msr
  <2> QED
    BY <2>2, <2>3, <2>4, Zenon
<1>7. Op(PcAt("irq", 27)).op = "msr" /\ Op(PcAt("irq", 27)).c = CpuAt("irq", 28)
  <2>1. (28 \notin {18, 19}) = TRUE /\ (28 <= 5 \/ 28 \in {11, 12} \/ 28 >= 28) = TRUE
        /\ ("irq" = "fiq" \/ 28 >= 25) = TRUE
    OBVIOUS
  <2>2. CpuAt("irq", 28) = [mode |-> "irq", I |-> TRUE, F |-> TRUE]
    BY <2>1, Zenon DEF CpuAt
  <2>3. Op(PcAt("irq", 27)) = Msr("irq", TRUE, TRUE)
    BY IrqSame, Zenon DEF SameCode
  <2>4. Msr("irq", TRUE, TRUE).op = "msr"
        /\ Msr("irq", TRUE, TRUE).c = [mode |-> "irq", I |-> TRUE, F |-> TRUE]
    BY DEF Msr
  <2> QED
    BY <2>2, <2>3, <2>4, Zenon
<1>8. Op(PcAt("fiq", 5)).op = "msr" /\ Op(PcAt("fiq", 5)).c = CpuAt("fiq", 6)
  <2>1. (6 \notin {18, 19}) = TRUE /\ (6 <= 5 \/ 6 \in {11, 12} \/ 6 >= 28) = FALSE
        /\ ("fiq" = "fiq" \/ 6 >= 25) = TRUE
    OBVIOUS
  <2>2. CpuAt("fiq", 6) = [mode |-> "sys", I |-> TRUE, F |-> TRUE]
    BY <2>1, Zenon DEF CpuAt
  <2>3. Op(PcAt("fiq", 5)) = Msr("sys", TRUE, TRUE)
    BY FiqSame, Zenon DEF SameCode
  <2>4. Msr("sys", TRUE, TRUE).op = "msr"
        /\ Msr("sys", TRUE, TRUE).c = [mode |-> "sys", I |-> TRUE, F |-> TRUE]
    BY DEF Msr
  <2> QED
    BY <2>2, <2>3, <2>4, Zenon
<1>9. Op(PcAt("fiq", 10)).op = "msr" /\ Op(PcAt("fiq", 10)).c = CpuAt("fiq", 11)
  <2>1. (11 \notin {18, 19}) = TRUE /\ (11 <= 5 \/ 11 \in {11, 12} \/ 11 >= 28) = TRUE
        /\ ("fiq" = "fiq" \/ 11 >= 25) = TRUE
    OBVIOUS
  <2>2. CpuAt("fiq", 11) = [mode |-> "fiq", I |-> TRUE, F |-> TRUE]
    BY <2>1, Zenon DEF CpuAt
  <2>3. Op(PcAt("fiq", 10)) = Msr("fiq", TRUE, TRUE)
    BY FiqSame, Zenon DEF SameCode
  <2>4. Msr("fiq", TRUE, TRUE).op = "msr"
        /\ Msr("fiq", TRUE, TRUE).c = [mode |-> "fiq", I |-> TRUE, F |-> TRUE]
    BY DEF Msr
  <2> QED
    BY <2>2, <2>3, <2>4, Zenon
<1>10. Op(PcAt("fiq", 12)).op = "msr" /\ Op(PcAt("fiq", 12)).c = CpuAt("fiq", 13)
  <2>1. (13 \notin {18, 19}) = TRUE /\ (13 <= 5 \/ 13 \in {11, 12} \/ 13 >= 28) = FALSE
        /\ ("fiq" = "fiq" \/ 13 >= 25) = TRUE
    OBVIOUS
  <2>2. CpuAt("fiq", 13) = [mode |-> "sys", I |-> TRUE, F |-> TRUE]
    BY <2>1, Zenon DEF CpuAt
  <2>3. Op(PcAt("fiq", 12)) = Msr("sys", TRUE, TRUE)
    BY FiqSame, Zenon DEF SameCode
  <2>4. Msr("sys", TRUE, TRUE).op = "msr"
        /\ Msr("sys", TRUE, TRUE).c = [mode |-> "sys", I |-> TRUE, F |-> TRUE]
    BY DEF Msr
  <2> QED
    BY <2>2, <2>3, <2>4, Zenon
<1>11. Op(PcAt("fiq", 27)).op = "msr" /\ Op(PcAt("fiq", 27)).c = CpuAt("fiq", 28)
  <2>1. (28 \notin {18, 19}) = TRUE /\ (28 <= 5 \/ 28 \in {11, 12} \/ 28 >= 28) = TRUE
        /\ ("fiq" = "fiq" \/ 28 >= 25) = TRUE
    OBVIOUS
  <2>2. CpuAt("fiq", 28) = [mode |-> "fiq", I |-> TRUE, F |-> TRUE]
    BY <2>1, Zenon DEF CpuAt
  <2>3. Op(PcAt("fiq", 27)) = Msr("fiq", TRUE, TRUE)
    BY FiqSame, Zenon DEF SameCode
  <2>4. Msr("fiq", TRUE, TRUE).op = "msr"
        /\ Msr("fiq", TRUE, TRUE).c = [mode |-> "fiq", I |-> TRUE, F |-> TRUE]
    BY DEF Msr
  <2> QED
    BY <2>2, <2>3, <2>4, Zenon
<1> QED
  BY <1>1, <1>2, <1>3, <1>4, <1>5, <1>6, <1>7, <1>8, <1>9, <1>10, <1>11

\* MSR cpsr
LEMMA RunMsr ==
  ASSUME NEW m \in {"irq", "fiq"}, NEW c, NEW n \in {5, 10, 12, 17, 19, 24, 27}, n \in Stages(m),
         Interrupts(m, c, Interrupted, n), Execute
  PROVE  Interrupts(m, c, Interrupted', n + 1) /\ Quiet
<1>1. PICK s, t : s = Interrupted /\ t = Interrupted'
  OBVIOUS
<1>2. pc = PcAt(m, n)
  BY DEF Interrupts, Where, Interrupted
<1>3. Op(PcAt(m, n)).op = "msr" /\ Op(PcAt(m, n)).c = CpuAt(m, n + 1)
  <2>1. CASE m = "irq"
    BY <2>1, MsrOps
  <2>2. CASE m = "fiq"
    <3>1. n \in {5, 10, 12, 27}
      BY <2>2 DEF Stages
    <3> QED
      BY <2>2, <3>1, MsrOps
  <2> QED
    BY <2>1, <2>2
<1>4. cpu' = CpuAt(m, n + 1) /\ Advance /\ Quiet /\ UNCHANGED <<reg, mem>>
  <2>1. Instr.op = "msr" /\ Instr.c = CpuAt(m, n + 1)
    BY <1>2, <1>3 DEF Instr, Op
  <2>2. ExecMsr
    BY <2>1 DEF Execute, ExecMove, ExecMsr, ExecStmfd, ExecLdmUser, ExecCall, ExecRet, ExecMovsPc, ReadNum, MaskIrq,
         irq_handler, UnmaskIrq, SwHandler, SwiRestore, Fetch, FetchC
  <2> QED
    BY <2>1, <2>2 DEF ExecMsr, Quiet
<1>5. t.pc = PcAt(m, n + 1)
  BY <1>1, <1>2, <1>4, NextPc DEF Advance, Next4, Interrupted
<1>6. t.cpu = CpuAt(m, n + 1) /\ t.mem = s.mem /\ t.reg = s.reg
  BY <1>1, <1>4 DEF Interrupted
<1> QED
  BY <1>1, <1>4, <1>5, <1>6, StageMsr

\* LDR r12,=BSP_irq; MOV lr,pc; BX r12
LEMMA Run13 ==
  ASSUME NEW m \in {"irq", "fiq"}, NEW c, NEW n, n = (IF m = "irq" THEN 14 ELSE 23),
         Context(c), Context(Interrupted), Interrupts(m, c, Interrupted, 13), Execute
  PROVE  Interrupts(m, c, Interrupted', n) /\ Quiet
<1>1. PICK s, t : s = Interrupted /\ t = Interrupted'
  OBVIOUS
<1>2. pc = PcAt(m, 13) /\ cpu.mode = "sys"
  BY DEF Interrupts, Where, Interrupted, CpuAt
<1>3. PICK f : Instr = Call(f) /\ Code(f, 1) = PcAt(m, n)
  <2>1. Instr = Call(IF m = "irq" THEN "BSP_irq" ELSE "BSP_fiq")
    BY <1>2, BspOps DEF Instr, Op
  <2> QED
    BY <2>1 DEF PcAt
<1>4. /\ reg' = [reg EXCEPT ![Phys("r12")] = Code(f, 1), ![Phys("lr")] = Next4]
      /\ pc' = Code(f, 1) /\ Quiet /\ UNCHANGED <<cpu, mem>>
  BY <1>3 DEF Execute, ExecMove, ExecMsr, ExecStmfd, ExecLdmUser, ExecCall, ExecRet, ExecMovsPc, ReadNum, MaskIrq,
         irq_handler, UnmaskIrq, SwHandler, SwiRestore, Fetch, FetchC, Call, Quiet
<1>5. Phys("r12") = Usr("r12") /\ Phys("lr") = Usr("lr")
  BY <1>2, PhysSys
<1>6. Next4 = PcAt(m, IF m = "irq" THEN 24 ELSE 25)
  BY <1>2 DEF Next4, PcAt, Code
<1>7. /\ t.reg = [s.reg EXCEPT ![Usr("r12")] = Code(f, 1), ![Usr("lr")] = PcAt(m, IF m = "irq" THEN 24 ELSE 25)]
      /\ t.pc = PcAt(m, n) /\ t.cpu = s.cpu /\ t.mem = s.mem
  BY <1>1, <1>3, <1>4, <1>5, <1>6 DEF Interrupted
<1> QED
  BY <1>1, <1>4, <1>7, Stage13

\* The return of BSP_irq or BSP_fiq.
LEMMA Run23 ==
  ASSUME NEW m \in {"irq", "fiq"}, NEW c, NEW n, n = (IF m = "irq" THEN 24 ELSE 25),
         Interrupts(m, c, Interrupted, 23), Execute
  PROVE  Interrupts(m, c, Interrupted', n) /\ Quiet
<1>1. PICK s, t : s = Interrupted /\ t = Interrupted'
  OBVIOUS
<1>2. pc = PcAt(m, 23) /\ cpu.mode = "sys"
  BY DEF Interrupts, Where, Interrupted, CpuAt
<1>3. Instr = Ret
  BY <1>2, IrqSame, FiqSame DEF SameCode, Instr, Op
<1>4. pc' = Get("lr") /\ Quiet /\ UNCHANGED <<cpu, reg, mem>>
  BY <1>3 DEF Execute, ExecMove, ExecMsr, ExecStmfd, ExecLdmUser, ExecCall, ExecRet, ExecMovsPc, ReadNum, MaskIrq,
         irq_handler, UnmaskIrq, SwHandler, SwiRestore, Fetch, FetchC, Ret, Quiet
<1>5. Phys("lr") = Usr("lr")
  BY <1>2, PhysSys
<1>6. reg[Usr("lr")] = PcAt(m, n)
  BY DEF Interrupts, Scratched, Interrupted
<1>7. t.reg = s.reg /\ t.pc = PcAt(m, n) /\ t.cpu = s.cpu /\ t.mem = s.mem
  BY <1>1, <1>4, <1>5, <1>6 DEF Interrupted, Get
<1> QED
  BY <1>1, <1>4, <1>7, Stage23

\* `irq' on BSP_irq's frame.
LEMMA LocalVariable ==
  ASSUME NEW c, NEW n \in 16 .. 21, Context(c), Interrupts("irq", c, Interrupted, n)
  PROVE  LocalIrq = c.irq
<1>1. cpu.mode = "sys" /\ reg[Usr("sp")] = Addr("sys", Sp(c) - 10) /\ mem[<<"sys", Sp(c) - 10>>] = Number(c.irq)
  BY DEF Interrupts, Where, Depth, Interrupted, Scratched, CpuAt
<1>2. Phys("sp") = Usr("sp")
  BY <1>1, PhysSys
<1> QED
  BY <1>1, <1>2 DEF LocalIrq, Load, Get, Addr, Number

\* irq = goldfish_get_irq_num()
LEMMA Run15 ==
  ASSUME NEW c, Context(c), Context(Interrupted), Fits("irq", c), Interrupts("irq", c, Interrupted, 15), Execute
  PROVE  /\ Interrupts("irq", [c EXCEPT !.irq = goldfish_get_irq_num], Interrupted', 16)
         /\ UNCHANGED <<line, enabled, wanted>>
         /\ ghost' = [ghost EXCEPT ![Len(ghost)].ctx.irq = goldfish_get_irq_num]
<1>1. PICK s, t, w : s = Interrupted /\ t = Interrupted' /\ w = goldfish_get_irq_num
  OBVIOUS
<1>2. pc = PcAt("irq", 15) /\ cpu.mode = "sys"
  BY DEF Interrupts, Where, Interrupted, CpuAt
<1>3. Instr = C("num")
  BY <1>2, BspOps DEF Instr, Op
<1>4. ReadNum
  BY <1>3 DEF Execute, ExecMove, ExecMsr, ExecStmfd, ExecLdmUser, ExecCall, ExecRet, ExecMovsPc, ReadNum, MaskIrq,
         irq_handler, UnmaskIrq, SwHandler, SwiRestore, Fetch, FetchC, C
<1>5. Get("sp")[3] = Sp(c) - 10
  <2>1. Phys("sp") = Usr("sp") /\ reg[Usr("sp")] = Addr("sys", Sp(c) - 10)
    BY <1>2, PhysSys DEF Interrupts, Where, Depth, Interrupted
  <2> QED
    BY <2>1 DEF Get, Addr
<1>6. t.pc = PcAt("irq", 16)
  <2>1. Code(PcAt("irq", 15)[2], PcAt("irq", 15)[3] + 1) = PcAt("irq", 15 + 1) /\ 15 + 1 = 16
    BY NextPc DEF Stages
  <2>2. t.pc = pc'
    BY <1>1 DEF Interrupted
  <2>3. pc' = Code(pc[2], pc[3] + 1)
    BY <1>4 DEF ReadNum, Advance, Next4
  <2> QED
    BY <1>2, <2>1, <2>2, <2>3
<1>7. t.cpu = s.cpu /\ t.mem = [s.mem EXCEPT ![<<"sys", Sp(c) - 10>>] = Number(w)] /\ Clobbers(s, t)
  BY <1>1, <1>4, <1>5 DEF Interrupted, ReadNum, Clobbers, Clobbered
<1>8. PICK d : d = [c EXCEPT !.irq = w]
  OBVIOUS
<1>9. Interrupts("irq", d, t, 16)
  BY <1>1, <1>6, <1>7, <1>8, Stage15
<1> QED
  BY <1>1, <1>4, <1>8, <1>9 DEF ReadNum

\* The other statements of BSP_irq.
LEMMA RunC ==
  ASSUME NEW c, NEW n \in {16, 18, 20}, Context(c), Interrupts("irq", c, Interrupted, n), Execute
  PROVE  /\ Interrupts("irq", c, Interrupted', n + 1) /\ UNCHANGED <<wanted, ghost>>
         /\ n = 16 => enabled' = enabled \ {c.irq} /\ line' = line
         /\ n = 18 => line' = line \ {c.irq} /\ enabled' = enabled
         /\ n = 20 => enabled' = enabled \cup {c.irq} /\ line' = line
<1>1. PICK s, t : s = Interrupted /\ t = Interrupted'
  OBVIOUS
<1>2. pc = PcAt("irq", n) /\ LocalIrq = c.irq
  BY LocalVariable DEF Interrupts, Where, Interrupted
<1>3. /\ n = 16 => Instr = C("mask")
      /\ n = 18 => Instr = C("handler")
      /\ n = 20 => Instr = C("unmask")
  BY <1>2, BspOps DEF Instr, Op
<1>4. /\ n = 16 => MaskIrq
      /\ n = 18 => irq_handler
      /\ n = 20 => UnmaskIrq
  BY <1>3 DEF Execute, ExecMove, ExecMsr, ExecStmfd, ExecLdmUser, ExecCall, ExecRet, ExecMovsPc, ReadNum, MaskIrq,
         irq_handler, UnmaskIrq, SwHandler, SwiRestore, Fetch, FetchC, C
<1>5. /\ reg' = Clobbered(reg) /\ Advance /\ UNCHANGED <<wanted, ghost, cpu, mem>>
      /\ n = 16 => enabled' = enabled \ {c.irq} /\ line' = line
      /\ n = 18 => line' = line \ {c.irq} /\ enabled' = enabled
      /\ n = 20 => enabled' = enabled \cup {c.irq} /\ line' = line
  BY <1>2, <1>4 DEF MaskIrq, irq_handler, UnmaskIrq
<1>6. t.pc = PcAt("irq", n + 1)
  BY <1>1, <1>2, <1>5, NextPc DEF Advance, Next4, Interrupted, Stages
<1>7. t.cpu = s.cpu /\ t.mem = s.mem /\ Clobbers(s, t)
  BY <1>1, <1>5 DEF Interrupted, Clobbers, Clobbered
<1>8. Interrupts("irq", c, t, n + 1)
  BY <1>1, <1>6, <1>7, StageC
<1> QED
  BY <1>1, <1>5, <1>8

-----------------------------------------------------------------------------
(* LDMFD sp,list^ and the return from an interrupt.                        *)

\* LDM into the user bank: what each register of the list gets.
LEMMA DoUnstack ==
  ASSUME NEW list, NEW k \in DOMAIN list, \A i, j \in DOMAIN list : list[i] = list[j] => i = j,
         Usr(list[k]) \in RegName
  PROVE  Unstacked(list)[Usr(list[k])] = Load(Offset(Get("sp"), k - 1))
<1>1. PICK i : i = CHOOSE j \in DOMAIN list : list[j] = list[k]
  OBVIOUS
<1>2. i \in DOMAIN list /\ list[i] = list[k]
  BY <1>1
<1>3. i = k
  BY <1>2
<1>4. Usr(list[k])[1] = "usr" /\ Usr(list[k])[2] = list[k]
  BY DEF Usr
<1> QED
  BY <1>1, <1>3, <1>4 DEF Unstacked

\* LDMFD sp,list^ leaves the other registers alone.
LEMMA DoUnstackRest ==
  ASSUME NEW list, NEW r \in RegName, r[1] # "usr" \/ \A k \in DOMAIN list : list[k] # r[2]
  PROVE  Unstacked(list)[r] = reg[r]
  BY DEF Unstacked

\* LDMFD sp,{r0-r3,r12,lr}^
LEMMA Run31 ==
  ASSUME NEW m \in {"irq", "fiq"}, NEW c, Context(c), Context(Interrupted), Interrupts(m, c, Interrupted, 31), Execute
  PROVE  Interrupts(m, c, Interrupted', 32) /\ Quiet
<1> DEFINE list == <<"r0", "r1", "r2", "r3", "r12", "lr">>
<1>1. PICK s, t : s = Interrupted /\ t = Interrupted'
  OBVIOUS
<1>2. pc = PcAt(m, 31) /\ cpu.mode = m
  BY DEF Interrupts, Where, Interrupted, CpuAt
<1>3. Instr = LdmUser(list)
  BY <1>2, IrqSame, FiqSame DEF SameCode, Instr, Op
<1>4. reg' = Unstacked(list) /\ Advance /\ Quiet /\ UNCHANGED <<cpu, mem>>
  BY <1>3 DEF Execute, ExecMove, ExecMsr, ExecStmfd, ExecLdmUser, ExecCall, ExecRet, ExecMovsPc, ReadNum, MaskIrq,
         irq_handler, UnmaskIrq, SwHandler, SwiRestore, Fetch, FetchC, LdmUser, Quiet
<1>5. /\ DOMAIN list = 1 .. 6
      /\ list[1] = "r0" /\ list[2] = "r1" /\ list[3] = "r2" /\ list[4] = "r3" /\ list[5] = "r12" /\ list[6] = "lr"
  OBVIOUS
<1> HIDE DEF list
<1>6. \A i, j \in DOMAIN list : list[i] = list[j] => i = j
  <2>1. \A i \in 1 .. 6 : i = 1 \/ i = 2 \/ i = 3 \/ i = 4 \/ i = 5 \/ i = 6
    OBVIOUS
  <2> QED
    BY <1>5, <2>1
<1>7. ASSUME NEW k \in 1 .. 6, Usr(list[k]) \in RegName PROVE t.reg[Usr(list[k])] = FrameWord(c)[k]
  <2>1. reg'[Usr(list[k])] = Load(Offset(Get("sp"), k - 1))
    BY <1>4, <1>5, <1>6, <1>7, DoUnstack
  <2>2. Get("sp") = Addr("sys", Sp(c) - 8)
    BY <1>2, PhysExc DEF Get, Interrupts, Scratched, Interrupted
  <2>3. Sp(c) - 8 + (k - 1) = Sp(c) - 9 + k /\ k \in Saved(31)
    BY DEF Context, Saved
  <2>4. mem[<<"sys", Sp(c) - 9 + k>>] = FrameWord(c)[k]
    BY <2>3 DEF Interrupts, Stacked, Interrupted
  <2> QED
    BY <1>1, <2>1, <2>2, <2>3, <2>4 DEF Offset, Addr, Load, Interrupted
<1>8. Holds(c, t, 32)
  <2>1. \A r \in UserRegs : Usr(r) \in RegName
    BY Registers
  <2>2. 1 \in 1 .. 6 /\ 2 \in 1 .. 6 /\ 3 \in 1 .. 6 /\ 4 \in 1 .. 6 /\ 5 \in 1 .. 6 /\ 6 \in 1 .. 6
    OBVIOUS
  <2>3. /\ t.reg[Usr("r0")] = FrameWord(c)[1] /\ t.reg[Usr("r1")] = FrameWord(c)[2]
        /\ t.reg[Usr("r2")] = FrameWord(c)[3] /\ t.reg[Usr("r3")] = FrameWord(c)[4]
        /\ t.reg[Usr("r12")] = FrameWord(c)[5] /\ t.reg[Usr("lr")] = FrameWord(c)[6]
    BY <1>5, <1>7, <2>1, <2>2 DEF UserRegs
  <2> QED
    BY <2>3, FrameWords DEF Holds, Held
<1>9. ASSUME NEW r \in RegName, r[1] # "usr" \/ r[2] = "sp" PROVE t.reg[r] = s.reg[r]
  <2>1. \A i \in 1 .. 6 : i = 1 \/ i = 2 \/ i = 3 \/ i = 4 \/ i = 5 \/ i = 6
    OBVIOUS
  <2>2. \A i \in 1 .. 6 : list[i] # "sp"
    BY <1>5, <2>1
  <2>3. reg'[r] = reg[r]
    BY <1>4, <1>5, <1>9, <2>2, DoUnstackRest
  <2> QED
    BY <1>1, <2>3 DEF Interrupted
<1>10. t.pc = PcAt(m, 32)
  BY <1>1, <1>2, <1>4, NextPc DEF Advance, Next4, Interrupted, Stages
<1>11. t.cpu = s.cpu /\ t.mem = s.mem
  BY <1>1, <1>4 DEF Interrupted
<1> QED
  BY <1>1, <1>4, <1>8, <1>9, <1>10, <1>11, Stage31

\* MOVS pc,lr
LEMMA Run33 ==
  ASSUME NEW m \in {"irq", "fiq"}, NEW c, Context(c), Context(Interrupted), Interrupts(m, c, Interrupted, 33), Execute
  PROVE  /\ Resumes(m, c, Interrupted') /\ UNCHANGED <<line, enabled, wanted>>
         /\ ghost' = SubSeq(ghost, 1, Len(ghost) - 1)
<1>1. PICK s, t : s = Interrupted /\ t = Interrupted'
  OBVIOUS
<1>2. pc = PcAt(m, 33) /\ cpu.mode = m
  BY DEF Interrupts, Where, Interrupted, CpuAt
<1>3. Instr = MovsPc
  BY <1>2, IrqSame, FiqSame DEF SameCode, Instr, Op
<1>4. ExecMovsPc
  BY <1>3 DEF Execute, ExecMove, ExecMsr, ExecStmfd, ExecLdmUser, ExecCall, ExecRet, ExecMovsPc, ReadNum, MaskIrq,
         irq_handler, UnmaskIrq, SwHandler, SwiRestore, Fetch, FetchC, MovsPc
<1>5. Phys("lr") = <<m, "lr">> /\ Phys("spsr") = <<m, "spsr">>
  BY <1>2, PhysExc
<1>6. /\ t.pc = s.reg[<<m, "lr">>]
      /\ t.cpu = [mode |-> s.reg[<<m, "spsr">>][2], I |-> s.reg[<<m, "spsr">>][3], F |-> s.reg[<<m, "spsr">>][4]]
      /\ t.reg = [r \in RegName |-> IF r \in {m} \X Banked(m) THEN Junk ELSE s.reg[r]]
      /\ t.mem = [a \in Cell |-> IF a[1] = "sys" /\ a[2] < Sp(s) THEN Junk ELSE s.mem[a]]
  BY <1>1, <1>2, <1>4, <1>5 DEF ExecMovsPc, LeaveTo, Get, Interrupted, Sp, Usr
<1>7. Resumes(m, c, t)
  BY <1>1, <1>6, Leave
<1> QED
  BY <1>1, <1>4, <1>7 DEF ExecMovsPc, LeaveTo, Devices

-----------------------------------------------------------------------------
(* ARM_swi executed.                                                       *)

\* STMFD sp!,{r0-r12,lr} of ARM_swi
LEMMA RunSvc1 ==
  ASSUME NEW c, Context(Interrupted), Calls(c, Interrupted, 1), StackWords >= 6, Execute
  PROVE  Calls(c, Interrupted', 2) /\ Quiet
<1> DEFINE list == SwiList
<1>1. PICK s, t : s = Interrupted /\ t = Interrupted'
  OBVIOUS
<1>2. pc = SvcPc(1) /\ cpu.mode = "svc"
  BY DEF Calls, Interrupted
<1>3. Instr = Stmfd("sp", list)
  BY <1>2, SwiOps DEF Instr, Op
<1>4. /\ Phys("sp") = SvcSp /\ Phys("lr") = SvcLr /\ Phys("r0") = Usr("r0") /\ Phys("r1") = Usr("r1")
      /\ Phys("r2") = Usr("r2") /\ Phys("r3") = Usr("r3") /\ Phys("r12") = Usr("r12")
  BY <1>2, PhysSvc
<1>5. PICK low \in Int : low = StackWords - 5
  BY StackAssumption
<1>6. Offset(Get("sp"), -6) = Addr("svc", low)
  <2>1. reg[SvcSp] = Addr("svc", StackWords + 1 - 0)
    BY DEF Calls, Interrupted, SvcSp
  <2>2. StackWords + 1 - 0 + (-6) = low
    BY <1>5, StackAssumption
  <2> QED
    BY <1>4, <2>1, <2>2 DEF Get, Offset, Addr
<1>7. PICK ws : ws = << reg[Usr("r0")], reg[Usr("r1")], reg[Usr("r2")], reg[Usr("r3")], reg[Usr("r12")], reg[SvcLr] >>
  OBVIOUS
<1>8. \A i \in 1 .. 6 : reg[Phys(list[i])] = ws[i]
  <2>1. \A i \in 1 .. 6 : i = 1 \/ i = 2 \/ i = 3 \/ i = 4 \/ i = 5 \/ i = 6
    OBVIOUS
  <2>2. list[1] = "r0" /\ list[2] = "r1" /\ list[3] = "r2" /\ list[4] = "r3" /\ list[5] = "r12" /\ list[6] = "lr"
    BY DEF SwiList
  <2>3. /\ ws[1] = reg[Usr("r0")] /\ ws[2] = reg[Usr("r1")] /\ ws[3] = reg[Usr("r2")] /\ ws[4] = reg[Usr("r3")]
        /\ ws[5] = reg[Usr("r12")] /\ ws[6] = reg[SvcLr]
    BY <1>7
  <2> QED
    BY <1>4, <2>1, <2>2, <2>3
<1>9. DOMAIN list = 1 .. 6 /\ Len(list) = 6 /\ 6 \in Nat
  BY DEF SwiList
<1> HIDE DEF list
<1>10. /\ mem' = [a \in Cell |-> IF a[1] = "svc" /\ a[2] - low + 1 \in 1 .. 6
                                 THEN ws[a[2] - low + 1] ELSE mem[a]]
       /\ reg' = [reg EXCEPT ![Phys("sp")] = Addr("svc", low)]
       /\ Advance /\ Quiet /\ cpu' = cpu
  <2>1. PICK k \in Nat : k = 6
    OBVIOUS
  <2>2. DOMAIN list = 1 .. k /\ Len(list) = k /\ Offset(Get("sp"), -k) = Addr("svc", low)
    BY <2>1, <1>6, <1>9
  <2>3. ExecStmfd /\ Quiet
    BY <1>3 DEF Execute, ExecMove, ExecMsr, ExecStmfd, ExecLdmUser, ExecCall, ExecRet, ExecMovsPc, ReadNum, MaskIrq,
           irq_handler, UnmaskIrq, SwHandler, SwiRestore, Fetch, FetchC, Quiet, Stmfd
  <2>4. Instr.list = list /\ Instr.b = "sp"
    BY <1>3 DEF Stmfd
  <2>5. mem' = [a \in Cell |-> IF a[1] = "svc" /\ a[2] - low + 1 \in 1 .. k
                              THEN reg[Phys(list[a[2] - low + 1])] ELSE mem[a]]
    BY <2>2, <2>3, <2>4 DEF ExecStmfd, Get, Addr
  <2>6. reg' = [reg EXCEPT ![Phys("sp")] = Addr("svc", low)]
    BY <2>2, <2>3, <2>4 DEF ExecStmfd, Set
  <2>7. mem' = [a \in Cell |-> IF a[1] = "svc" /\ a[2] - low + 1 \in 1 .. 6
                              THEN ws[a[2] - low + 1] ELSE mem[a]]
    BY <1>8, <2>1, <2>5
  <2> QED
    BY <2>3, <2>6, <2>7 DEF ExecStmfd
<1>11. t.pc = SvcPc(2) /\ t.cpu = s.cpu
  BY <1>1, <1>2, <1>10 DEF Advance, Next4, Interrupted, SvcPc, Code
<1>12. Sets(s, t, SvcSp, Addr("svc", StackWords - 5))
  BY <1>1, <1>4, <1>5, <1>10 DEF Interrupted, Sets
<1>13. t.mem = [a \in Cell |-> IF a[1] = "svc" /\ a[2] - (StackWords - 5) + 1 \in 1 .. 6
                               THEN ws[a[2] - (StackWords - 5) + 1] ELSE s.mem[a]]
  BY <1>1, <1>5, <1>10 DEF Interrupted
<1>14. ws = << s.reg[Usr("r0")], s.reg[Usr("r1")], s.reg[Usr("r2")], s.reg[Usr("r3")], s.reg[Usr("r12")], s.reg[SvcLr] >>
  BY <1>1, <1>7 DEF Interrupted
<1> QED
  BY <1>1, <1>10, <1>11, <1>12, <1>13, <1>14, Svc1

\* The call of sw_handler, its statements and its return.
LEMMA RunSvc ==
  ASSUME NEW c, NEW n \in 2 .. 4, Context(Interrupted), Calls(c, Interrupted, n), Execute
  PROVE  Calls(c, Interrupted', n + 1) /\ Quiet
<1>1. PICK s, t : s = Interrupted /\ t = Interrupted'
  OBVIOUS
<1>2. pc = SvcPc(n) /\ cpu.mode = "svc"
  BY DEF Calls, Interrupted
<1>3. Phys("lr") = SvcLr /\ Phys("r12") = Usr("r12")
  BY <1>2, PhysSvc
<1>4. CASE n = 2
  <2>1. Instr = Call("sw_handler")
    BY <1>2, <1>4, SwiOps DEF Instr, Op
  <2>2. /\ reg' = [reg EXCEPT ![Phys("r12")] = Code("sw_handler", 1), ![Phys("lr")] = Next4]
        /\ pc' = Code("sw_handler", 1) /\ Quiet /\ UNCHANGED <<cpu, mem>>
    BY <2>1 DEF Execute, ExecMove, ExecMsr, ExecStmfd, ExecLdmUser, ExecCall, ExecRet, ExecMovsPc, ReadNum, MaskIrq,
         irq_handler, UnmaskIrq, SwHandler, SwiRestore, Fetch, FetchC, Call, Quiet
  <2>3. Next4 = SvcPc(5) /\ Code("sw_handler", 1) = SvcPc(3)
    BY <1>2, <1>4 DEF Next4, SvcPc, Code
  <2>4. t.reg = [s.reg EXCEPT ![Usr("r12")] = SvcPc(3), ![SvcLr] = SvcPc(5)]
    BY <1>1, <1>3, <2>2, <2>3 DEF Interrupted
  <2>5. t.reg[SvcLr] = SvcPc(5)
    BY <1>1, <2>4, SvcNames DEF Context
  <2>6. \A r \in RegName : (r[1] # "usr" /\ r # SvcLr) \/ r \in {Usr("sp"), Usr("lr")} => t.reg[r] = s.reg[r]
    BY <1>1, <2>4 DEF Context, Usr, SvcLr
  <2>7. t.pc = SvcPc(n + 1) /\ t.cpu = s.cpu /\ t.mem = s.mem
    BY <1>1, <1>4, <2>2, <2>3 DEF Interrupted
  <2> QED
    BY <1>1, <1>4, <2>2, <2>5, <2>6, <2>7, SvcOn
<1>5. CASE n = 3
  <2>1. Instr = C("body")
    BY <1>2, <1>5, SwiOps DEF Instr, Op
  <2>2. reg' = Clobbered(reg) /\ Advance /\ Quiet /\ UNCHANGED <<cpu, mem>>
    BY <2>1 DEF Execute, ExecMove, ExecMsr, ExecStmfd, ExecLdmUser, ExecCall, ExecRet, ExecMovsPc, ReadNum, MaskIrq,
         irq_handler, UnmaskIrq, SwHandler, SwiRestore, Fetch, FetchC, C, Quiet
  <2>3. Next4 = SvcPc(4)
    BY <1>2, <1>5 DEF Next4, SvcPc, Code
  <2>4. \A r \in RegName : r[1] # "usr" \/ r \in {Usr("sp"), Usr("lr")} => t.reg[r] = s.reg[r]
    BY <1>1, <2>2 DEF Interrupted, Clobbered, Usr
  <2>5. t.reg[SvcLr] = s.reg[SvcLr]
    BY <2>4, SvcNames DEF SvcLr
  <2>7. t.pc = SvcPc(n + 1) /\ t.cpu = s.cpu /\ t.mem = s.mem
    BY <1>1, <1>5, <2>2, <2>3 DEF Interrupted, Advance
  <2> QED
    BY <1>1, <1>5, <2>2, <2>4, <2>5, <2>7, SvcOn
<1>6. CASE n = 4
  <2>1. Instr = Ret
    BY <1>2, <1>6, SwiOps DEF Instr, Op
  <2>2. pc' = Get("lr") /\ Quiet /\ UNCHANGED <<cpu, reg, mem>>
    BY <2>1 DEF Execute, ExecMove, ExecMsr, ExecStmfd, ExecLdmUser, ExecCall, ExecRet, ExecMovsPc, ReadNum, MaskIrq,
         irq_handler, UnmaskIrq, SwHandler, SwiRestore, Fetch, FetchC, Ret, Quiet
  <2>3. Get("lr") = SvcPc(5)
    BY <1>3, <1>6 DEF Get, Calls, Interrupted, SvcLr
  <2>4. t.pc = SvcPc(n + 1) /\ t.cpu = s.cpu /\ t.mem = s.mem /\ t.reg = s.reg
    BY <1>1, <1>6, <2>2, <2>3 DEF Interrupted
  <2> QED
    BY <1>1, <1>6, <2>2, <2>4, SvcOn
<1> QED
  BY <1>4, <1>5, <1>6

\* LDMFD sp!,{r0-r12,pc}^
LEMMA RunSvc5 ==
  ASSUME NEW c, Context(c), Context(Interrupted), MainOK(c), Calls(c, Interrupted, 5), StackWords >= 6, Execute
  PROVE  /\ Resumes("svc", c, Interrupted') /\ UNCHANGED <<line, enabled, wanted>>
         /\ ghost' = SubSeq(ghost, 1, Len(ghost) - 1)
         /\ reg' = [r \in RegName |-> reg'[r]] /\ mem' = [a \in Cell |-> mem'[a]]
<1> DEFINE list == <<"r0", "r1", "r2", "r3", "r12">>
           regs == [Unstacked(list) EXCEPT ![SvcSp] = Offset(Get("sp"), 6)]
           own == {"svc"} \X {"lr", "spsr"}
<1>1. PICK s, t : s = Interrupted /\ t = Interrupted'
  OBVIOUS
<1>2. pc = SvcPc(5) /\ cpu.mode = "svc"
  BY DEF Calls, Interrupted
<1>3. Instr = C("restore")
  BY <1>2, SwiOps DEF Instr, Op
<1>4. SwiRestore
  BY <1>3 DEF Execute, ExecMove, ExecMsr, ExecStmfd, ExecLdmUser, ExecCall, ExecRet, ExecMovsPc, ReadNum, MaskIrq,
         irq_handler, UnmaskIrq, SwHandler, SwiRestore, Fetch, FetchC, C
<1>5. Phys("sp") = SvcSp /\ Phys("spsr") = SvcSpsr
  BY <1>2, PhysSvc
<1>6. SubSeq(SwiList, 1, Len(SwiList) - 1) = list /\ Len(SwiList) = 6
  <2>1. Len(SwiList) = 6 /\ Len(SwiList) - 1 = 5
    BY DEF SwiList
  <2>2. SubSeq(SwiList, 1, 5) = [i \in 1 .. 5 |-> SwiList[i]]
    BY <2>1
  <2>3. list = [i \in 1 .. 5 |-> SwiList[i]]
    BY DEF SwiList
  <2> QED
    BY <2>1, <2>2, <2>3
<1>7. /\ pc' = Load(Offset(Get("sp"), 5))
      /\ LeaveTo(Get("spsr"), regs, reg[Usr("sp")][3], own)
  <2>1. 6 - 1 = 5
    OBVIOUS
  <2> QED
    BY <1>4, <1>6, <2>1 DEF SwiRestore, SvcSp, Usr
<1>8. Get("sp") = Addr("svc", StackWords - 5) /\ Get("spsr") = reg[SvcSpsr]
  <2>1. reg[SvcSp] = Addr("svc", StackWords + 1 - 6) /\ StackWords + 1 - 6 = StackWords - 5
    BY StackAssumption DEF Calls, Interrupted, SvcSp
  <2> QED
    BY <1>5, <2>1 DEF Get
<1>9. /\ DOMAIN list = 1 .. 5
      /\ list[1] = "r0" /\ list[2] = "r1" /\ list[3] = "r2" /\ list[4] = "r3" /\ list[5] = "r12"
  OBVIOUS
<1>10. reg' = [r \in RegName |-> IF r \in own THEN Junk ELSE regs[r]]
  BY <1>7 DEF LeaveTo
<1> HIDE DEF list
<1>11. \A i, j \in DOMAIN list : list[i] = list[j] => i = j
  <2>1. \A i \in 1 .. 5 : i = 1 \/ i = 2 \/ i = 3 \/ i = 4 \/ i = 5
    OBVIOUS
  <2> QED
    BY <1>9, <2>1
<1>12. regs = [r \in RegName |-> IF r = SvcSp THEN Offset(Get("sp"), 6) ELSE Unstacked(list)[r]]
  BY DEF Unstacked
<1> HIDE DEF regs
<1>13. ASSUME NEW k \in 1 .. 5, Usr(list[k]) \in RegName PROVE t.reg[Usr(list[k])] = FrameWord(c)[k]
  <2>1. Unstacked(list)[Usr(list[k])] = Load(Offset(Get("sp"), k - 1))
    BY <1>9, <1>11, <1>13, DoUnstack
  <2>2. Usr(list[k]) \notin own /\ Usr(list[k]) # SvcSp
    BY DEF Usr, SvcSp
  <2>3. StackWords - 5 + (k - 1) = StackWords - 6 + k
    BY StackAssumption
  <2>4. mem[<<"svc", StackWords - 6 + k>>] = FrameWord(c)[k]
    BY DEF Calls, Interrupted
  <2>5. reg'[Usr(list[k])] = Load(Offset(Get("sp"), k - 1))
    BY <1>10, <1>12, <1>13, <2>1, <2>2
  <2> QED
    BY <1>1, <1>8, <2>3, <2>4, <2>5 DEF Offset, Addr, Load, Interrupted
<1>14. \A r \in {"r0", "r1", "r2", "r3", "r12"} : t.reg[Usr(r)] = c.reg[Usr(r)]
  <2>1. \A r \in UserRegs : Usr(r) \in RegName
    BY Registers
  <2>2. 1 \in 1 .. 5 /\ 2 \in 1 .. 5 /\ 3 \in 1 .. 5 /\ 4 \in 1 .. 5 /\ 5 \in 1 .. 5
    OBVIOUS
  <2>3. /\ t.reg[Usr("r0")] = FrameWord(c)[1] /\ t.reg[Usr("r1")] = FrameWord(c)[2]
        /\ t.reg[Usr("r2")] = FrameWord(c)[3] /\ t.reg[Usr("r3")] = FrameWord(c)[4]
        /\ t.reg[Usr("r12")] = FrameWord(c)[5]
    BY <1>9, <1>13, <2>1, <2>2 DEF UserRegs
  <2> QED
    BY <2>3, FrameWords
<1>15. ASSUME NEW r \in RegName, r[1] = "irq" \/ r \in {Usr("sp"), Usr("lr")} PROVE t.reg[r] = s.reg[r]
  <2>1. \A i \in 1 .. 5 : i = 1 \/ i = 2 \/ i = 3 \/ i = 4 \/ i = 5
    OBVIOUS
  <2>2. \A i \in 1 .. 5 : list[i] # "sp" /\ list[i] # "lr"
    BY <1>9, <2>1
  <2>3. r[1] # "usr" \/ r[2] \in {"sp", "lr"}
    BY <1>15 DEF Usr
  <2>4. Unstacked(list)[r] = reg[r]
    BY <1>9, <2>2, <2>3, DoUnstackRest
  <2>5. r \notin own /\ r # SvcSp
    BY <1>15 DEF Usr, SvcSp
  <2> QED
    BY <1>1, <1>10, <1>12, <2>4, <2>5 DEF Interrupted
<1>16. t.reg[SvcSp] = Addr("svc", StackWords + 1)
  <2>1. SvcSp \in RegName /\ SvcSp \notin own
    BY SvcNames DEF SvcSp
  <2>2. reg'[SvcSp] = Offset(Get("sp"), 6)
    BY <1>10, <1>12, <2>1
  <2>3. StackWords - 5 + 6 = StackWords + 1
    BY StackAssumption
  <2> QED
    BY <1>1, <1>8, <2>2, <2>3 DEF Offset, Addr, Interrupted
<1>17. t.pc = s.mem[<<"svc", StackWords>>]
  <2>1. StackWords - 5 + 5 = StackWords
    BY StackAssumption
  <2> QED
    BY <1>1, <1>7, <1>8, <2>1 DEF Offset, Addr, Load, Interrupted
<1>18. /\ t.cpu = [mode |-> s.reg[SvcSpsr][2], I |-> s.reg[SvcSpsr][3], F |-> s.reg[SvcSpsr][4]]
       /\ t.mem = [a \in Cell |-> IF a[1] = "sys" /\ a[2] < Sp(s) THEN Junk ELSE s.mem[a]]
  BY <1>1, <1>7, <1>8 DEF LeaveTo, Interrupted, Sp
<1>19. Resumes("svc", c, t)
  BY <1>1, <1>14, <1>15, <1>16, <1>17, <1>18, LeaveSvc
<1>20. reg' = [r \in RegName |-> reg'[r]] /\ mem' = [a \in Cell |-> mem'[a]]
  BY <1>7, <1>10 DEF LeaveTo
<1> QED
  BY <1>1, <1>7, <1>19, <1>20 DEF LeaveTo, Devices

-----------------------------------------------------------------------------
(* Any instruction of ARM_irq and ARM_fiq.                                 *)

\* Every instruction of ARM_irq and BSP_irq that changes neither the devices nor the history.
LEMMA IrqRuns ==
  ASSUME NEW c, NEW n \in (1 .. 32) \ {15, 16, 18, 20}, Context(c), Context(Interrupted), Fits("irq", c),
         Interrupts("irq", c, Interrupted, n), Execute
  PROVE  Interrupts("irq", c, Interrupted', n + 1) /\ Quiet
<1>1. /\ n \in {1, 2, 3, 4, 6, 7, 8, 9, 11, 13, 14, 21, 22, 23, 25, 26, 28, 29, 30, 31, 32} \cup {5, 10, 12, 17, 19, 24, 27}
      /\ n \in Stages("irq")
  BY DEF Stages
<1>2. CASE n \in {5, 10, 12, 17, 19, 24, 27}
  BY <1>1, <1>2, RunMsr
<1>3. CASE n = 1
  BY <1>3, Run1
<1>4. CASE n = 2
  BY <1>4, Run2
<1>5. CASE n = 3
  BY <1>5, Run3
<1>6. CASE n = 4
  BY <1>6, Run4
<1>7. CASE n = 6
  BY <1>7, Run6
<1>8. CASE n = 7
  BY <1>8, Run7
<1>9. CASE n = 8
  BY <1>9, Run8
<1>10. CASE n = 9
  BY <1>10, Run9
<1>11. CASE n = 11
  BY <1>11, Run11
<1>12. CASE n = 13
  BY <1>12, Run13
<1>13. CASE n = 14
  BY <1>13, Run14
<1>14. CASE n = 21
  BY <1>14, Run21
<1>15. CASE n = 22
  BY <1>15, Run22
<1>16. CASE n = 23
  BY <1>16, Run23
<1>17. CASE n = 25
  BY <1>17, Run25
<1>18. CASE n = 26
  BY <1>18, Run26
<1>19. CASE n = 28
  BY <1>19, Run28
<1>20. CASE n = 29
  BY <1>20, Run29
<1>21. CASE n = 30
  BY <1>21, Run30
<1>22. CASE n = 31
  BY <1>22, Run31
<1>23. CASE n = 32
  BY <1>23, Run32
<1> QED
  BY <1>1, <1>2, <1>3, <1>4, <1>5, <1>6, <1>7, <1>8, <1>9, <1>10, <1>11, <1>12, <1>13, <1>14, <1>15, <1>16, <1>17,
     <1>18, <1>19, <1>20, <1>21, <1>22, <1>23

\* Every instruction of ARM_fiq and BSP_fiq but the last.
LEMMA FiqRuns ==
  ASSUME NEW c, NEW n \in Stages("fiq") \ {33}, Context(c), Context(Interrupted), Fits("fiq", c),
         Interrupts("fiq", c, Interrupted, n), Execute
  PROVE  Quiet /\ \E q \in Stages("fiq") : Interrupts("fiq", c, Interrupted', q)
<1>1. PICK q : q = IF n = 13 THEN 23 ELSE IF n = 23 THEN 25 ELSE n + 1
  OBVIOUS
<1>2. /\ n \in {1, 2, 3, 4, 6, 7, 8, 9, 11, 13, 23, 25, 26, 28, 29, 30, 31, 32} \cup {5, 10, 12, 27}
      /\ q \in Stages("fiq")
  BY <1>1 DEF Stages
<1> SUFFICES Quiet /\ Interrupts("fiq", c, Interrupted', q)
  BY <1>2
<1>3. CASE n \in {5, 10, 12, 27}
  BY <1>1, <1>2, <1>3, RunMsr
<1>4. CASE n = 1
  BY <1>1, <1>4, Run1
<1>5. CASE n = 2
  BY <1>1, <1>5, Run2
<1>6. CASE n = 3
  BY <1>1, <1>6, Run3
<1>7. CASE n = 4
  BY <1>1, <1>7, Run4
<1>8. CASE n = 6
  BY <1>1, <1>8, Run6
<1>9. CASE n = 7
  BY <1>1, <1>9, Run7
<1>10. CASE n = 8
  BY <1>1, <1>10, Run8
<1>11. CASE n = 9
  BY <1>1, <1>11, Run9
<1>12. CASE n = 11
  BY <1>1, <1>12, Run11
<1>13. CASE n = 13
  BY <1>1, <1>13, Run13
<1>14. CASE n = 23
  BY <1>1, <1>14, Run23
<1>15. CASE n = 25
  BY <1>1, <1>15, Run25
<1>16. CASE n = 26
  BY <1>1, <1>16, Run26
<1>17. CASE n = 28
  BY <1>1, <1>17, Run28
<1>18. CASE n = 29
  BY <1>1, <1>18, Run29
<1>19. CASE n = 30
  BY <1>1, <1>19, Run30
<1>20. CASE n = 31
  BY <1>1, <1>20, Run31
<1>21. CASE n = 32
  BY <1>1, <1>21, Run32
<1> QED
  BY <1>2, <1>3, <1>4, <1>5, <1>6, <1>7, <1>8, <1>9, <1>10, <1>11, <1>12, <1>13, <1>14, <1>15, <1>16, <1>17,
     <1>18, <1>19, <1>20, <1>21

(* The registers and the stacks stay whole. *)

Whole == reg = [r \in RegName |-> reg[r]] /\ mem = [a \in Cell |-> mem[a]]

\* The register file and the stacks stay functions on the registers and the
\* words.
LEMMA StaysWhole ==
  ASSUME Whole, [Next]_vars
  PROVE  Whole'
<1> USE DEF Whole
<1>1. CASE UNCHANGED vars
  BY <1>1 DEF vars
<1>2. CASE Device
  BY <1>2 DEF Device, Raise
<1>3. CASE Main
  BY <1>3 DEF Main, IntLock, IntUnlock, EnterUserMode, SystemCall, MainUnmask, MainMask
<1>4. CASE Exception
  BY <1>4 DEF Exception, TakeIrq, TakeFiq, Take
<1>5. CASE ExecMove
  <2>1. mem' = mem /\ \E d, w : reg' = [reg EXCEPT ![d] = w]
    BY <1>5 DEF ExecMove, Set
  <2> QED
    BY <2>1
<1>6. CASE ExecMsr \/ ExecRet
  BY <1>6 DEF ExecMsr, ExecRet
<1>7. CASE ExecStmfd
  BY <1>7 DEF ExecStmfd, Set
<1>8. CASE ExecLdmUser
  BY <1>8 DEF ExecLdmUser, Unstacked
<1>9. CASE ExecCall
  BY <1>9 DEF ExecCall
<1>10. CASE ExecMovsPc \/ SwiRestore
  BY <1>10 DEF ExecMovsPc, SwiRestore, LeaveTo
<1>11. CASE ReadNum \/ MaskIrq \/ irq_handler \/ UnmaskIrq \/ SwHandler
  BY <1>11 DEF ReadNum, MaskIrq, irq_handler, UnmaskIrq, SwHandler, Clobbered
<1> QED
  BY <1>1, <1>2, <1>3, <1>4, <1>5, <1>6, <1>7, <1>8, <1>9, <1>10, <1>11 DEF Next, Execute

\* When main runs, its state is a context.
LEMMA MainContext ==
  ASSUME Whole, MainOK(Interrupted), cpu \in Cpsr
  PROVE  Context(Interrupted)
<1>1. pc = MainAddr /\ reg[Usr("sp")] = Addr("sys", StackWords + 1)
  BY DEF MainOK, Interrupted
<1>2. pc = Code(pc[2], pc[3]) /\ pc[3] \in Int
  BY <1>1 DEF MainAddr, Code
<1>3. Sp(Interrupted) = StackWords + 1 /\ StackWords + 1 \in Int
  BY <1>1, StackAssumption DEF Sp, Interrupted, Addr, Usr
<1> QED
  BY <1>1, <1>2, <1>3 DEF Context, Interrupted, Whole

-----------------------------------------------------------------------------
(* The inductive invariant: history h of depth d, with context s on top.   *)

\* Where BSP_irq lets IRQs in; where its number is masked; where it has read none;
\* where it is about to mask the number.
Nestable(p) == p \in {Code("BSP_irq", 5), Code("BSP_irq", 6)}
Serving(p) == p \in {Code("BSP_irq", 4), Code("BSP_irq", 5), Code("BSP_irq", 6), Code("BSP_irq", 7)}
Masks(p) == p = Code("BSP_irq", 3)
Early(p) == (p[2] = "ARM_irq" /\ p[3] <= 13) \/ p \in {Code("BSP_irq", 1), Code("BSP_irq", 2)}

\* The stages at which BSP_irq can be nested in, serves a number, is about to
\* mask one, and has not read one yet.
LEMMA Classes ==
  ASSUME NEW n \in 1 .. 33
  PROVE  /\ Nestable(PcAt("irq", n)) <=> n \in {18, 19}
         /\ Serving(PcAt("irq", n)) <=> n \in 17 .. 20
         /\ Masks(PcAt("irq", n)) <=> n = 16
         /\ Early(PcAt("irq", n)) <=> n <= 15
<1>1. CASE n <= 13
  BY <1>1 DEF PcAt, Code, Nestable, Serving, Masks, Early
<1>2. CASE n > 13 /\ n <= 23
  BY <1>2 DEF PcAt, Code, Nestable, Serving, Masks, Early
<1>3. CASE n > 23
  BY <1>3 DEF PcAt, Code, Nestable, Serving, Masks, Early
<1> QED
  BY <1>1, <1>2, <1>3

\* The code that runs above context k of the history h of length d, s being the present state.
Over(h, d, s, k) == IF k = d THEN s ELSE h[k + 1].ctx

IrqLayer(k, c, s) ==
  /\ ~c.cpu.I /\ ~c.cpu.F
  /\ Sp(c) = StackWords + 1 - 10 * (k - 1) /\ k <= Cardinality(IRQ)
  /\ \E n \in 1 .. 33 : Interrupts("irq", c, s, n)
FiqLayer(c, s) == ~c.cpu.F /\ \E n \in Stages("fiq") : Interrupts("fiq", c, s, n)
SvcLayer(k, c, s) == k = 1 /\ \E n \in 1 .. 5 : Calls(c, s, n)

Layer(k, e, s) ==
  /\ e = [exc |-> e.exc, ctx |-> e.ctx] /\ Context(e.ctx)
  /\ \/ e.exc = "irq" /\ IrqLayer(k, e.ctx, s)
     \/ e.exc = "fiq" /\ FiqLayer(e.ctx, s)
     \/ e.exc = "svc" /\ SvcLayer(k, e.ctx, s)

Layers(h, d, s) ==
  /\ d \in Nat /\ Context(s) /\ MainOK(Over(h, d, s, 0))
  /\ \A k \in 1 .. d : Layer(k, h[k], Over(h, d, s, k))

Nests(h, d, s) ==
  \A k \in 1 .. d : h[k].exc = "irq" =>
    \A j \in 1 .. k - 1 : h[j].exc = "irq" /\ Nestable(Over(h, d, s, j).pc)

Serves(h, d, s, k) == h[k].exc = "irq" /\ Serving(Over(h, d, s, k).pc)
Numbered(h, d, s, ln, en) ==
  /\ \A k \in 1 .. d : Serves(h, d, s, k) => h[k].ctx.irq \in IRQ \ en
  /\ \A j, k \in 1 .. d : Serves(h, d, s, j) /\ Serves(h, d, s, k) /\ j # k => h[j].ctx.irq # h[k].ctx.irq
  /\ \A k \in 1 .. d : h[k].exc = "irq" /\ Early(Over(h, d, s, k).pc) => ln \cap en # {}
  /\ \A k \in 1 .. d : h[k].exc = "irq" /\ Masks(Over(h, d, s, k).pc) => h[k].ctx.irq \in en

\* The newest layer moves.
LEMMA LayersMove ==
  ASSUME NEW h, NEW d \in Nat \ {0}, NEW s, NEW t, Layers(h, d, s), Context(t), Layer(d, h[d], t)
  PROVE  Layers(h, d, t)
<1>1. \A k \in 0 .. d - 1 : Over(h, d, t, k) = Over(h, d, s, k)
  BY DEF Over
<1>2. Over(h, d, t, d) = t
  BY DEF Over
<1>3. ASSUME NEW k \in 1 .. d PROVE Layer(k, h[k], Over(h, d, t, k))
  BY <1>1, <1>2 DEF Layers
<1>4. MainOK(Over(h, d, t, 0))
  BY <1>1 DEF Layers
<1> QED
  BY <1>3, <1>4 DEF Layers

\* What the newest exception does, the ones below it stay where they were.
LEMMA NestsMove ==
  ASSUME NEW h, NEW d \in Nat \ {0}, NEW s, NEW t, Nests(h, d, s)
  PROVE  Nests(h, d, t)
<1>1. \A k \in 1 .. d - 1 : Over(h, d, t, k) = Over(h, d, s, k)
  BY DEF Over
<1>2. ASSUME NEW k \in 1 .. d, h[k].exc = "irq", NEW j \in 1 .. k - 1
      PROVE  h[j].exc = "irq" /\ Nestable(Over(h, d, t, j).pc)
  <2>1. j \in 1 .. d - 1
    OBVIOUS
  <2> QED
    BY <1>1, <1>2, <2>1 DEF Nests
<1> QED
  BY <1>2 DEF Nests

\* An exception is taken: its layer is added.
LEMMA LayersPush ==
  ASSUME NEW h, NEW g, NEW d \in Nat, NEW s, NEW t, NEW e, Layers(h, d, s), Context(t),
         \A k \in 1 .. d : g[k] = h[k], g[d + 1] = [exc |-> e, ctx |-> s], Layer(d + 1, g[d + 1], t)
  PROVE  Layers(g, d + 1, t)
<1>1. \A k \in 0 .. d : Over(g, d + 1, t, k) = Over(h, d, s, k)
  BY DEF Over
<1>2. Over(g, d + 1, t, d + 1) = t
  BY DEF Over
<1>3. ASSUME NEW k \in 1 .. d + 1 PROVE Layer(k, g[k], Over(g, d + 1, t, k))
  BY <1>1, <1>2 DEF Layers
<1>4. MainOK(Over(g, d + 1, t, 0))
  BY <1>1 DEF Layers
<1> QED
  BY <1>3, <1>4 DEF Layers

\* An IRQ is taken only when every exception below is a BSP_irq whose handler
\* runs with IRQs enabled.
LEMMA NestsPush ==
  ASSUME NEW h, NEW g, NEW d \in Nat, NEW s, NEW t, NEW e, Nests(h, d, s),
         \A k \in 1 .. d : g[k] = h[k], g[d + 1] = [exc |-> e, ctx |-> s],
         e = "irq" => \A j \in 1 .. d : h[j].exc = "irq" /\ Nestable(Over(h, d, s, j).pc)
  PROVE  Nests(g, d + 1, t)
<1>1. \A k \in 0 .. d : Over(g, d + 1, t, k) = Over(h, d, s, k)
  BY DEF Over
<1>2. ASSUME NEW k \in 1 .. d + 1, g[k].exc = "irq", NEW j \in 1 .. k - 1
      PROVE  g[j].exc = "irq" /\ Nestable(Over(g, d + 1, t, j).pc)
  <2>1. j \in 1 .. d /\ j \in 0 .. d
    OBVIOUS
  <2>2. CASE k \in 1 .. d
    BY <1>1, <1>2, <2>1, <2>2 DEF Nests
  <2>3. CASE k = d + 1
    BY <1>1, <1>2, <2>1, <2>3
  <2> QED
    BY <2>2, <2>3
<1> QED
  BY <1>2 DEF Nests

\* An exception returns: its layer is gone.
LEMMA LayersPop ==
  ASSUME NEW h, NEW g, NEW d \in Nat \ {0}, NEW s, NEW t, Layers(h, d, s), Context(t),
         \A k \in 1 .. d - 1 : g[k] = h[k],
         d = 1 => MainOK(t), d > 1 => Layer(d - 1, h[d - 1], t)
  PROVE  Layers(g, d - 1, t)
<1>1. \A k \in 0 .. d - 2 : Over(g, d - 1, t, k) = Over(h, d, s, k)
  BY DEF Over
<1>2. Over(g, d - 1, t, d - 1) = t
  BY DEF Over
<1>3. ASSUME NEW k \in 1 .. d - 1 PROVE Layer(k, g[k], Over(g, d - 1, t, k))
  <2>1. CASE k = d - 1
    BY <1>2, <2>1
  <2>2. CASE k \in 0 .. d - 2
    BY <1>1, <2>2 DEF Layers
  <2> QED
    BY <2>1, <2>2
<1>4. MainOK(Over(g, d - 1, t, 0))
  <2>1. CASE d = 1
    BY <1>2, <2>1
  <2>2. CASE d > 1
    BY <1>1, <2>2 DEF Layers
  <2> QED
    BY <2>1, <2>2
<1> QED
  BY <1>3, <1>4 DEF Layers

\* When a context is resumed, every context below finds the code above it where it was.
LEMMA PcsPop ==
  ASSUME NEW h, NEW g, NEW d \in Nat \ {0}, NEW s, NEW t, \A k \in 1 .. d - 1 : g[k] = h[k], t.pc = h[d].ctx.pc
  PROVE  \A k \in 1 .. d - 1 : Over(g, d - 1, t, k).pc = Over(h, d, s, k).pc
  BY DEF Over

\* The nesting below an exception that returns is what it was.
LEMMA NestsPop ==
  ASSUME NEW h, NEW g, NEW d \in Nat \ {0}, NEW s, NEW t, Nests(h, d, s),
         \A k \in 1 .. d - 1 : g[k] = h[k], t.pc = h[d].ctx.pc
  PROVE  Nests(g, d - 1, t)
<1>1. \A k \in 1 .. d - 1 : Over(g, d - 1, t, k).pc = Over(h, d, s, k).pc
  BY PcsPop
<1>2. ASSUME NEW k \in 1 .. d - 1, g[k].exc = "irq", NEW j \in 1 .. k - 1
      PROVE  g[j].exc = "irq" /\ Nestable(Over(g, d - 1, t, j).pc)
  <2>1. j \in 1 .. d - 1 /\ k \in 1 .. d
    OBVIOUS
  <2> QED
    BY <1>1, <1>2, <2>1 DEF Nests
<1> QED
  BY <1>2 DEF Nests

\* An exception that returns leaves the numbers of the others.
LEMMA NumberedPop ==
  ASSUME NEW h, NEW g, NEW d \in Nat \ {0}, NEW s, NEW t, NEW ln, NEW en, Numbered(h, d, s, ln, en),
         \A k \in 1 .. d - 1 : g[k] = h[k], t.pc = h[d].ctx.pc
  PROVE  Numbered(g, d - 1, t, ln, en)
<1>1. \A k \in 1 .. d - 1 : Over(g, d - 1, t, k).pc = Over(h, d, s, k).pc /\ k \in 1 .. d
  BY PcsPop
<1>2. \A k \in 1 .. d - 1 : Serves(g, d - 1, t, k) <=> Serves(h, d, s, k)
  BY <1>1 DEF Serves
<1> QED
  BY <1>1, <1>2 DEF Numbered

\* An exception that is taken has no number yet; an IRQ has one pending.
LEMMA NumberedPush ==
  ASSUME NEW h, NEW g, NEW d \in Nat, NEW s, NEW t, NEW e, NEW ln, NEW en, Numbered(h, d, s, ln, en),
         \A k \in 1 .. d : g[k] = h[k], g[d + 1] = [exc |-> e, ctx |-> s],
         e = "irq" => t.pc = PcAt("irq", 1) /\ ln \cap en # {}
  PROVE  Numbered(g, d + 1, t, ln, en)
<1>1. \A k \in 1 .. d : Over(g, d + 1, t, k) = Over(h, d, s, k)
  BY DEF Over
<1>2. Over(g, d + 1, t, d + 1) = t
  BY DEF Over
<1>3. e = "irq" => ~Serving(t.pc) /\ ~Masks(t.pc)
  BY Classes
<1>4. \A k \in 1 .. d : Serves(g, d + 1, t, k) <=> Serves(h, d, s, k)
  BY <1>1 DEF Serves
<1>5. ~Serves(g, d + 1, t, d + 1)
  BY <1>2, <1>3 DEF Serves
<1>6. \A k \in 1 .. d + 1 : k \in 1 .. d \/ k = d + 1
  OBVIOUS
<1> QED
  BY <1>1, <1>2, <1>3, <1>4, <1>5, <1>6 DEF Numbered

\* An instruction that leaves the numbers alone, or a device that raises its line.
LEMMA NumberedMove ==
  ASSUME NEW h, NEW d \in Nat, NEW s, NEW t, NEW ln, NEW l2, NEW en, Numbered(h, d, s, ln, en), ln \subseteq l2,
         d # 0 /\ h[d].exc = "irq" => /\ Serving(t.pc) => Serving(s.pc)
                                      /\ Masks(t.pc) => Masks(s.pc)
                                      /\ Early(t.pc) => Early(s.pc)
  PROVE  Numbered(h, d, t, l2, en)
<1>1. \A k \in 1 .. d : k = d \/ Over(h, d, t, k) = Over(h, d, s, k)
  BY DEF Over
<1>2. Over(h, d, t, d) = t /\ Over(h, d, s, d) = s
  BY DEF Over
<1>3. \A k \in 1 .. d : Serves(h, d, t, k) => Serves(h, d, s, k)
  BY <1>1, <1>2 DEF Serves
<1>4. \A k \in 1 .. d : h[k].exc = "irq" /\ Masks(Over(h, d, t, k).pc) => Masks(Over(h, d, s, k).pc)
  BY <1>1, <1>2
<1>5. \A k \in 1 .. d : h[k].exc = "irq" /\ Early(Over(h, d, t, k).pc) => Early(Over(h, d, s, k).pc)
  BY <1>1, <1>2
<1>6. ln \cap en # {} => l2 \cap en # {}
  OBVIOUS
<1> QED
  BY <1>3, <1>4, <1>5, <1>6 DEF Numbered

\* The older activations of BSP_irq, when an IRQ is on top.
LEMMA OlderServe ==
  ASSUME NEW h, NEW d \in Nat \ {0}, NEW s, NEW t, Nests(h, d, s), h[d].exc = "irq"
  PROVE  \A k \in 1 .. d - 1 : /\ Serves(h, d, s, k) /\ Serves(h, d, t, k)
                               /\ ~Early(Over(h, d, t, k).pc) /\ ~Masks(Over(h, d, t, k).pc)
<1>1. \A p : Nestable(p) => Serving(p) /\ ~Early(p) /\ ~Masks(p)
  BY DEF Nestable, Serving, Early, Masks, Code
<1>2. \A k \in 1 .. d - 1 : /\ Over(h, d, t, k) = Over(h, d, s, k)
                            /\ h[k].exc = "irq" /\ Nestable(Over(h, d, s, k).pc)
  BY DEF Over, Nests
<1> QED
  BY <1>1, <1>2 DEF Serves

\* goldfish_mask_irq
LEMMA NumberedMask ==
  ASSUME NEW h, NEW d \in Nat \ {0}, NEW s, NEW t, NEW ln, NEW en, Numbered(h, d, s, ln, en), Nests(h, d, s),
         en \subseteq IRQ, h[d].exc = "irq", s.pc = PcAt("irq", 16), t.pc = PcAt("irq", 17)
  PROVE  Numbered(h, d, t, ln, en \ {h[d].ctx.irq})
<1>1. Masks(s.pc) /\ Serving(t.pc) /\ ~Masks(t.pc) /\ ~Early(t.pc)
  BY Classes
<1>2. Over(h, d, t, d) = t /\ Over(h, d, s, d) = s /\ d \in 1 .. d
  BY DEF Over
<1>3. h[d].ctx.irq \in en
  BY <1>1, <1>2 DEF Numbered
<1>4. \A k \in 1 .. d : k = d \/ k \in 1 .. d - 1
  OBVIOUS
<1>5. \A k \in 1 .. d - 1 : /\ Serves(h, d, s, k) /\ Serves(h, d, t, k) /\ k \in 1 .. d
                            /\ ~Early(Over(h, d, t, k).pc) /\ ~Masks(Over(h, d, t, k).pc)
  <2>1. \A k \in 1 .. d - 1 : k \in 1 .. d
    OBVIOUS
  <2> QED
    BY <2>1, OlderServe, Zenon
<1>6. \A k \in 1 .. d - 1 : h[k].ctx.irq \in IRQ \ en
  BY <1>5 DEF Numbered
<1>7. \A j, k \in 1 .. d - 1 : j # k => h[j].ctx.irq # h[k].ctx.irq
  BY <1>5 DEF Numbered
<1>8. \A k \in 1 .. d : ~Early(Over(h, d, t, k).pc) /\ ~Masks(Over(h, d, t, k).pc)
  BY <1>1, <1>2, <1>4, <1>5
<1>9. \A k \in 1 .. d : h[k].ctx.irq \in IRQ \ (en \ {h[d].ctx.irq})
  BY <1>3, <1>4, <1>6
<1>10. \A j, k \in 1 .. d : j # k => h[j].ctx.irq # h[k].ctx.irq
  BY <1>3, <1>4, <1>6, <1>7
<1> QED
  BY <1>8, <1>9, <1>10 DEF Numbered

\* irq_handler of the device whose number it is
LEMMA NumberedHandler ==
  ASSUME NEW h, NEW d \in Nat \ {0}, NEW s, NEW t, NEW ln, NEW l2, NEW en, Numbered(h, d, s, ln, en), Nests(h, d, s),
         h[d].exc = "irq", s.pc = PcAt("irq", 18), t.pc = PcAt("irq", 19)
  PROVE  Numbered(h, d, t, l2, en)
<1>1. Serving(s.pc) /\ Serving(t.pc) /\ ~Masks(t.pc) /\ ~Early(t.pc)
  BY Classes
<1>2. Over(h, d, t, d) = t /\ Over(h, d, s, d) = s /\ d \in 1 .. d
  BY DEF Over
<1>3. \A k \in 1 .. d : k = d \/ k \in 1 .. d - 1
  OBVIOUS
<1>4. \A k \in 1 .. d - 1 : /\ Serves(h, d, s, k) /\ Serves(h, d, t, k)
                            /\ ~Early(Over(h, d, t, k).pc) /\ ~Masks(Over(h, d, t, k).pc)
  BY OlderServe
<1>5. \A k \in 1 .. d : Serves(h, d, s, k) /\ ~Early(Over(h, d, t, k).pc) /\ ~Masks(Over(h, d, t, k).pc)
  BY <1>1, <1>2, <1>3, <1>4 DEF Serves
<1> QED
  BY <1>5 DEF Numbered

\* goldfish_unmask_irq
LEMMA NumberedUnmask ==
  ASSUME NEW h, NEW d \in Nat \ {0}, NEW s, NEW t, NEW ln, NEW en, Numbered(h, d, s, ln, en), Nests(h, d, s),
         h[d].exc = "irq", s.pc = PcAt("irq", 20), t.pc = PcAt("irq", 21)
  PROVE  Numbered(h, d, t, ln, en \cup {h[d].ctx.irq})
<1>1. Serving(s.pc) /\ ~Serving(t.pc) /\ ~Masks(t.pc) /\ ~Early(t.pc)
  BY Classes
<1>2. Over(h, d, t, d) = t /\ Over(h, d, s, d) = s /\ d \in 1 .. d
  BY DEF Over
<1>3. \A k \in 1 .. d : k = d \/ (k \in 1 .. d - 1 /\ k # d)
  OBVIOUS
<1>4. \A k \in 1 .. d - 1 : /\ Serves(h, d, s, k) /\ k \in 1 .. d
                            /\ ~Early(Over(h, d, t, k).pc) /\ ~Masks(Over(h, d, t, k).pc)
  <2>1. \A k \in 1 .. d - 1 : k \in 1 .. d
    OBVIOUS
  <2> QED
    BY <2>1, OlderServe, Zenon
<1>5. Serves(h, d, s, d) /\ ~Serves(h, d, t, d)
  BY <1>1, <1>2 DEF Serves
<1>6. \A k \in 1 .. d - 1 : h[k].ctx.irq \in IRQ \ (en \cup {h[d].ctx.irq})
  BY <1>2, <1>3, <1>4, <1>5 DEF Numbered
<1>7. \A j, k \in 1 .. d - 1 : j # k => h[j].ctx.irq # h[k].ctx.irq
  BY <1>4 DEF Numbered
<1>8. \A k \in 1 .. d : ~Early(Over(h, d, t, k).pc) /\ ~Masks(Over(h, d, t, k).pc)
  BY <1>1, <1>2, <1>3, <1>4
<1>9. \A k \in 1 .. d : Serves(h, d, t, k) => k \in 1 .. d - 1
  BY <1>3, <1>5
<1> QED
  BY <1>6, <1>7, <1>8, <1>9 DEF Numbered

\* Nothing but the program relates to a context whose `irq' is noted in the history.
LEMMA LayerNote ==
  ASSUME NEW k, NEW e, NEW c, NEW b, Context(c), b.pc = c.pc, b.cpu = c.cpu, b.reg = c.reg, b.mem = c.mem,
         Layer(k, e, c)
  PROVE  Layer(k, e, b)
<1>1. \A m, x, n : Interrupts(m, x, c, n) => Interrupts(m, x, b, n)
  BY DEF Interrupts, Where, Stacked, Holds, Kept, Scratched
<1>2. \A x, n : Calls(x, c, n) => Calls(x, b, n)
  BY DEF Calls
<1> QED
  BY <1>1, <1>2 DEF Layer, IrqLayer, FiqLayer, SvcLayer

\* goldfish_get_irq_num: the newest context is noted to be number w's.
LEMMA NoteNum ==
  ASSUME NEW h, NEW g, NEW d \in Nat \ {0}, NEW s, NEW t, NEW w, NEW ln, NEW en,
         Layers(h, d, s), Nests(h, d, s), Numbered(h, d, s, ln, en), en \subseteq IRQ, w \in en,
         h[d].exc = "irq", \A k \in 1 .. d - 1 : g[k] = h[k],
         g[d] = [exc |-> "irq", ctx |-> [h[d].ctx EXCEPT !.irq = w]],
         t.pc = PcAt("irq", 16), Context(t), Interrupts("irq", g[d].ctx, t, 16)
  PROVE  Layers(g, d, t) /\ Nests(g, d, t) /\ Numbered(g, d, t, ln, en)
<1>1. PICK c, b : c = h[d].ctx /\ b = g[d].ctx
  OBVIOUS
<1>2. Context(c) /\ b = [c EXCEPT !.irq = w] /\ d \in 1 .. d
  <2>1. d \in 1 .. d
    OBVIOUS
  <2>2. Layer(d, h[d], Over(h, d, s, d))
    BY <2>1 DEF Layers
  <2>3. Context(c)
    BY <1>1, <2>2 DEF Layer
  <2>4. g[d].ctx = [h[d].ctx EXCEPT !.irq = w]
    OBVIOUS
  <2> QED
    BY <1>1, <2>1, <2>3, <2>4
<1>3. b.pc = c.pc /\ b.cpu = c.cpu /\ b.reg = c.reg /\ b.mem = c.mem /\ b.irq = w
  BY <1>2 DEF Context
<1>4. Context(b) /\ Sp(b) = Sp(c)
  <2>1. b = [pc |-> b.pc, cpu |-> b.cpu, reg |-> b.reg, mem |-> b.mem, irq |-> b.irq]
    BY <1>2 DEF Context
  <2>2. Sp(b) = Sp(c)
    BY <1>3 DEF Sp
  <2> QED
    BY <1>2, <1>3, <2>1, <2>2 DEF Context
<1>5. Over(g, d, t, d) = t /\ Over(h, d, s, d) = s /\ Over(g, d, t, d - 1) = b /\ Over(h, d, s, d - 1) = c
  BY <1>1 DEF Over
<1>6. \A k \in 0 .. d - 2 : Over(g, d, t, k) = Over(h, d, s, k)
  BY DEF Over
<1>7. \A k \in 1 .. d - 1 : Over(g, d, t, k).pc = Over(h, d, s, k).pc
  <2>1. \A k \in 1 .. d - 1 : k = d - 1 \/ k \in 0 .. d - 2
    OBVIOUS
  <2> QED
    BY <1>3, <1>5, <1>6, <2>1
<1>8. Layer(d, g[d], t)
  <2>1. IrqLayer(d, c, s)
    BY <1>1, <1>2, <1>5 DEF Layers, Layer
  <2>2. IrqLayer(d, b, t)
    <3>1. Interrupts("irq", b, t, 16) /\ 16 \in 1 .. 33
      BY <1>1
    <3> QED
      BY <1>3, <1>4, <2>1, <3>1 DEF IrqLayer
  <2> QED
    BY <1>1, <1>4, <2>2 DEF Layer
<1>9. ASSUME NEW k \in 1 .. d - 1 PROVE Layer(k, g[k], Over(g, d, t, k))
  <2>1. Layer(k, h[k], Over(h, d, s, k))
    BY DEF Layers
  <2>2. CASE k = d - 1
    BY <1>2, <1>3, <1>5, <2>1, <2>2, LayerNote
  <2>3. CASE k # d - 1
    BY <1>6, <2>1, <2>3
  <2> QED
    BY <2>2, <2>3
<1>10. MainOK(Over(g, d, t, 0))
  <2>1. MainOK(Over(h, d, s, 0))
    BY DEF Layers
  <2>2. CASE d = 1
    BY <1>3, <1>5, <2>1, <2>2 DEF MainOK
  <2>3. CASE d # 1
    BY <1>6, <2>1, <2>3
  <2> QED
    BY <2>2, <2>3
<1>11. Layers(g, d, t)
  <2>1. \A k \in 1 .. d : k = d \/ k \in 1 .. d - 1
    OBVIOUS
  <2> QED
    BY <1>5, <1>8, <1>9, <1>10, <2>1 DEF Layers
<1>12. Nests(g, d, t)
  <2>1. \A k \in 1 .. d : g[k].exc = h[k].exc
    <3>1. \A k \in 1 .. d : k = d \/ k \in 1 .. d - 1
      OBVIOUS
    <3> QED
      BY <3>1
  <2>2. ASSUME NEW k \in 1 .. d, g[k].exc = "irq", NEW j \in 1 .. k - 1
        PROVE  g[j].exc = "irq" /\ Nestable(Over(g, d, t, j).pc)
    <3>1. j \in 1 .. d - 1 /\ j \in 1 .. d
      OBVIOUS
    <3> QED
      BY <1>7, <2>1, <2>2, <3>1 DEF Nests
  <2> QED
    BY <2>2 DEF Nests
<1>13. Numbered(g, d, t, ln, en)
  <2>1. ~Serving(t.pc) /\ ~Early(t.pc)
    BY Classes
  <2>2. \A k \in 1 .. d : k = d \/ (k \in 1 .. d - 1 /\ k # d)
    OBVIOUS
  <2>3. \A k \in 1 .. d : Serves(g, d, t, k) => k \in 1 .. d - 1 /\ Serves(h, d, s, k) /\ g[k] = h[k]
    BY <1>5, <1>7, <2>1, <2>2 DEF Serves
  <2>4. \A k \in 1 .. d : g[k].exc = "irq" /\ Early(Over(g, d, t, k).pc) => Early(Over(h, d, s, k).pc) /\ h[k].exc = "irq"
    BY <1>5, <1>7, <2>1, <2>2
  <2>5. \A k \in 1 .. d : g[k].exc = "irq" /\ Masks(Over(g, d, t, k).pc) => g[k].ctx.irq \in en
    <3>1. g[d].ctx.irq \in en
      BY <1>1, <1>3
    <3> QED
      BY <1>7, <2>2, <3>1 DEF Numbered
  <2> QED
    BY <2>3, <2>4, <2>5 DEF Numbered
<1> QED
  BY <1>11, <1>12, <1>13

\* One interrupt source for every activation of BSP_irq, and one more that is pending.
LEMMA Sources ==
  ASSUME NEW h, NEW d \in Nat, NEW s, NEW ln, NEW en, Numbered(h, d, s, ln, en), en \subseteq IRQ, ln \cap en # {},
         \A k \in 1 .. d : Serves(h, d, s, k)
  PROVE  d + 1 <= Cardinality(IRQ) /\ Cardinality(IRQ) \in Nat
<1>1. PICK i \in IRQ : i \in en
  OBVIOUS
<1> DEFINE source == [k \in 1 .. d + 1 |-> IF k = d + 1 THEN i ELSE h[k].ctx.irq]
<1>2. \A k \in 1 .. d : source[k] = h[k].ctx.irq /\ source[k] \in IRQ \ en
  BY DEF Numbered
<1>3. source[d + 1] = i
  OBVIOUS
<1>4. \A k \in 1 .. d + 1 : k = d + 1 \/ k \in 1 .. d
  OBVIOUS
<1>5. source \in [1 .. d + 1 -> IRQ]
  <2>1. \A k \in 1 .. d + 1 : (IF k = d + 1 THEN i ELSE h[k].ctx.irq) \in IRQ
    BY <1>1, <1>2, <1>4
  <2> QED
    BY <2>1, Zenon
<1>6. \A j, k \in 1 .. d : source[j] = source[k] => j = k
  BY <1>2 DEF Numbered
<1> HIDE DEF source
<1>7. \A j, k \in 1 .. d + 1 : source[j] = source[k] => j = k
  BY <1>1, <1>2, <1>3, <1>4, <1>6
<1>8. source \in Injection(1 .. d + 1, IRQ)
  BY <1>5, <1>7 DEF Injection, IsInjective
<1>9. IsFiniteSet(1 .. d + 1) /\ Cardinality(1 .. d + 1) = d + 1
  <2>1. d + 1 \in Nat /\ 1 \in Int /\ d + 1 \in Int
    OBVIOUS
  <2> QED
    BY <2>1, FS_Interval
<1> QED
  BY <1>8, <1>9, FS_Injection, FS_CardinalityType, IRQAssumption

Inv ==
  /\ \E X : ghost \in Seq(X)
  /\ Whole /\ line \subseteq IRQ /\ enabled \subseteq IRQ
  /\ Layers(ghost, Len(ghost), Interrupted)
  /\ Nests(ghost, Len(ghost), Interrupted)
  /\ Numbered(ghost, Len(ghost), Interrupted, line, enabled)

-----------------------------------------------------------------------------
(* What the invariant says of the stack and of CPSR.                       *)

\* Over a frame that is no FIQ's, the stack holds at most ten words for each source.
LEMMA NotFiqRoom ==
  ASSUME NEW h, NEW d \in Nat, NEW s, Layers(h, d, s), NEW j \in 0 .. d, j = 0 \/ h[j].exc # "fiq",
         NEW N \in Nat, N = Cardinality(IRQ)
  PROVE  /\ Sp(Over(h, d, s, j)) \in Int
         /\ Sp(Over(h, d, s, j)) <= StackWords + 1 /\ Sp(Over(h, d, s, j)) >= StackWords + 1 - 10 * N
<1>1. PICK o : o = Over(h, d, s, j)
  OBVIOUS
<1>2. CASE j = 0
  <2>1. o.reg[Usr("sp")] = Addr("sys", StackWords + 1)
    BY <1>1, <1>2 DEF Layers, MainOK
  <2>2. Sp(o) = StackWords + 1
    BY <2>1 DEF Sp, Addr
  <2> QED
    BY <1>1, <2>2, StackAssumption
<1>3. CASE j # 0
  <2>1. j \in 1 .. d /\ Layer(j, h[j], o)
    BY <1>1, <1>3 DEF Layers
  <2>2. CASE h[j].exc = "irq"
    <3>0. PICK c : c = h[j].ctx
      OBVIOUS
    <3>1. PICK p \in Int : p = Sp(c)
      BY <2>1, <3>0 DEF Layer, Context
    <3>2. p = StackWords + 1 - 10 * (j - 1) /\ j <= N
      BY <2>1, <2>2, <3>0, <3>1 DEF Layer, IrqLayer
    <3>3. PICK n \in 1 .. 33 : o.reg[Usr("sp")] = Addr("sys", p - Depth(n))
      BY <2>1, <2>2, <3>0, <3>1 DEF Layer, IrqLayer, Interrupts, Where
    <3>4. Sp(o) = p - Depth(n)
      BY <3>3 DEF Sp, Addr
    <3>5. PICK f \in 0 .. 10 : f = Depth(n)
      BY DEF Depth
    <3>6. PICK q : q = Sp(o)
      OBVIOUS
    <3>7. q \in Int /\ q <= StackWords + 1 /\ q >= StackWords + 1 - 10 * N
      <4>1. q = p - f
        BY <3>4, <3>5, <3>6
      <4>2. p >= StackWords + 1 - 10 * (N - 1) /\ p <= StackWords + 1
        BY <2>1, <3>2, StackAssumption
      <4> QED
        BY <4>1, <4>2, StackAssumption
    <3> QED
      BY <1>1, <3>6, <3>7
  <2>3. CASE h[j].exc = "svc"
    <3>1. PICK c : c = h[j].ctx
      OBVIOUS
    <3>2. j = 1 /\ o.reg[Usr("sp")] = c.reg[Usr("sp")]
      BY <2>1, <2>3, <3>1, SvcNames DEF Layer, SvcLayer, Calls, UserRegs
    <3>3. c = Over(h, d, s, 0)
      BY <2>1, <3>1, <3>2 DEF Over
    <3>4. c.reg[Usr("sp")] = Addr("sys", StackWords + 1)
      BY <3>3 DEF Layers, MainOK
    <3>5. Sp(o) = StackWords + 1
      BY <3>2, <3>4 DEF Sp, Addr
    <3> QED
      BY <1>1, <3>5, StackAssumption
  <2> QED
    BY <1>3, <2>1, <2>2, <2>3 DEF Layer
<1> QED
  BY <1>2, <1>3

\* CPSR.I is clear only around BSP_irq's handler, and CPSR.F set in ARM_fiq and
\* at the end of ARM_irq.
LEMMA CpuBits ==
  ASSUME NEW m, NEW n
  PROVE  (CpuAt(m, n).I <=> n \notin {18, 19}) /\ (CpuAt(m, n).F <=> m = "fiq" \/ n >= 25)
<1>1. CpuAt(m, n).I = (n \notin {18, 19})
  BY Zenon DEF CpuAt
<1>2. CpuAt(m, n).F = (m = "fiq" \/ n >= 25)
  BY Zenon DEF CpuAt
<1> QED
  BY <1>1, <1>2, Zenon

\* What IRQs, FIQs and system calls leave enabled.
LEMMA LayerMask ==
  ASSUME NEW k, NEW e, NEW s, Layer(k, e, s)
  PROVE  /\ e.exc \in {"irq", "fiq", "svc"}
         /\ e.exc = "fiq" => s.cpu.I /\ s.cpu.F
         /\ e.exc = "svc" => s.cpu.I
         /\ e.exc = "irq" /\ ~s.cpu.I => ~s.cpu.F
<1>1. e.exc \in {"irq", "fiq", "svc"}
  BY DEF Layer
<1>2. e.exc = "fiq" => s.cpu.I /\ s.cpu.F
  <2> SUFFICES ASSUME e.exc = "fiq" PROVE s.cpu.I /\ s.cpu.F
    OBVIOUS
  <2>1. PICK n \in Stages("fiq") : s.cpu = CpuAt("fiq", n)
    BY DEF Layer, FiqLayer, Interrupts, Where
  <2> QED
    BY <2>1, CpuBits DEF Stages
<1>3. e.exc = "svc" => s.cpu.I
  BY DEF Layer, SvcLayer, Calls
<1>4. e.exc = "irq" /\ ~s.cpu.I => ~s.cpu.F
  <2> SUFFICES ASSUME e.exc = "irq", ~s.cpu.I PROVE ~s.cpu.F
    OBVIOUS
  <2>1. PICK n \in 1 .. 33 : s.cpu = CpuAt("irq", n)
    BY DEF Layer, IrqLayer, Interrupts, Where
  <2> QED
    BY <2>1, CpuBits
<1> QED
  BY <1>1, <1>2, <1>3, <1>4

\* An FIQ interrupts no FIQ, an IRQ neither an FIQ nor a system call.
LEMMA Under ==
  ASSUME NEW h, NEW d \in Nat, NEW s, Layers(h, d, s), NEW k \in 2 .. d
  PROVE  /\ h[k].exc \in {"irq", "fiq"} /\ h[k - 1].exc \in {"irq", "svc"}
         /\ h[k].exc = "irq" => h[k - 1].exc = "irq"
<1>1. PICK c : c = h[k].ctx
  OBVIOUS
<1>2. k \in 1 .. d /\ k - 1 \in 1 .. d /\ Over(h, d, s, k - 1) = c
  BY <1>1 DEF Over
<1>3. Layer(k, h[k], Over(h, d, s, k)) /\ Layer(k - 1, h[k - 1], c)
  BY <1>2 DEF Layers
<1>4. h[k].exc \in {"irq", "fiq"} /\ ~c.cpu.F /\ (h[k].exc = "irq" => ~c.cpu.I)
  BY <1>1, <1>3 DEF Layer, IrqLayer, FiqLayer, SvcLayer
<1> QED
  BY <1>3, <1>4, LayerMask

\* An IRQ or FIQ that is taken finds room for its frame.
LEMMA Room ==
  ASSUME Roomy, NEW h, NEW d \in Nat, NEW s, Layers(h, d, s), NEW k \in 1 .. d, h[k].exc \in {"irq", "fiq"}
  PROVE  Fits(h[k].exc, h[k].ctx)
<1>1. PICK N \in Nat : N = Cardinality(IRQ)
  BY FS_CardinalityType, IRQAssumption
<1>a. PICK c : c = h[k].ctx
  OBVIOUS
<1>b. Layer(k, h[k], Over(h, d, s, k))
  BY DEF Layers
<1>c. PICK p \in Int : p = Sp(c)
  BY <1>a, <1>b DEF Layer, Context
<1>2. c = h[k].ctx /\ p = Sp(c)
  BY <1>a, <1>c
<1>3. Layer(k, h[k], Over(h, d, s, k)) /\ c = Over(h, d, s, k - 1)
  BY <1>a, <1>b DEF Over
<1>4. StackWords >= 10 * N + 8
  BY <1>1 DEF Roomy
<1>5. CASE h[k].exc = "irq"
  <2>1. p = StackWords + 1 - 10 * (k - 1) /\ k <= N
    BY <1>1, <1>2, <1>3, <1>5 DEF Layer, IrqLayer
  <2>2. p >= 11 /\ p <= StackWords + 1
    BY <1>4, <2>1, StackAssumption
  <2> QED
    BY <1>2, <1>5, <2>2 DEF Fits
<1>6. CASE h[k].exc = "fiq"
  <2>1. k - 1 = 0 \/ h[k - 1].exc # "fiq"
    BY Under
  <2>2. p <= StackWords + 1 /\ p >= StackWords + 1 - 10 * N
    <3>1. PICK j \in 0 .. d : j = k - 1
      OBVIOUS
    <3>2. j = 0 \/ h[j].exc # "fiq"
      BY <2>1, <3>1
    <3>3. Sp(Over(h, d, s, j)) <= StackWords + 1 /\ Sp(Over(h, d, s, j)) >= StackWords + 1 - 10 * N
      BY <1>1, <3>2, NotFiqRoom
    <3>4. Over(h, d, s, j) = c
      BY <1>3, <3>1
    <3> QED
      BY <1>2, <3>3, <3>4
  <2>3. p >= 9
    BY <1>4, <2>2, StackAssumption
  <2> QED
    BY <1>2, <1>6, <2>2, <2>3 DEF Fits
<1> QED
  BY <1>5, <1>6

\* The stack that the present state leaves.
LEMMA StackLeft ==
  ASSUME NEW h, NEW d \in Nat, NEW s, Layers(h, d, s), NEW N \in Nat, N = Cardinality(IRQ)
  PROVE  Sp(s) \in Int /\ StackWords + 1 - Sp(s) <= 10 * N + 8
<1>1. Over(h, d, s, d) = s
  BY DEF Over
<1>2. CASE d = 0 \/ h[d].exc # "fiq"
  <2>1. PICK j \in 0 .. d : j = d
    OBVIOUS
  <2>2. j = 0 \/ h[j].exc # "fiq"
    BY <1>2, <2>1
  <2>3. /\ Sp(Over(h, d, s, j)) \in Int /\ Sp(Over(h, d, s, j)) >= StackWords + 1 - 10 * N
    BY <2>2, NotFiqRoom
  <2>4. Over(h, d, s, j) = s
    BY <1>1, <2>1
  <2>5. PICK p \in Int : p = Sp(s)
    BY <2>3, <2>4
  <2>6. p >= StackWords + 1 - 10 * N
    BY <2>3, <2>4, <2>5
  <2> QED
    BY <2>5, <2>6, StackAssumption
<1>3. CASE d # 0 /\ h[d].exc = "fiq"
  <2>1. d - 1 = 0 \/ h[d - 1].exc # "fiq"
    BY <1>3, Under
  <2>a. PICK c : c = h[d].ctx
    OBVIOUS
  <2>b. Layer(d, h[d], s)
    BY <1>1, <1>3 DEF Layers
  <2>c. PICK p \in Int : p = Sp(c)
    BY <2>a, <2>b DEF Layer, Context
  <2>2. c = h[d].ctx /\ p = Sp(c)
    BY <2>a, <2>c
  <2>3. c = Over(h, d, s, d - 1)
    BY <1>3, <2>2 DEF Over
  <2>4. p >= StackWords + 1 - 10 * N
    BY <1>3, <2>1, <2>2, <2>3, NotFiqRoom
  <2>5. Layer(d, h[d], s)
    BY <2>b
  <2>6. PICK n \in Stages("fiq") : s.reg[Usr("sp")] = Addr("sys", p - Depth(n))
    BY <1>3, <2>2, <2>5 DEF Layer, FiqLayer, Interrupts, Where
  <2>7. Sp(s) = p - Depth(n)
    BY <2>6 DEF Sp, Addr
  <2>8. PICK f \in 0 .. 8 : f = Depth(n)
    BY DEF Depth, Stages
  <2> QED
    BY <2>4, <2>7, <2>8, StackAssumption
<1> QED
  BY <1>2, <1>3

-----------------------------------------------------------------------------
(* The invariant holds initially, and devices and main keep it.            *)

\* The parts of the invariant, with rigid names for what they are about.
LEMMA Unfold ==
  ASSUME Inv, NEW d, d = Len(ghost)
  PROVE  /\ d \in Nat /\ (ghost = <<>> <=> d = 0) /\ \E X : ghost \in Seq(X)
         /\ Whole /\ line \subseteq IRQ /\ enabled \subseteq IRQ
         /\ Layers(ghost, d, Interrupted) /\ Nests(ghost, d, Interrupted)
         /\ Numbered(ghost, d, Interrupted, line, enabled) /\ Context(Interrupted)
<1>1. PICK X : ghost \in Seq(X)
  BY DEF Inv
<1>2. d \in Nat /\ (ghost = <<>> <=> d = 0)
  BY <1>1, EmptySeq, LenProperties
<1> QED
  BY <1>2 DEF Inv, Layers

\* The initial state satisfies the invariant.
LEMMA InitInv ==
  ASSUME Init
  PROVE  Inv
<1>1. ghost = <<>> /\ Len(ghost) = 0 /\ ghost \in Seq({})
  BY DEF Init
<1>2. Whole
  BY DEF Init, Whole
<1>3. reg[Usr("sp")] = Addr("sys", StackWords + 1) /\ reg[SvcSp] = Addr("svc", StackWords + 1)
  <2>1. Usr("sp") \in RegName /\ SvcSp \in RegName
    BY SvcNames DEF UserRegs
  <2>2. PICK value : reg = [r \in RegName |-> value[r]]
        /\ (value[Usr("sp")] = Addr("sys", StackWords + 1)) /\ value[SvcSp] = Addr("svc", StackWords + 1)
    <3>1. reg = [r \in RegName |-> reg[r]]
      BY DEF Init
    <3>2. reg[Usr("sp")] = Addr("sys", StackWords + 1)
      BY <2>1 DEF Init, Usr
    <3>3. reg[SvcSp] = Addr("svc", StackWords + 1)
      BY <2>1 DEF Init, SvcSp
    <3> QED
      BY <3>1, <3>2, <3>3
  <2> QED
    BY <2>1, <2>2
<1>4. MainOK(Interrupted)
  BY <1>3 DEF MainOK, Interrupted, SvcSp, Init
<1>5. Context(Interrupted)
  BY <1>2, <1>4, MainContext DEF Init, Cpsr
<1>6. Over(ghost, 0, Interrupted, 0) = Interrupted /\ 0 \in Nat /\ 1 .. 0 = {}
  BY DEF Over
<1>7. Layers(ghost, 0, Interrupted)
  BY <1>4, <1>5, <1>6 DEF Layers
<1>8. Nests(ghost, 0, Interrupted) /\ Numbered(ghost, 0, Interrupted, line, enabled)
  BY <1>6 DEF Nests, Numbered
<1>9. line \subseteq IRQ /\ enabled \subseteq IRQ
  BY DEF Init
<1> QED
  BY <1>1, <1>2, <1>7, <1>8, <1>9 DEF Inv

\* A device raises its line; main unmasks or masks a number.
LEMMA DeviceInv ==
  ASSUME Inv, Device
  PROVE  Inv'
<1>1. PICK d : d = Len(ghost)
  OBVIOUS
<1>2. /\ line \subseteq line' /\ line' \subseteq IRQ /\ UNCHANGED <<enabled, cpu, pc, reg, mem, ghost>>
      /\ Interrupted' = Interrupted
  BY DEF Device, Raise, Inv, Interrupted
<1>3. PICK h, s, ln, l2, en : h = ghost /\ s = Interrupted /\ ln = line /\ l2 = line' /\ en = enabled
  OBVIOUS
<1>4. Numbered(h, d, s, l2, en)
  BY <1>1, <1>2, <1>3, Unfold, NumberedMove
<1>5. /\ ghost' = h /\ Len(ghost') = d /\ Interrupted' = s /\ line' = l2 /\ enabled' = en
      /\ Layers(h, d, s) /\ Nests(h, d, s) /\ (\E X : h \in Seq(X)) /\ en \subseteq IRQ
  BY <1>1, <1>2, <1>3, Unfold
<1>6. Whole'
  BY <1>2, Unfold DEF Whole
<1> QED
  BY <1>2, <1>3, <1>4, <1>5, <1>6 DEF Inv

\* With no exception in progress only main's own state matters.
LEMMA Alone ==
  ASSUME ghost = <<>>, Whole, line \subseteq IRQ, enabled \subseteq IRQ, MainOK(Interrupted), cpu \in Cpsr
  PROVE  Inv
<1>1. ghost = <<>> /\ Len(ghost) = 0 /\ ghost \in Seq({})
  OBVIOUS
<1>2. Context(Interrupted)
  BY MainContext
<1>3. Over(ghost, 0, Interrupted, 0) = Interrupted /\ 0 \in Nat /\ 1 .. 0 = {}
  BY DEF Over
<1>4. Layers(ghost, 0, Interrupted)
  BY <1>2, <1>3 DEF Layers
<1>5. Nests(ghost, 0, Interrupted) /\ Numbered(ghost, 0, Interrupted, line, enabled)
  BY <1>3 DEF Nests, Numbered
<1> QED
  BY <1>1, <1>4, <1>5 DEF Inv

\* What holds of main when it runs.
LEMMA MainRuns ==
  ASSUME Inv, ghost = <<>>
  PROVE  MainOK(Interrupted) /\ cpu \in Cpsr /\ Layers(ghost, 0, Interrupted)
<1>1. PICK d : d = Len(ghost)
  OBVIOUS
<1>2. d = 0 /\ Layers(ghost, d, Interrupted) /\ Context(Interrupted)
  BY <1>1, Unfold
<1>3. Over(ghost, d, Interrupted, 0) = Interrupted
  BY <1>2 DEF Over
<1> QED
  BY <1>2, <1>3 DEF Layers, Context, Interrupted

\* What main does other than SWI keeps the invariant.
LEMMA MainInv ==
  ASSUME Inv, Main, ~SystemCall
  PROVE  Inv'
<1>1. ghost = <<>> /\ ghost' = <<>> /\ Whole /\ line \subseteq IRQ /\ enabled \subseteq IRQ
  BY DEF Inv, Main, Foreground, IntLock, IntUnlock, EnterUserMode, MainUnmask, MainMask
<1>2. UNCHANGED <<pc, reg, mem>> /\ line' \subseteq IRQ /\ enabled' \subseteq IRQ
  BY <1>1 DEF Main, IntLock, IntUnlock, EnterUserMode, MainUnmask, MainMask
<1>3. MainOK(Interrupted) /\ cpu \in Cpsr
  BY <1>1, MainRuns
<1>4. cpu' \in Cpsr /\ cpu'.mode \in {"sys", "usr"} /\ cpu'.I = cpu'.F
  <2>1. cpu \in Cpsr /\ cpu.mode \in {"sys", "usr"} /\ cpu.I = cpu.F
    BY <1>3 DEF MainOK, Interrupted
  <2>2. CASE IntLock
    BY <2>2 DEF IntLock, Cpsr
  <2>3. CASE \E key \in BOOLEAN : IntUnlock(key)
    BY <2>3 DEF IntUnlock, Cpsr
  <2>4. CASE EnterUserMode
    BY <2>1, <2>4 DEF EnterUserMode, Cpsr
  <2>5. CASE \E i \in IRQ : MainUnmask(i) \/ MainMask(i)
    BY <2>1, <2>5 DEF MainUnmask, MainMask
  <2> QED
    BY <2>2, <2>3, <2>4, <2>5 DEF Main
<1>5. MainOK(Interrupted')
  BY <1>2, <1>3, <1>4 DEF MainOK, Interrupted
<1>6. Whole'
  BY <1>1, <1>2 DEF Whole
<1>7. PICK u : u = Interrupted'
  OBVIOUS
<1>8. MainOK(Interrupted)'
  BY <1>5
<1>9. (ghost = <<>>)' /\ (line \subseteq IRQ)' /\ (enabled \subseteq IRQ)' /\ (cpu \in Cpsr)'
  BY <1>1, <1>2, <1>4
<1> QED
  BY <1>1, <1>6, <1>8, <1>9, Alone, PTL

-----------------------------------------------------------------------------
(* Exceptions keep the invariant.                                          *)

Shaped(t) ==
  /\ t = [pc |-> t.pc, cpu |-> t.cpu, reg |-> t.reg, mem |-> t.mem, irq |-> t.irq]
  /\ t.reg = [r \in RegName |-> t.reg[r]]
  /\ t.mem = [a \in Cell |-> t.mem[a]]

\* After a step the registers and stacks are still functions.
LEMMA ShapedThen ==
  ASSUME Whole'
  PROVE  Shaped(Interrupted')
  BY DEF Whole, Shaped, Interrupted

\* A state in which ARM_irq or ARM_fiq is at some stage is a context.
LEMMA IrqShape ==
  ASSUME NEW t, Shaped(t), NEW m \in {"irq", "fiq"}, NEW n \in Stages(m), NEW c, Context(c), Interrupts(m, c, t, n)
  PROVE  Context(t)
<1>1. t.pc = PcAt(m, n) /\ t.cpu = CpuAt(m, n) /\ t.reg[Usr("sp")] = Addr("sys", Sp(c) - Depth(n))
  BY DEF Interrupts, Where
<1>2. n \in Int /\ Depth(n) \in Int /\ Sp(c) \in Int /\ Sp(c) - Depth(n) \in Int
  BY DEF Stages, Depth, Context
<1>3. t.cpu \in Cpsr
  BY <1>1 DEF CpuAt, Cpsr
<1>4. t.pc = Code(t.pc[2], t.pc[3]) /\ t.pc[3] \in Int
  BY <1>1, <1>2 DEF PcAt, Code
<1>5. Sp(t) = Sp(c) - Depth(n)
  BY <1>1 DEF Sp, Addr, Usr
<1> QED
  BY <1>1, <1>2, <1>3, <1>4, <1>5 DEF Context, Shaped

\* A state in which ARM_swi is at some stage is a context.
LEMMA SvcShape ==
  ASSUME NEW t, Shaped(t), NEW n \in 1 .. 5, NEW c, Context(c), Calls(c, t, n)
  PROVE  Context(t)
<1>1. t.pc = SvcPc(n) /\ t.cpu = [mode |-> "svc", I |-> TRUE, F |-> c.cpu.F] /\ t.reg[Usr("sp")] = c.reg[Usr("sp")]
  BY SvcNames DEF Calls, UserRegs
<1>2. t.cpu \in Cpsr
  BY <1>1 DEF Context, Cpsr
<1>3. t.pc = Code(t.pc[2], t.pc[3]) /\ t.pc[3] \in Int
  BY <1>1 DEF SvcPc, Code
<1>4. Sp(t) = Sp(c)
  BY <1>1 DEF Sp, Usr
<1> QED
  BY <1>1, <1>2, <1>3, <1>4 DEF Context, Shaped

\* A context that was resumed is one.
LEMMA ResumedShape ==
  ASSUME NEW t, Shaped(t), NEW e \in ExcMode, NEW c, Context(c), Resumes(e, c, t)
  PROVE  Context(t)
<1>1. t.pc = c.pc /\ t.cpu = c.cpu
  BY DEF Resumes
<1>2. t.reg[Usr("sp")] = c.reg[Usr("sp")]
  BY SvcNames, NotScratch DEF Resumes, UserRegs, Usr
<1>3. Sp(t) = Sp(c)
  BY <1>2 DEF Sp
<1> QED
  BY <1>1, <1>2, <1>3 DEF Context, Shaped

\* A new context on top.
LEMMA Push ==
  ASSUME Inv, Whole', UNCHANGED <<line, enabled>>, NEW d, d = Len(ghost), NEW e \in ExcMode, NEW s, s = Interrupted,
         NEW t, t = Interrupted', ghost' = Append(ghost, [exc |-> e, ctx |-> s]), Context(t),
         Layer(d + 1, [exc |-> e, ctx |-> s], t),
         e = "irq" => /\ t.pc = PcAt("irq", 1) /\ line \cap enabled # {}
                      /\ \A j \in 1 .. d : ghost[j].exc = "irq" /\ Nestable(Over(ghost, d, s, j).pc)
  PROVE  Inv'
<1>1. PICK h, g, ln, en : h = ghost /\ g = ghost' /\ ln = line /\ en = enabled
  OBVIOUS
<1>2. /\ d \in Nat /\ Layers(h, d, s) /\ Nests(h, d, s) /\ Numbered(h, d, s, ln, en) /\ d = Len(h) /\ \E X : h \in Seq(X)
      /\ ln \subseteq IRQ /\ en \subseteq IRQ
  BY <1>1, Unfold
<1>3. g = Append(h, [exc |-> e, ctx |-> s])
  BY <1>1
<1>4. /\ \E X : g \in Seq(X)
      /\ Len(g) = d + 1
      /\ (\A k \in 1 .. d : g[k] = h[k]) /\ g[d + 1] = [exc |-> e, ctx |-> s]
  <2>1. PICK x : x = [exc |-> e, ctx |-> s]
    OBVIOUS
  <2>2. PICK X : h \in Seq(X)
    BY <1>2
  <2>3. PICK Y : h \in Seq(Y) /\ x \in Y
    <3>1. h \in Seq(X \cup {x}) /\ x \in X \cup {x}
      BY <2>2
    <3> QED
      BY <3>1
  <2>4. g = Append(h, x)
    BY <1>3, <2>1, Zenon
  <2>5. g \in Seq(Y) /\ Len(g) = d + 1 /\ (\A k \in 1 .. d : g[k] = h[k]) /\ g[d + 1] = x
    BY <1>2, <2>3, <2>4, AppendProperties
  <2> QED
    BY <2>1, <2>5
<1>5. Layers(g, d + 1, t)
  BY <1>2, <1>4, LayersPush
<1>6. Nests(g, d + 1, t)
  BY <1>1, <1>2, <1>4, NestsPush
<1>7. Numbered(g, d + 1, t, ln, en)
  BY <1>1, <1>2, <1>4, NumberedPush
<1> QED
  BY <1>1, <1>2, <1>4, <1>5, <1>6, <1>7 DEF Inv

\* SWI
LEMMA SystemCallInv ==
  ASSUME Inv, SystemCall, Whole'
  PROVE  Inv'
<1>1. PICK d, s, t : d = Len(ghost) /\ s = Interrupted /\ t = Interrupted'
  OBVIOUS
<1>2. ghost = <<>> /\ d = 0 /\ MainOK(s) /\ Context(s)
  BY <1>1, Unfold, MainRuns DEF SystemCall, Foreground
<1>3. s.pc = MainAddr /\ [Interrupted EXCEPT !.pc = MainAddr] = s
  BY <1>1, <1>2 DEF MainOK, Interrupted
<1>4. ghost' = Append(ghost, [exc |-> "svc", ctx |-> s]) /\ UNCHANGED <<line, enabled>>
  BY <1>3 DEF SystemCall
<1>5. /\ t.pc = SvcPc(1) /\ t.cpu = [mode |-> "svc", I |-> TRUE, F |-> s.cpu.F] /\ t.mem = s.mem
      /\ t.reg = [s.reg EXCEPT ![SvcLr] = s.pc, ![SvcSpsr] = Psr(s.cpu)]
  BY <1>1, <1>3 DEF SystemCall, Interrupted, SvcPc, SvcLr, SvcSpsr
<1>6. Calls(s, t, 1)
  BY <1>2, <1>5, EnterSvc
<1>7. Context(t)
  BY <1>1, <1>2, <1>6, ShapedThen, SvcShape
<1>8. Layer(d + 1, [exc |-> "svc", ctx |-> s], t)
  BY <1>2, <1>6 DEF Layer, SvcLayer
<1> QED
  BY <1>1, <1>4, <1>7, <1>8, Push DEF ExcMode

\* CPSR when ARM_irq and ARM_fiq begin.
LEMMA CpuFirst ==
  /\ CpuAt("irq", 1) = [mode |-> "irq", I |-> TRUE, F |-> FALSE]
  /\ CpuAt("fiq", 1) = [mode |-> "fiq", I |-> TRUE, F |-> TRUE]
<1>1. (1 \notin {18, 19}) = TRUE /\ (1 <= 5 \/ 1 \in {11, 12} \/ 1 >= 28) = TRUE
  OBVIOUS
<1>2. ("irq" = "fiq" \/ 1 >= 25) = FALSE /\ ("fiq" = "fiq" \/ 1 >= 25) = TRUE
  OBVIOUS
<1>3. CpuAt("irq", 1) = [mode |-> "irq", I |-> TRUE, F |-> FALSE]
  BY <1>1, <1>2, Zenon DEF CpuAt
<1>4. CpuAt("fiq", 1) = [mode |-> "fiq", I |-> TRUE, F |-> TRUE]
  BY <1>1, <1>2, Zenon DEF CpuAt
<1> QED
  BY <1>3, <1>4

\* Where an IRQ is taken with IRQs in progress, every one of them is where it lets others in.
LEMMA IrqTop ==
  ASSUME NEW h, NEW d \in Nat, NEW s, Layers(h, d, s), Nests(h, d, s), ~s.cpu.I
  PROVE  /\ ~s.cpu.F /\ Sp(s) = StackWords + 1 - 10 * d
         /\ \A j \in 1 .. d : h[j].exc = "irq" /\ Nestable(Over(h, d, s, j).pc)
<1>1. Over(h, d, s, d) = s
  BY DEF Over
<1>2. CASE d = 0
  <2>1. MainOK(s)
    BY <1>1, <1>2 DEF Layers
  <2>2. Sp(s) = StackWords + 1
    BY <2>1 DEF MainOK, Sp, Addr
  <2>3. StackWords + 1 - 10 * d = StackWords + 1
    BY <1>2, StackAssumption
  <2> QED
    BY <1>2, <2>1, <2>2, <2>3 DEF MainOK
<1>3. CASE d # 0
  <2>1. d \in 1 .. d /\ Layer(d, h[d], s)
    BY <1>1, <1>3 DEF Layers
  <2>2. h[d].exc = "irq" /\ ~s.cpu.F
    BY <2>1, LayerMask
  <2>3. PICK c : c = h[d].ctx
    OBVIOUS
  <2>4. Context(c) /\ IrqLayer(d, c, s)
    BY <2>1, <2>2, <2>3 DEF Layer
  <2>5. PICK n \in 1 .. 33 : Interrupts("irq", c, s, n)
    BY <2>4 DEF IrqLayer
  <2>6. s.pc = PcAt("irq", n) /\ s.cpu = CpuAt("irq", n) /\ s.reg[Usr("sp")] = Addr("sys", Sp(c) - Depth(n))
    BY <2>5 DEF Interrupts, Where
  <2>7. n \in {18, 19}
    BY <2>6, CpuBits
  <2>8. Nestable(s.pc)
    BY <2>6, <2>7, Classes
  <2>9. Sp(s) = Sp(c) - 10
    BY <2>6, <2>7 DEF Sp, Addr, Depth
  <2>10. Sp(s) = StackWords + 1 - 10 * d
    <3>1. PICK p : p = Sp(c)
      OBVIOUS
    <3>2. p = StackWords + 1 - 10 * (d - 1)
      BY <2>4, <3>1 DEF IrqLayer
    <3>3. p - 10 = StackWords + 1 - 10 * d
      BY <3>2, StackAssumption
    <3> QED
      BY <2>9, <3>1, <3>3
  <2>11. ASSUME NEW j \in 1 .. d PROVE h[j].exc = "irq" /\ Nestable(Over(h, d, s, j).pc)
    <3>1. CASE j = d
      BY <1>1, <2>2, <2>8, <3>1
    <3>2. CASE j # d
      <4>1. j \in 1 .. d - 1
        BY <3>2
      <4> QED
        BY <2>1, <2>2, <4>1 DEF Nests
    <3> QED
      BY <3>1, <3>2
  <2> QED
    BY <2>2, <2>10, <2>11
<1> QED
  BY <1>2, <1>3

\* An IRQ keeps the invariant: every exception below it is a BSP_irq with its
\* handler enabled, each serving a masked number of its own, so that the
\* pending number is one source more.
LEMMA TakeIrqInv ==
  ASSUME Inv, TakeIrq, Whole'
  PROVE  Inv'
<1>1. PICK d, s, t, h, ln, en : /\ d = Len(ghost) /\ s = Interrupted /\ t = Interrupted' /\ h = ghost
                                /\ ln = line /\ en = enabled
  OBVIOUS
<1>2. /\ d \in Nat /\ Layers(h, d, s) /\ Nests(h, d, s) /\ Numbered(h, d, s, ln, en) /\ en \subseteq IRQ
      /\ Context(s)
  BY <1>1, Unfold
<1>3. ~s.cpu.I /\ ln \cap en # {}
  BY <1>1 DEF TakeIrq, IrqTaken, Pending, Interrupted
<1>4. /\ ~s.cpu.F /\ Sp(s) = StackWords + 1 - 10 * d
      /\ \A j \in 1 .. d : h[j].exc = "irq" /\ Nestable(Over(h, d, s, j).pc)
  BY <1>2, <1>3, IrqTop
<1>5. \A j \in 1 .. d : Serves(h, d, s, j)
  BY <1>4 DEF Serves, Serving, Nestable
<1>6. d + 1 <= Cardinality(IRQ)
  BY <1>2, <1>3, <1>5, Sources
<1>7. s.cpu.F = FALSE /\ s.cpu.F = cpu.F
  BY <1>1, <1>2, <1>4 DEF Context, Cpsr, Interrupted
<1>8. /\ t.pc = PcAt("irq", 1) /\ t.cpu = CpuAt("irq", 1) /\ t.mem = s.mem
      /\ t.reg = [s.reg EXCEPT ![<<"irq", "lr">>] = Code(s.pc[2], s.pc[3] + 1), ![<<"irq", "spsr">>] = Psr(s.cpu)]
  <2>1. t.pc = Code("ARM_irq", 1) /\ t.cpu = [mode |-> "irq", I |-> TRUE, F |-> cpu.F] /\ t.mem = s.mem
    BY <1>1 DEF TakeIrq, Take, Interrupted
  <2>2. t.reg = [s.reg EXCEPT ![<<"irq", "lr">>] = Code(s.pc[2], s.pc[3] + 1), ![<<"irq", "spsr">>] = Psr(s.cpu)]
    BY <1>1 DEF TakeIrq, Take, Interrupted, Next4
  <2>3. Code("ARM_irq", 1) = PcAt("irq", 1)
    BY DEF PcAt
  <2> QED
    BY <1>7, <2>1, <2>2, <2>3, CpuFirst
<1>9. Interrupts("irq", s, t, 1)
  BY <1>2, <1>8, Enter
<1>10. Context(t)
  BY <1>1, <1>2, <1>9, ShapedThen, IrqShape DEF Stages
<1>11. Layer(d + 1, [exc |-> "irq", ctx |-> s], t)
  <2>1. d + 1 - 1 = d /\ 1 \in 1 .. 33
    BY <1>2
  <2> QED
    BY <1>2, <1>3, <1>4, <1>6, <1>9, <2>1 DEF Layer, IrqLayer
<1>12. ghost' = Append(ghost, [exc |-> "irq", ctx |-> s]) /\ UNCHANGED <<line, enabled>>
  BY <1>1 DEF TakeIrq, Take
<1> QED
  BY <1>1, <1>3, <1>4, <1>8, <1>10, <1>11, <1>12, Push DEF ExcMode

\* An FIQ keeps the invariant.
LEMMA TakeFiqInv ==
  ASSUME Inv, TakeFiq, Whole'
  PROVE  Inv'
<1>1. PICK d, s, t, h : d = Len(ghost) /\ s = Interrupted /\ t = Interrupted' /\ h = ghost
  OBVIOUS
<1>2. d \in Nat /\ Layers(h, d, s) /\ Context(s)
  BY <1>1, Unfold
<1>3. ~s.cpu.F
  BY <1>1 DEF TakeFiq, Interrupted
<1>4. /\ t.pc = PcAt("fiq", 1) /\ t.cpu = CpuAt("fiq", 1) /\ t.mem = s.mem
      /\ t.reg = [s.reg EXCEPT ![<<"fiq", "lr">>] = Code(s.pc[2], s.pc[3] + 1), ![<<"fiq", "spsr">>] = Psr(s.cpu)]
  <2>1. t.pc = Code("ARM_fiq", 1) /\ t.cpu = [mode |-> "fiq", I |-> TRUE, F |-> TRUE] /\ t.mem = s.mem
    BY <1>1 DEF TakeFiq, Take, Interrupted
  <2>2. t.reg = [s.reg EXCEPT ![<<"fiq", "lr">>] = Code(s.pc[2], s.pc[3] + 1), ![<<"fiq", "spsr">>] = Psr(s.cpu)]
    BY <1>1 DEF TakeFiq, Take, Interrupted, Next4
  <2>3. Code("ARM_fiq", 1) = PcAt("fiq", 1)
    BY DEF PcAt
  <2> QED
    BY <2>1, <2>2, <2>3, CpuFirst
<1>5. Interrupts("fiq", s, t, 1)
  BY <1>2, <1>4, Enter
<1>6. 1 \in Stages("fiq")
  BY DEF Stages
<1>7. Context(t)
  BY <1>1, <1>2, <1>5, <1>6, ShapedThen, IrqShape
<1>8. Layer(d + 1, [exc |-> "fiq", ctx |-> s], t)
  BY <1>2, <1>3, <1>5, <1>6 DEF Layer, FiqLayer
<1>9. ghost' = Append(ghost, [exc |-> "fiq", ctx |-> s]) /\ UNCHANGED <<line, enabled>>
  BY <1>1 DEF TakeFiq, Take
<1> QED
  BY <1>1, <1>7, <1>8, <1>9, Push DEF ExcMode

-----------------------------------------------------------------------------
(* Instructions keep the invariant.                                        *)

\* An instruction of the code on top.
LEMMA Step ==
  ASSUME Inv, Whole', ghost' = ghost, line' \subseteq IRQ, enabled' \subseteq IRQ, NEW d \in Nat \ {0}, d = Len(ghost),
         NEW t, t = Interrupted', Context(t), Layer(d, ghost[d], t), Numbered(ghost, d, t, line', enabled')
  PROVE  Inv'
<1>1. PICK h, s, ln, en : h = ghost /\ s = Interrupted /\ ln = line' /\ en = enabled'
  OBVIOUS
<1>2. Layers(h, d, s) /\ Nests(h, d, s) /\ d = Len(h) /\ \E X : h \in Seq(X)
  BY <1>1, Unfold
<1>3. Layers(h, d, t)
  BY <1>1, <1>2, LayersMove
<1>4. Nests(h, d, t)
  BY <1>2, NestsMove
<1>5. Numbered(h, d, t, ln, en)
  BY <1>1
<1> QED
  BY <1>1, <1>2, <1>3, <1>4, <1>5 DEF Inv

\* The newest context is resumed: the one below it finds its own code where it was.
LEMMA LayerUnharmed ==
  ASSUME Roomy, NEW h, NEW d \in Nat, d > 1, NEW s, Layers(h, d, s), NEW t, Resumes(h[d].exc, h[d].ctx, t)
  PROVE  Layer(d - 1, h[d - 1], t)
<1>1. PICK j \in 1 .. d : j = d - 1
  OBVIOUS
<1>2. PICK b, c, e : b = h[j].ctx /\ c = h[d].ctx /\ e = h[d].exc
  OBVIOUS
<1>3. Over(h, d, s, j) = c
  BY <1>1, <1>2 DEF Over
<1>4. Layer(j, h[j], c)
  BY <1>3 DEF Layers
<1>5. Layer(d, h[d], Over(h, d, s, d))
  BY DEF Layers
<1>6. e \in {"irq", "fiq"} /\ h[j].exc \in {"irq", "svc"} /\ (e = "irq" => h[j].exc = "irq")
  BY <1>1, <1>2, Under
<1>7. Context(b) /\ Context(c) /\ ~c.cpu.F /\ (e = "irq" => ~c.cpu.I)
  BY <1>2, <1>4, <1>5, <1>6 DEF Layer, IrqLayer, FiqLayer
<1>8. Resumes(e, c, t)
  BY <1>2
<1>9. CASE h[j].exc = "irq"
  <2>1. IrqLayer(j, b, c)
    BY <1>2, <1>4, <1>9 DEF Layer
  <2>2. PICK n \in 1 .. 33 : Interrupts("irq", b, c, n)
    BY <2>1 DEF IrqLayer
  <2>3. c.cpu = CpuAt("irq", n)
    BY <2>2 DEF Interrupts, Where
  <2>4. n \in 1 .. 24 /\ (e = "irq" => n \in {18, 19})
    BY <1>7, <2>3, CpuBits
  <2>5. Fits("irq", b)
    BY <1>2, <1>9, Room
  <2>6. Interrupts("irq", b, t, n)
    BY <1>6, <1>7, <1>8, <2>2, <2>4, <2>5, IrqUnharmed
  <2>7. IrqLayer(j, b, t)
    BY <2>1, <2>6 DEF IrqLayer
  <2> QED
    BY <1>1, <1>2, <1>4, <1>9, <2>7 DEF Layer
<1>10. CASE h[j].exc = "svc"
  <2>1. SvcLayer(j, b, c) /\ e = "fiq"
    BY <1>2, <1>4, <1>6, <1>10 DEF Layer
  <2>2. PICK n \in 1 .. 5 : Calls(b, c, n)
    BY <2>1 DEF SvcLayer
  <2>3. StackWords >= 6
    <3>1. PICK N \in Nat : N = Cardinality(IRQ)
      BY FS_CardinalityType, IRQAssumption
    <3> QED
      BY <3>1, StackAssumption DEF Roomy
  <2>4. Calls(b, t, n)
    BY <1>7, <1>8, <2>1, <2>2, <2>3, SvcUnharmed
  <2>5. SvcLayer(j, b, t)
    BY <2>1, <2>4 DEF SvcLayer
  <2> QED
    BY <1>1, <1>2, <1>4, <1>10, <2>5 DEF Layer
<1> QED
  BY <1>6, <1>9, <1>10

\* A return keeps the invariant: the layer below finds the context it had.
LEMMA Pop ==
  ASSUME Roomy, Inv, Whole', UNCHANGED <<line, enabled>>, NEW d \in Nat \ {0}, d = Len(ghost),
         ghost' = SubSeq(ghost, 1, Len(ghost) - 1), Resumes(ghost[d].exc, ghost[d].ctx, Interrupted')
  PROVE  Inv'
<1>1. PICK h, g, s, t, ln, en : /\ h = ghost /\ g = ghost' /\ s = Interrupted /\ t = Interrupted'
                                /\ ln = line /\ en = enabled
  OBVIOUS
<1>2. /\ Layers(h, d, s) /\ Nests(h, d, s) /\ Numbered(h, d, s, ln, en) /\ d = Len(h) /\ ln \subseteq IRQ /\ en \subseteq IRQ
  BY <1>1, Unfold
<1>3. PICK X : h \in Seq(X)
  BY <1>1, Unfold
<1>4. g = SubSeq(h, 1, d - 1)
  BY <1>1
<1>5. g \in Seq(X) /\ Len(g) = d - 1 /\ \A k \in 1 .. d - 1 : g[k] = h[k]
  BY <1>2, <1>3, <1>4, SubSeqProperties
<1>6. PICK c, e : c = h[d].ctx /\ e = h[d].exc
  OBVIOUS
<1>7. Layer(d, h[d], s) /\ Context(c) /\ e \in ExcMode
  <2>1. d \in 1 .. d /\ Over(h, d, s, d) = s
    BY DEF Over
  <2>2. Layer(d, h[d], s)
    BY <1>2, <2>1 DEF Layers
  <2> QED
    BY <1>6, <2>2 DEF Layer, ExcMode
<1>8. Resumes(e, c, t)
  BY <1>1, <1>6
<1>9. Context(t)
  BY <1>1, <1>7, <1>8, ShapedThen, ResumedShape
<1>10. d = 1 => MainOK(t)
  <2> SUFFICES ASSUME d = 1 PROVE MainOK(t)
    OBVIOUS
  <2>1. Over(h, d, s, 0) = c
    BY <1>6 DEF Over
  <2>2. MainOK(c)
    BY <1>2, <2>1 DEF Layers
  <2> QED
    BY <1>7, <1>8, <2>2, MainUnharmed
<1>11. d > 1 => Layer(d - 1, h[d - 1], t)
  <2> SUFFICES ASSUME d > 1 PROVE Layer(d - 1, h[d - 1], t)
    OBVIOUS
  <2>1. Resumes(h[d].exc, h[d].ctx, t)
    BY <1>6, <1>8
  <2> QED
    BY <1>2, <2>1, LayerUnharmed
<1>12. Layers(g, d - 1, t)
  BY <1>2, <1>5, <1>9, <1>10, <1>11, LayersPop
<1>13. t.pc = h[d].ctx.pc
  BY <1>6, <1>8 DEF Resumes
<1>14. Nests(g, d - 1, t)
  BY <1>2, <1>5, <1>13, NestsPop
<1>15. Numbered(g, d - 1, t, ln, en)
  BY <1>2, <1>5, <1>13, NumberedPop
<1> QED
  BY <1>1, <1>2, <1>5, <1>12, <1>14, <1>15 DEF Inv

\* Instructions of the model are those of an exception.
LEMMA Executes ==
  ASSUME Execute
  PROVE  ghost # <<>>
  BY DEF Execute, ExecMove, ExecMsr, ExecStmfd, ExecLdmUser, ExecCall, ExecRet, ExecMovsPc, ReadNum, MaskIrq,
         irq_handler, UnmaskIrq, SwHandler, SwiRestore, Fetch, FetchC

\* What the invariant says of the exception that runs.
LEMMA Running ==
  ASSUME Inv, ghost # <<>>, NEW d, d = Len(ghost), NEW h, h = ghost, NEW s, s = Interrupted
  PROVE  /\ d \in Nat \ {0} /\ d \in 1 .. d /\ Over(h, d, s, d) = s
         /\ Layers(h, d, s) /\ Nests(h, d, s) /\ Numbered(h, d, s, line, enabled)
         /\ Layer(d, h[d], s) /\ Context(s) /\ Context(h[d].ctx) /\ line \subseteq IRQ /\ enabled \subseteq IRQ
<1>1. /\ d \in Nat \ {0} /\ Layers(h, d, s) /\ Nests(h, d, s) /\ Numbered(h, d, s, line, enabled)
      /\ Context(s) /\ line \subseteq IRQ /\ enabled \subseteq IRQ
  BY Unfold
<1>2. d \in 1 .. d
  BY <1>1
<1>3. Over(h, d, s, d) = s
  BY <1>1 DEF Over
<1>4. Layer(d, h[d], s)
  BY <1>1, <1>2, <1>3 DEF Layers
<1> QED
  BY <1>1, <1>2, <1>3, <1>4 DEF Layer

\* ARM_fiq and BSP_fiq
LEMMA FiqInv ==
  ASSUME Roomy, Inv, Whole', Execute, NEW d, d = Len(ghost), ghost[d].exc = "fiq"
  PROVE  Inv'
<1>1. PICK h, c, s, t, ln, en : /\ h = ghost /\ c = h[d].ctx /\ s = Interrupted /\ t = Interrupted'
                                /\ ln = line /\ en = enabled
  OBVIOUS
<1>2. /\ d \in Nat \ {0} /\ d \in 1 .. d /\ Layers(h, d, s) /\ Numbered(h, d, s, ln, en) /\ Layer(d, h[d], s) /\ Context(s)
      /\ Context(c) /\ ln \subseteq IRQ /\ en \subseteq IRQ
  BY <1>1, Executes, Running
<1>3. FiqLayer(c, s) /\ Fits("fiq", c) /\ h[d].exc = "fiq"
  BY <1>1, <1>2, Room DEF Layer
<1>4. PICK n \in Stages("fiq") : Interrupts("fiq", c, s, n)
  BY <1>3 DEF FiqLayer
<1>5. CASE n = 33
  <2>1. /\ Resumes("fiq", c, t) /\ UNCHANGED <<line, enabled, wanted>>
        /\ ghost' = SubSeq(ghost, 1, Len(ghost) - 1)
    BY <1>1, <1>2, <1>4, <1>5, Run33
  <2> QED
    BY <1>1, <1>2, <2>1, Pop
<1>6. CASE n # 33
  <2>1. Quiet /\ \E q \in Stages("fiq") : Interrupts("fiq", c, t, q)
    BY <1>1, <1>2, <1>3, <1>4, <1>6, FiqRuns
  <2>2. PICK q \in Stages("fiq") : Interrupts("fiq", c, t, q)
    BY <2>1
  <2>3. Context(t)
    BY <1>1, <1>2, <2>2, ShapedThen, IrqShape
  <2>4. Layer(d, h[d], t)
    BY <1>1, <1>2, <1>3, <2>2 DEF Layer, FiqLayer
  <2>5. Numbered(h, d, t, ln, en)
    BY <1>2, <1>3, NumberedMove
  <2>6. ghost' = ghost /\ line' = line /\ enabled' = enabled
    BY <2>1 DEF Quiet
  <2> QED
    BY <1>1, <1>2, <2>3, <2>4, <2>5, <2>6, Step
<1> QED
  BY <1>5, <1>6

\* ARM_swi and sw_handler
LEMMA SwiInv ==
  ASSUME Roomy, Inv, Whole', Execute, NEW d, d = Len(ghost), ghost[d].exc = "svc"
  PROVE  Inv'
<1>1. PICK h, c, s, t, ln, en : /\ h = ghost /\ c = h[d].ctx /\ s = Interrupted /\ t = Interrupted'
                                /\ ln = line /\ en = enabled
  OBVIOUS
<1>2. /\ d \in Nat \ {0} /\ d \in 1 .. d /\ Layers(h, d, s) /\ Numbered(h, d, s, ln, en) /\ Layer(d, h[d], s) /\ Context(s)
      /\ Context(c) /\ ln \subseteq IRQ /\ en \subseteq IRQ
  BY <1>1, Executes, Running
<1>3. SvcLayer(d, c, s) /\ h[d].exc = "svc" /\ d = 1
  BY <1>1, <1>2 DEF Layer, SvcLayer
<1>4. PICK n \in 1 .. 5 : Calls(c, s, n)
  BY <1>3 DEF SvcLayer
<1>5. StackWords >= 6
  <2>1. PICK N \in Nat : N = Cardinality(IRQ)
    BY FS_CardinalityType, IRQAssumption
  <2> QED
    BY <2>1, StackAssumption DEF Roomy
<1>6. MainOK(c)
  <2>1. Over(h, d, s, 0) = c
    BY <1>1, <1>3 DEF Over
  <2> QED
    BY <1>2, <2>1 DEF Layers
<1>7. CASE n = 5
  <2>1. /\ Resumes("svc", c, t) /\ UNCHANGED <<line, enabled, wanted>>
        /\ ghost' = SubSeq(ghost, 1, Len(ghost) - 1)
    BY <1>1, <1>2, <1>4, <1>5, <1>6, <1>7, RunSvc5
  <2> QED
    BY <1>1, <1>2, <2>1, Pop
<1>8. CASE n # 5
  <2>1. Quiet /\ Calls(c, t, n + 1)
    <3>1. CASE n = 1
      BY <1>1, <1>2, <1>4, <1>5, <3>1, RunSvc1
    <3>2. CASE n \in 2 .. 4
      BY <1>1, <1>2, <1>4, <3>2, RunSvc
    <3> QED
      BY <1>8, <3>1, <3>2
  <2>2. n + 1 \in 1 .. 5
    BY <1>8
  <2>3. Context(t)
    BY <1>1, <1>2, <2>1, <2>2, ShapedThen, SvcShape
  <2>4. Layer(d, h[d], t)
    BY <1>1, <1>2, <1>3, <2>1, <2>2 DEF Layer, SvcLayer
  <2>5. Numbered(h, d, t, ln, en)
    BY <1>2, <1>3, NumberedMove
  <2>6. ghost' = ghost /\ line' = line /\ enabled' = enabled
    BY <2>1 DEF Quiet
  <2> QED
    BY <1>1, <1>2, <2>3, <2>4, <2>5, <2>6, Step
<1> QED
  BY <1>7, <1>8

\* A set of natural numbers with an element has a least one.
LEMMA LeastElement ==
  ASSUME NEW S, S \subseteq Nat, S # {}
  PROVE  \E x \in S : \A y \in S : x <= y
<1> DEFINE R == {ss \in Nat \X Nat : ss[1] < ss[2]}
<1>1. IsWellFoundedOn(R, Nat)
  <2>1. OpToRel(<, Nat) = R
    BY Zenon DEF OpToRel
  <2> QED
    BY <2>1, NatLessThanWellFounded, Zenon
<1>2. \E x \in S : \A y \in S : ~(<<y, x>> \in R)
  <2> HIDE DEF R
  <2> QED
    BY <1>1, WFMin
<1>3. PICK x \in S : \A y \in S : ~(<<y, x>> \in R)
  BY <1>2
<1>4. \A y \in S : y < x => <<y, x>> \in R
  OBVIOUS
<1>5. ASSUME NEW y \in S PROVE x <= y
  <2>1. ~(y < x)
    BY <1>3, <1>4, Zenon
  <2> QED
    BY <2>1
<1> QED
  BY <1>5

\* GOLDFISH_INTERRUPT_NUMBER names a pending, enabled number when there is one.
LEMMA NumberRead ==
  ASSUME line \subseteq IRQ, Pending # {}
  PROVE  goldfish_get_irq_num \in Pending
<1>1. Pending \subseteq Nat
  BY IRQAssumption DEF Pending
<1>2. \E x \in Pending : \A y \in Pending : x <= y
  BY <1>1, LeastElement
<1> QED
  BY <1>2 DEF goldfish_get_irq_num

\* BSP_irq after goldfish_get_irq_num
LEMMA ReadInv ==
  ASSUME Inv, Whole', Execute, NEW d, d = Len(ghost), NEW c, ghost[d].exc = "irq", ghost[d].ctx = c,
         Fits("irq", c), Interrupts("irq", c, Interrupted, 15)
  PROVE  Inv'
<1>1. PICK h, g, s, t, ln, en, w : /\ h = ghost /\ g = ghost' /\ s = Interrupted /\ t = Interrupted'
                                   /\ ln = line /\ en = enabled /\ w = goldfish_get_irq_num
  OBVIOUS
<1>2. /\ d \in Nat \ {0} /\ d \in 1 .. d /\ Layers(h, d, s) /\ Nests(h, d, s) /\ Numbered(h, d, s, ln, en)
      /\ Layer(d, h[d], s) /\ Context(s) /\ Context(c) /\ ln \subseteq IRQ /\ en \subseteq IRQ /\ Over(h, d, s, d) = s
  BY <1>1, Executes, Running
<1>3. PICK X : h \in Seq(X)
  BY <1>1, Unfold
<1>4. s.pc = PcAt("irq", 15)
  BY <1>1 DEF Interrupts, Where
<1>5. Early(s.pc)
  BY <1>4, Classes
<1>6. ln \cap en # {}
  BY <1>1, <1>2, <1>5 DEF Numbered
<1>7. w \in en
  BY <1>1, <1>2, <1>6, NumberRead DEF Pending
<1>8. /\ Interrupts("irq", [c EXCEPT !.irq = w], t, 16) /\ UNCHANGED <<line, enabled>>
      /\ g = [h EXCEPT ![d].ctx.irq = w]
  BY <1>1, <1>2, Run15
<1>9. PICK b : b = [c EXCEPT !.irq = w]
  OBVIOUS
<1>10. PICK e : e = [exc |-> "irq", ctx |-> b]
  OBVIOUS
<1>11. g = [h EXCEPT ![d] = e]
  <2>1. h[d] = [exc |-> "irq", ctx |-> c]
    BY <1>1, <1>2 DEF Layer
  <2>2. [h[d] EXCEPT !.ctx.irq = w] = e
    BY <1>9, <1>10, <2>1
  <2> QED
    BY <1>8, <2>2
<1>12. PICK Y : h \in Seq(Y) /\ e \in Y
  <2>1. h \in Seq(X \cup {e}) /\ e \in X \cup {e}
    BY <1>3
  <2> QED
    BY <2>1
<1>13. g \in Seq(Y) /\ Len(g) = d /\ (\A k \in 1 .. d - 1 : g[k] = h[k]) /\ g[d] = e
  <2>1. Len(h) = d /\ DOMAIN h = 1 .. d
    BY <1>1, <1>3, LenProperties
  <2>2. g \in Seq(Y) /\ Len(g) = d
    BY <1>2, <1>11, <1>12, <2>1, ExceptSeq
  <2> QED
    BY <1>2, <1>11, <2>1, <2>2
<1>14. t.pc = PcAt("irq", 16)
  BY <1>8 DEF Interrupts, Where
<1>15. /\ h[d].exc = "irq" /\ g[d] = [exc |-> "irq", ctx |-> [h[d].ctx EXCEPT !.irq = w]]
       /\ Interrupts("irq", g[d].ctx, t, 16) /\ g[d].ctx = b
  BY <1>1, <1>8, <1>9, <1>10, <1>13
<1>16. Context(b)
  <2>1. /\ b.pc = c.pc /\ b.cpu = c.cpu /\ b.reg = c.reg /\ b.mem = c.mem
        /\ b = [pc |-> b.pc, cpu |-> b.cpu, reg |-> b.reg, mem |-> b.mem, irq |-> b.irq]
    BY <1>2, <1>9 DEF Context
  <2>2. Sp(b) = Sp(c)
    BY <2>1 DEF Sp
  <2> QED
    BY <1>2, <2>1, <2>2 DEF Context
<1>17. Context(t)
  <2>1. 16 \in Stages("irq")
    BY DEF Stages
  <2> QED
    BY <1>1, <1>15, <1>16, <2>1, ShapedThen, IrqShape
<1>18. Layers(g, d, t) /\ Nests(g, d, t) /\ Numbered(g, d, t, ln, en)
  BY <1>2, <1>7, <1>13, <1>14, <1>15, <1>17, NoteNum
<1> QED
  BY <1>1, <1>2, <1>8, <1>13, <1>18 DEF Inv

\* ARM_irq and BSP_irq
LEMMA IrqInv ==
  ASSUME Roomy, Inv, Whole', Execute, NEW d, d = Len(ghost), ghost[d].exc = "irq"
  PROVE  Inv'
<1>1. PICK h, c, s, t, ln, en : /\ h = ghost /\ c = h[d].ctx /\ s = Interrupted /\ t = Interrupted'
                                /\ ln = line /\ en = enabled
  OBVIOUS
<1>2. /\ d \in Nat \ {0} /\ d \in 1 .. d /\ Layers(h, d, s) /\ Nests(h, d, s) /\ Numbered(h, d, s, ln, en)
      /\ Layer(d, h[d], s) /\ Context(s) /\ Context(c) /\ ln \subseteq IRQ /\ en \subseteq IRQ /\ Over(h, d, s, d) = s
  BY <1>1, Executes, Running
<1>3. IrqLayer(d, c, s) /\ Fits("irq", c) /\ h[d].exc = "irq"
  BY <1>1, <1>2, Room DEF Layer
<1>4. PICK n \in 1 .. 33 : Interrupts("irq", c, s, n)
  BY <1>3 DEF IrqLayer
<1>5. s.pc = PcAt("irq", n)
  BY <1>4 DEF Interrupts, Where
<1>6. CASE n = 33
  <2>1. /\ Resumes("irq", c, t) /\ UNCHANGED <<line, enabled, wanted>>
        /\ ghost' = SubSeq(ghost, 1, Len(ghost) - 1)
    BY <1>1, <1>2, <1>4, <1>6, Run33
  <2> QED
    BY <1>1, <1>2, <2>1, Pop
<1>7. CASE n = 15
  <2>1. Interrupts("irq", c, Interrupted, 15)
    BY <1>1, <1>4, <1>7
  <2> QED
    BY <1>1, <1>3, <2>1, ReadInv
<1>8. CASE n \notin {15, 33}
  <2>1. n + 1 \in 1 .. 33 /\ n + 1 \in Stages("irq")
    BY <1>8 DEF Stages
  <2>2. Interrupts("irq", c, t, n + 1) /\ ghost' = ghost
    <3>1. CASE n \in {16, 18, 20}
      BY <1>1, <1>2, <1>4, <3>1, RunC
    <3>2. CASE n \notin {16, 18, 20}
      <4>1. n \in (1 .. 32) \ {15, 16, 18, 20}
        BY <1>8, <3>2
      <4>2. Interrupts("irq", c, Interrupted', n + 1) /\ Quiet
        BY <1>1, <1>2, <1>3, <1>4, <4>1, IrqRuns
      <4> QED
        BY <1>1, <4>2 DEF Quiet
    <3> QED
      BY <3>1, <3>2
  <2>3. t.pc = PcAt("irq", n + 1)
    BY <2>2 DEF Interrupts, Where
  <2>4. Context(t)
    BY <1>1, <1>2, <2>1, <2>2, ShapedThen, IrqShape
  <2>5. Layer(d, h[d], t)
    BY <1>1, <1>2, <1>3, <2>1, <2>2 DEF Layer, IrqLayer
  <2>6. Numbered(h, d, t, line', enabled') /\ line' \subseteq IRQ /\ enabled' \subseteq IRQ
    <3>1. CASE n = 16
      <4>1. enabled' = en \ {h[d].ctx.irq} /\ line' = ln
        BY <1>1, <1>2, <1>4, <3>1, RunC
      <4>2. s.pc = PcAt("irq", 16) /\ t.pc = PcAt("irq", 17)
        BY <1>5, <2>3, <3>1
      <4> QED
        BY <1>2, <1>3, <4>1, <4>2, NumberedMask
    <3>2. CASE n = 18
      <4>1. enabled' = en /\ line' = ln \ {h[d].ctx.irq}
        BY <1>1, <1>2, <1>4, <3>2, RunC
      <4>2. s.pc = PcAt("irq", 18) /\ t.pc = PcAt("irq", 19)
        BY <1>5, <2>3, <3>2
      <4> QED
        BY <1>2, <1>3, <4>1, <4>2, NumberedHandler
    <3>3. CASE n = 20
      <4>1. enabled' = en \cup {h[d].ctx.irq} /\ line' = ln
        BY <1>1, <1>2, <1>4, <3>3, RunC
      <4>2. s.pc = PcAt("irq", 20) /\ t.pc = PcAt("irq", 21)
        BY <1>5, <2>3, <3>3
      <4>3. Serving(s.pc)
        BY <4>2, Classes
      <4>4. h[d].ctx.irq \in IRQ
        BY <1>2, <1>3, <4>3 DEF Numbered, Serves
      <4> QED
        BY <1>2, <1>3, <4>1, <4>2, <4>4, NumberedUnmask
    <3>4. CASE n \notin {16, 18, 20}
      <4>1. n \in (1 .. 32) \ {15, 16, 18, 20}
        BY <1>8, <3>4
      <4>2. Quiet
        BY <1>1, <1>2, <1>3, <1>4, <4>1, IrqRuns
      <4>3. line' = ln /\ enabled' = en
        BY <1>1, <4>2 DEF Quiet
      <4>4. /\ Serving(t.pc) => Serving(s.pc)
            /\ Masks(t.pc) => Masks(s.pc)
            /\ Early(t.pc) => Early(s.pc)
        <5>1. /\ Serving(s.pc) <=> n \in 17 .. 20
              /\ Masks(s.pc) <=> n = 16
              /\ Early(s.pc) <=> n <= 15
          BY <1>5, Classes
        <5>2. /\ Serving(t.pc) <=> n + 1 \in 17 .. 20
              /\ Masks(t.pc) <=> n + 1 = 16
              /\ Early(t.pc) <=> n + 1 <= 15
          BY <2>1, <2>3, Classes
        <5> QED
          BY <4>1, <5>1, <5>2
      <4> QED
        BY <1>2, <4>3, <4>4, NumberedMove
    <3> QED
      BY <3>1, <3>2, <3>3, <3>4
  <2> QED
    BY <1>1, <1>2, <2>2, <2>4, <2>5, <2>6, Step
<1> QED
  BY <1>6, <1>7, <1>8

\* An instruction of any exception keeps the invariant.
LEMMA ExecuteInv ==
  ASSUME Roomy, Inv, Whole', Execute
  PROVE  Inv'
<1>1. PICK d : d = Len(ghost)
  OBVIOUS
<1>2. ghost # <<>>
  BY Executes
<1>3. PICK h, s : h = ghost /\ s = Interrupted
  OBVIOUS
<1>4. Layer(d, h[d], s)
  BY <1>1, <1>2, <1>3, Running
<1>5. ghost[d].exc \in {"irq", "fiq", "svc"}
  BY <1>3, <1>4 DEF Layer
<1> QED
  BY <1>1, <1>5, IrqInv, FiqInv, SwiInv

\* A stuttering step keeps the invariant.
LEMMA StutterInv ==
  ASSUME Inv, UNCHANGED vars
  PROVE  Inv'
<1>1. /\ line' = line /\ enabled' = enabled /\ cpu' = cpu /\ pc' = pc /\ reg' = reg /\ mem' = mem /\ ghost' = ghost
  BY DEF vars
<1>2. Interrupted' = Interrupted
  BY <1>1 DEF Interrupted
<1> QED
  BY <1>1, <1>2 DEF Inv, Whole

\* Every step keeps the invariant.
LEMMA NextInv ==
  ASSUME Roomy, Inv, [Next]_vars
  PROVE  Inv'
<1>1. Whole'
  BY StaysWhole DEF Inv
<1>2. CASE Device
  BY <1>2, DeviceInv
<1>3. CASE Main
  <2>1. CASE SystemCall
    BY <1>1, <2>1, SystemCallInv
  <2>2. CASE ~SystemCall
    BY <1>3, <2>2, MainInv
  <2> QED
    BY <2>1, <2>2
<1>4. CASE Exception
  <2>1. CASE TakeIrq
    BY <1>1, <2>1, TakeIrqInv
  <2>2. CASE TakeFiq
    BY <1>1, <2>2, TakeFiqInv
  <2> QED
    BY <1>4, <2>1, <2>2 DEF Exception
<1>5. CASE Execute
  BY <1>1, <1>5, ExecuteInv
<1>6. CASE UNCHANGED vars
  BY <1>6, StutterInv
<1> QED
  BY <1>2, <1>3, <1>4, <1>5, <1>6 DEF Next

\* The invariant bounds the stack: an IRQ at depth k has its context 10 words
\* below the one at depth k - 1, and there are no more of them than interrupt
\* sources.
LEMMA InvImpliesStackFits ==
  ASSUME Inv
  PROVE  StackFits
<1>1. PICK h, d, s : h = ghost /\ d = Len(ghost) /\ s = Interrupted
  OBVIOUS
<1>2. d \in Nat /\ Layers(h, d, s)
  BY <1>1, Unfold
<1>3. PICK N \in Nat : N = Cardinality(IRQ)
  BY FS_CardinalityType, IRQAssumption
<1>4. StackWords + 1 - Sp(s) <= 10 * N + 8
  BY <1>2, <1>3, StackLeft
<1>5. Sp(s) = reg[<<"usr", "sp">>][3]
  BY <1>1 DEF Sp, Usr, Interrupted
<1> QED
  BY <1>3, <1>4, <1>5 DEF StackFits

\* The invariant holds: every context in the history of exceptions is the one
\* that the routine above it interrupted, however FIQs and nested IRQs came
\* between the instructions of arm_exc.S.
THEOREM InvHolds == Roomy => (Spec => []Inv)
<1> SUFFICES ASSUME Roomy PROVE Spec => []Inv
  OBVIOUS
<1>1. Init => Inv
  BY InitInv
<1>2. Inv /\ [Next]_vars => Inv'
  BY NextInv
<1> QED
  BY <1>1, <1>2, PTL DEF Spec

\* StackFits: no nesting of ARM_irq, BSP_irq and ARM_fiq takes more than ten
\* words of the interrupted stack for every interrupt source and eight for an
\* FIQ, when the stack has them.
THEOREM StackFitsHolds == Roomy => (Spec => []StackFits)
<1>1. Inv => StackFits
  BY InvImpliesStackFits
<1> QED
  BY <1>1, InvHolds, PTL

-----------------------------------------------------------------------------
(* A return restores the context.                                          *)

\* The exception that runs keeps running, or its caller is resumed.
LEMMA Returns ==
  ASSUME Roomy, Inv, Execute, NEW d, d = Len(ghost)
  PROVE  ghost' = ghost \/ Len(ghost') = d \/ Resumes(ghost[d].exc, ghost[d].ctx, Interrupted')
<1>1. PICK h, c, s, t : h = ghost /\ c = h[d].ctx /\ s = Interrupted /\ t = Interrupted'
  OBVIOUS
<1>2. /\ d \in Nat \ {0} /\ d \in 1 .. d /\ Layers(h, d, s) /\ Layer(d, h[d], s) /\ Context(s) /\ Context(c)
      /\ Over(h, d, s, d) = s
  BY <1>1, Executes, Running
<1>3. h[d].exc \in {"irq", "fiq", "svc"}
  BY <1>2 DEF Layer
<1>4. CASE h[d].exc = "fiq"
  <2>1. FiqLayer(c, s) /\ Fits("fiq", c)
    BY <1>1, <1>2, <1>4, Room DEF Layer
  <2>2. PICK n \in Stages("fiq") : Interrupts("fiq", c, s, n)
    BY <2>1 DEF FiqLayer
  <2>3. CASE n = 33
    BY <1>1, <1>2, <1>4, <2>2, <2>3, Run33
  <2>4. CASE n # 33
    BY <1>1, <1>2, <2>1, <2>2, <2>4, FiqRuns DEF Quiet
  <2> QED
    BY <2>3, <2>4
<1>5. CASE h[d].exc = "svc"
  <2>1. SvcLayer(d, c, s) /\ d = 1
    BY <1>1, <1>2, <1>5 DEF Layer, SvcLayer
  <2>2. PICK n \in 1 .. 5 : Calls(c, s, n)
    BY <2>1 DEF SvcLayer
  <2>3. StackWords >= 6
    <3>1. PICK N \in Nat : N = Cardinality(IRQ)
      BY FS_CardinalityType, IRQAssumption
    <3> QED
      BY <3>1, StackAssumption DEF Roomy
  <2>4. MainOK(c)
    <3>1. Over(h, d, s, 0) = c
      BY <1>1, <2>1 DEF Over
    <3> QED
      BY <1>2, <3>1 DEF Layers
  <2>5. CASE n = 1
    BY <1>1, <1>2, <2>2, <2>3, <2>5, RunSvc1 DEF Quiet
  <2>6. CASE n \in 2 .. 4
    BY <1>1, <1>2, <2>2, <2>6, RunSvc DEF Quiet
  <2>7. CASE n = 5
    BY <1>1, <1>2, <1>5, <2>2, <2>3, <2>4, <2>7, RunSvc5
  <2> QED
    BY <2>5, <2>6, <2>7
<1>6. CASE h[d].exc = "irq"
  <2>1. IrqLayer(d, c, s) /\ Fits("irq", c)
    BY <1>1, <1>2, <1>6, Room DEF Layer
  <2>2. PICK n \in 1 .. 33 : Interrupts("irq", c, s, n)
    BY <2>1 DEF IrqLayer
  <2>3. CASE n = 33
    BY <1>1, <1>2, <1>6, <2>2, <2>3, Run33
  <2>4. CASE n = 15
    <3>1. ghost' = [ghost EXCEPT ![d].ctx.irq = goldfish_get_irq_num]
      BY <1>1, <1>2, <2>1, <2>2, <2>4, Run15
    <3>2. PICK w : w = [ghost[d] EXCEPT !.ctx.irq = goldfish_get_irq_num]
      OBVIOUS
    <3>3. ghost' = [ghost EXCEPT ![d] = w]
      BY <3>1, <3>2
    <3>4. PICK X : ghost \in Seq(X)
      BY Unfold
    <3>5. PICK Y : ghost \in Seq(Y) /\ w \in Y
      <4>1. ghost \in Seq(X \cup {w}) /\ w \in X \cup {w}
        BY <3>4
      <4> QED
        BY <4>1
    <3>6. Len(ghost') = d
      BY <1>1, <1>2, <3>3, <3>5, ExceptSeq
    <3> QED
      BY <3>6
  <2>5. CASE n \in {16, 18, 20}
    BY <1>1, <1>2, <2>2, <2>5, RunC
  <2>6. CASE n \notin {15, 16, 18, 20, 33}
    <3>1. n \in (1 .. 32) \ {15, 16, 18, 20}
      BY <2>6
    <3>2. Quiet
      BY <1>1, <1>2, <2>1, <2>2, <3>1, IrqRuns
    <3> QED
      BY <3>2 DEF Quiet
  <2> QED
    BY <2>3, <2>4, <2>5, <2>6
<1> QED
  BY <1>3, <1>4, <1>5, <1>6

\* Only an exception that returns shortens the history.
LEMMA Shortened ==
  ASSUME Roomy, Inv, [Next]_vars, Len(ghost') < Len(ghost), NEW d, d = Len(ghost)
  PROVE  Execute /\ Resumes(ghost[d].exc, ghost[d].ctx, Interrupted')
<1>1. PICK X : ghost \in Seq(X)
  BY Unfold
<1>2. d \in Nat
  BY Unfold
<1>3. ~(d < d) /\ ~(d + 1 < d)
  BY <1>2
<1>4. ghost' # ghost /\ Len(ghost') # d /\ Len(ghost') # d + 1
  BY <1>3
<1>5. ASSUME NEW e PROVE ghost' # Append(ghost, e)
  <2>1. ghost \in Seq(X \cup {e}) /\ e \in X \cup {e}
    BY <1>1
  <2>2. Len(Append(ghost, e)) = d + 1
    BY <2>1, AppendProperties
  <2> QED
    BY <1>4, <2>2
<1>6. ~Device
  BY <1>4 DEF Device, Raise
<1>7. ~Main
  BY <1>4, <1>5 DEF Main, IntLock, IntUnlock, EnterUserMode, SystemCall, MainUnmask, MainMask
<1>8. ~Exception
  BY <1>5 DEF Exception, TakeIrq, TakeFiq, Take
<1>9. ~UNCHANGED vars
  BY <1>4 DEF vars
<1>10. Execute
  BY <1>6, <1>7, <1>8, <1>9 DEF Next
<1> QED
  BY <1>4, <1>10, Returns

\* A step that ends an exception restores the context it interrupted.
LEMMA StepRestores ==
  ASSUME Roomy, Inv, [Next]_vars, Len(ghost') < Len(ghost)
  PROVE  LET g == ghost[Len(ghost)]
         IN  /\ pc' = g.ctx.pc
             /\ cpu' = g.ctx.cpu
             /\ \A r \in RegName \ Scratch(g.exc) : reg'[r] = g.ctx.reg[r]
             /\ \A a \in Live(g.ctx) : mem'[a] = g.ctx.mem[a]
<1>1. PICK d, e, c, t : d = Len(ghost) /\ e = ghost[d].exc /\ c = ghost[d].ctx /\ t = Interrupted'
  OBVIOUS
<1>2. Resumes(e, c, t)
  BY <1>1, Shortened
<1>3. t.pc = pc' /\ t.cpu = cpu' /\ t.reg = reg' /\ t.mem = mem'
  BY <1>1 DEF Interrupted
<1>4. pc' = c.pc /\ cpu' = c.cpu /\ \A r \in RegName \ Scratch(e) : reg'[r] = c.reg[r]
  BY <1>2, <1>3 DEF Resumes
<1>5. \A a \in Live(c) : mem'[a] = c.mem[a]
  BY <1>2, <1>3 DEF Resumes, Live, Sp, Usr
<1> QED
  BY <1>1, <1>4, <1>5

\* ContextRestored: when ARM_irq, ARM_fiq or ARM_swi returns, the program it
\* interrupted finds its address, CPSR, registers and stack as they were,
\* whatever exceptions came in between, when the stack has room for them.
THEOREM ContextRestoredHolds == Roomy => (Spec => ContextRestored)
<1> SUFFICES ASSUME Roomy PROVE Spec => ContextRestored
  OBVIOUS
<1>1. Inv /\ [Next]_vars =>
        (Len(ghost') < Len(ghost) =>
           LET g == ghost[Len(ghost)]
           IN  /\ pc' = g.ctx.pc
               /\ cpu' = g.ctx.cpu
               /\ \A r \in RegName \ Scratch(g.exc) : reg'[r] = g.ctx.reg[r]
               /\ \A a \in Live(g.ctx) : mem'[a] = g.ctx.mem[a])
  BY StepRestores
<1> QED
  BY <1>1, InvHolds, PTL DEF Spec, ContextRestored
=============================================================================
