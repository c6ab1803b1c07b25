------------------------------- MODULE ArmExc -------------------------------
(***************************************************************************)
(* The exception code of drivers/arm_exc.S, one instruction per step:      *)
(* ARM_irq, ARM_fiq and ARM_swi, with BSP_irq as the C function ARM_irq    *)
(* calls.  The routines are programs for a small interpreter of the ARM    *)
(* instructions they use, over a register file with banked registers, a    *)
(* CPSR and the stacks.                                                    *)
(*                                                                         *)
(* ARM_irq builds its frame on the stack of the interrupted program, with  *)
(* FIQ enabled, switching between IRQ and SYSTEM mode while the frame is   *)
(* half built.  An FIQ may come before any instruction that runs with      *)
(* CPSR.F clear, and further IRQs while BSP_irq has CPSR.I clear.          *)
(***************************************************************************)
EXTENDS Integers, Sequences, FiniteSets

CONSTANTS
  IRQ,          \* the interrupt numbers of the controller
  StackWords    \* size of a stack, in words

ASSUME IRQAssumption == IRQ \subseteq Nat \ {0} /\ IsFiniteSet(IRQ)
ASSUME StackAssumption == StackWords \in Nat

VARIABLES
  line, enabled, wanted,  \* devices, controller mask and main's own mask (BspIrq)
  cpu,       \* CPSR: mode, I and F
  pc,        \* address of the next instruction
  reg,       \* the register file, banked registers included
  mem,       \* the SYS stack and the SVC stack
  ghost      \* history: the contexts that exceptions interrupted

vars == <<line, enabled, wanted, cpu, pc, reg, mem, ghost>>

-----------------------------------------------------------------------------
(* Words, registers and memory. *)

Code(routine, n) == <<"code", routine, n>>      \* an instruction's address
Psr(c) == <<"psr", c.mode, c.I, c.F>>
Addr(stack, n) == <<"addr", stack, n>>          \* a word of a stack
Number(i) == <<"int", i>>
Junk == <<"junk">>                              \* what nobody may rely on

UserRegs == {"r0", "r1", "r2", "r3", "r12", "lr", "sp"}

Banked(mode) ==
  CASE mode = "fiq" -> {"r12", "sp", "lr", "spsr"}
    [] mode \in {"irq", "svc"} -> {"sp", "lr", "spsr"}
    [] OTHER -> {}

ExcMode == {"irq", "fiq", "svc"}
RegName == ({"usr"} \X UserRegs) \cup UNION {{m} \X Banked(m) : m \in ExcMode}

\* The physical register that an instruction names in the current mode.
Phys(r) == <<IF r \in Banked(cpu.mode) THEN cpu.mode ELSE "usr", r>>
Get(r) == reg[Phys(r)]

Cell == {"sys", "svc"} \X (1 .. StackWords)
Offset(a, n) == Addr(a[2], a[3] + n)
Load(a) == mem[<<a[2], a[3]>>]

-----------------------------------------------------------------------------
(* Instructions. *)

Mov(d, s) == [op |-> "mov", d |-> d, s |-> s]
SubLr4(d) == [op |-> "subLr4", d |-> d]                 \* SUB d,lr,#4
Mrs(d) == [op |-> "mrs", d |-> d]                       \* MRS d,spsr
Msr(m, i, f) == [op |-> "msr", c |-> [mode |-> m, I |-> i, F |-> f]]
Stmfd(b, list) == [op |-> "stmfd", b |-> b, list |-> list]
AddSp(n) == [op |-> "addSp", n |-> n]
Ldr(d, n) == [op |-> "ldr", d |-> d, n |-> n]           \* LDR d,[sp,#4n]
MsrSpsr(s) == [op |-> "msrSpsr", s |-> s]
LdmUser(list) == [op |-> "ldmUser", list |-> list]      \* LDMFD sp,list^
Call(f) == [op |-> "call", f |-> f]
Ret == [op |-> "ret"]                                   \* APCS return
MovsPc == [op |-> "movsPc"]                             \* MOVS pc,lr
C(step) == [op |-> "c", step |-> step]                  \* a statement in C

\* Mutant: room for r0 and r1 is made only after they are stored.
EntryMutant(m, f, handler) ==
  << Mov("sp", "r0"), SubLr4("r0"), Mov("lr", "r1"), Mrs("r1"),
     Msr("sys", TRUE, f), Stmfd("sp", <<"r0", "r1">>),
     Stmfd("sp", <<"r2", "r3", "r12", "lr">>), Mov("r0", "sp"),
     Msr(m, TRUE, f), Stmfd("r0", <<"sp", "lr">>),
     Msr("sys", TRUE, f), AddSp(-2), Call(handler) >>

\* ARM_irq and ARM_fiq up to the call: m is the exception's mode, f whether
\* FIQ stays disabled.
Entry(m, f, handler) ==
  << Mov("sp", "r0"), SubLr4("r0"), Mov("lr", "r1"), Mrs("r1"),
     Msr("sys", TRUE, f), Stmfd("sp", <<"r0", "r1">>),
     Stmfd("sp", <<"r2", "r3", "r12", "lr">>), Mov("r0", "sp"), AddSp(-2),
     Msr(m, TRUE, f), Stmfd("r0", <<"sp", "lr">>),
     Msr("sys", TRUE, f), Call(handler) >>

\* ARM_irq and ARM_fiq after the call.
Exit(m) ==
  << Msr("sys", TRUE, TRUE), Mov("r0", "sp"), AddSp(8),
     Msr(m, TRUE, TRUE), Mov("sp", "r0"), Ldr("r0", 7), MsrSpsr("r0"),
     LdmUser(<<"r0", "r1", "r2", "r3", "r12", "lr">>), Ldr("lr", 6), MovsPc >>

ARM_irq == Entry("irq", FALSE, "BSP_irq") \o Exit("irq")
ARM_fiq == Entry("fiq", TRUE, "BSP_fiq") \o Tail(Exit("fiq"))   \* exit starts at MOV

\* Registers r4-r11, which no routine here touches, are left out of the list, and so are
\* the loads of the call's number and arguments from its frame (arm_exc.S:189-191), which
\* sw_handler only prints.
SwiList == <<"r0", "r1", "r2", "r3", "r12", "lr">>
ARM_swi == << Stmfd("sp", SwiList), Call("sw_handler"), C("restore") >>

BSP_irqMutant ==      \* Mutant: the number is unmasked before CPSR.I is set.
  << Stmfd("sp", <<"r0", "lr">>), C("num"), C("mask"), Msr("sys", FALSE, FALSE),
     C("handler"), C("unmask"), Msr("sys", TRUE, FALSE), Ldr("lr", 1), AddSp(2), Ret >>

\* BSP_irq as compiled: `irq' and the return address live on the stack.
BSP_irq ==
  << Stmfd("sp", <<"r0", "lr">>), C("num"), C("mask"), Msr("sys", FALSE, FALSE),
     C("handler"), Msr("sys", TRUE, FALSE), C("unmask"), Ldr("lr", 1), AddSp(2), Ret >>
BSP_fiq == << Ret >>
sw_handler == << C("body"), Ret >>

Program ==
  [ARM_irq |-> ARM_irq, ARM_fiq |-> ARM_fiq, ARM_swi |-> ARM_swi,
   BSP_irq |-> BSP_irq, BSP_fiq |-> BSP_fiq, sw_handler |-> sw_handler]

-----------------------------------------------------------------------------
Pending == line \cap enabled
IrqTaken == ~cpu.I /\ Pending # {}
goldfish_get_irq_num ==
  IF Pending = {} THEN 0 ELSE CHOOSE i \in Pending : \A j \in Pending : i <= j

MainAddr == Code("main", 1)

Init ==
  /\ line = {} /\ enabled = {} /\ wanted = {}
  /\ cpu = [mode |-> "sys", I |-> TRUE, F |-> TRUE]
  /\ pc = MainAddr
  /\ reg = [r \in RegName |-> CASE r = <<"usr", "sp">> -> Addr("sys", StackWords + 1)
                                [] r = <<"svc", "sp">> -> Addr("svc", StackWords + 1)
                                [] r[1] = "usr" /\ r[2] # "sp" -> <<"data", r[2]>>
                                [] OTHER -> Junk]
  /\ mem = [a \in Cell |-> Junk]
  /\ ghost = <<>>

-----------------------------------------------------------------------------
(* Devices, and main between exceptions. *)
Raise(i) ==
  /\ i \notin line
  /\ line' = line \cup {i}
  /\ UNCHANGED <<enabled, wanted, cpu, pc, reg, mem, ghost>>

Foreground == ghost = <<>> /\ ~IrqTaken

IntLock ==
  /\ Foreground /\ cpu.mode = "sys"
  /\ cpu' = [mode |-> "sys", I |-> TRUE, F |-> TRUE]
  /\ UNCHANGED <<line, enabled, wanted, pc, reg, mem, ghost>>

IntUnlock(key) ==
  /\ Foreground /\ cpu.mode = "sys"
  /\ cpu' = [mode |-> "sys", I |-> key, F |-> key]
  /\ UNCHANGED <<line, enabled, wanted, pc, reg, mem, ghost>>

EnterUserMode ==
  /\ Foreground /\ cpu.mode = "sys"
  /\ cpu' = [cpu EXCEPT !.mode = "usr"]
  /\ UNCHANGED <<line, enabled, wanted, pc, reg, mem, ghost>>

MainUnmask(i) ==
  /\ Foreground
  /\ enabled' = enabled \cup {i} /\ wanted' = wanted \cup {i}
  /\ UNCHANGED <<line, cpu, pc, reg, mem, ghost>>

MainMask(i) ==
  /\ Foreground
  /\ enabled' = enabled \ {i} /\ wanted' = wanted \ {i}
  /\ UNCHANGED <<line, cpu, pc, reg, mem, ghost>>

-----------------------------------------------------------------------------
(* Exceptions: the hardware banks the CPSR and the return address, and the *)
(* vector installed by low_level_init leads to the routine.                *)

Interrupted == [pc |-> pc, cpu |-> cpu, reg |-> reg, mem |-> mem, irq |-> 0]

Take(mode, f, lr, routine) ==
  /\ ghost' = Append(ghost, [exc |-> mode, ctx |-> Interrupted])
  /\ reg' = [reg EXCEPT ![<<mode, "lr">>] = lr, ![<<mode, "spsr">>] = Psr(cpu)]
  /\ cpu' = [mode |-> mode, I |-> TRUE, F |-> f]
  /\ pc' = Code(routine, 1)
  /\ UNCHANGED <<line, enabled, wanted, mem>>

Next4 == Code(pc[2], pc[3] + 1)     \* pc + 4

TakeIrq == IrqTaken /\ Take("irq", cpu.F, Next4, "ARM_irq")
TakeFiq == ~cpu.F /\ Take("fiq", TRUE, Next4, "ARM_fiq")

\* SystemCall: the SWI instruction in main; it returns after the instruction.
SystemCall ==
  /\ Foreground
  /\ ghost' = Append(ghost, [exc |-> "svc", ctx |-> [Interrupted EXCEPT !.pc = MainAddr]])
  /\ reg' = [reg EXCEPT ![<<"svc", "lr">>] = MainAddr, ![<<"svc", "spsr">>] = Psr(cpu)]
  /\ cpu' = [mode |-> "svc", I |-> TRUE, F |-> cpu.F]
  /\ pc' = Code("ARM_swi", 1)
  /\ UNCHANGED <<line, enabled, wanted, mem>>

-----------------------------------------------------------------------------
(* Execution of one instruction of the routines above. *)

Instr == Program[pc[2]][pc[3]]
Fetch(op) == ghost # <<>> /\ ~IrqTaken /\ Instr.op = op
Advance == pc' = Next4
Set(r, w) == reg' = [reg EXCEPT ![Phys(r)] = w]
Devices == <<line, enabled, wanted>>

ExecMove ==           \* MOV, SUB d,lr,#4, MRS, MSR spsr, LDR, ADD/SUB sp
  /\ \/ Fetch("mov") /\ Set(Instr.d, Get(Instr.s))
     \/ Fetch("subLr4") /\ Set(Instr.d, Code(Get("lr")[2], Get("lr")[3] - 1))
     \/ Fetch("mrs") /\ Set(Instr.d, Get("spsr"))
     \/ Fetch("msrSpsr") /\ Set("spsr", Get(Instr.s))
     \/ Fetch("ldr") /\ Set(Instr.d, Load(Offset(Get("sp"), Instr.n)))
     \/ Fetch("addSp") /\ Set("sp", Offset(Get("sp"), Instr.n))
  /\ Advance
  /\ UNCHANGED <<line, enabled, wanted, cpu, mem, ghost>>

ExecMsr ==
  /\ Fetch("msr")
  /\ cpu' = Instr.c
  /\ Advance
  /\ UNCHANGED <<line, enabled, wanted, reg, mem, ghost>>

ExecStmfd ==          \* the lowest register goes to the lowest address
  /\ Fetch("stmfd")
  /\ LET list == Instr.list
         low == Offset(Get(Instr.b), -Len(list))
     IN  /\ mem' = [a \in Cell |->
                      IF a[1] = low[2] /\ a[2] - low[3] + 1 \in DOMAIN list
                      THEN Get(list[a[2] - low[3] + 1]) ELSE mem[a]]
         /\ Set(Instr.b, low)
  /\ Advance
  /\ UNCHANGED <<line, enabled, wanted, cpu, ghost>>

\* The registers of `list' in the user bank, loaded from the words at sp.
Unstacked(list) ==
  [r \in RegName |->
     IF r[1] = "usr" /\ \E k \in DOMAIN list : list[k] = r[2]
     THEN Load(Offset(Get("sp"), (CHOOSE k \in DOMAIN list : list[k] = r[2]) - 1))
     ELSE reg[r]]

ExecLdmUser ==
  /\ Fetch("ldmUser")
  /\ reg' = Unstacked(Instr.list)
  /\ Advance
  /\ UNCHANGED <<line, enabled, wanted, cpu, mem, ghost>>

ExecCall ==           \* LDR r12,=f; MOV lr,pc; BX r12, as one instruction
  /\ Fetch("call")
  /\ reg' = [reg EXCEPT ![Phys("r12")] = Code(Instr.f, 1), ![Phys("lr")] = Next4]
  /\ pc' = Code(Instr.f, 1)
  /\ UNCHANGED <<line, enabled, wanted, cpu, mem, ghost>>

ExecRet ==
  /\ Fetch("ret")
  /\ pc' = Get("lr")
  /\ UNCHANGED <<line, enabled, wanted, cpu, reg, mem, ghost>>

\* Leaving an exception: words below sp and the exception's own scratch
\* registers are dead.
LeaveTo(w, regs, sysSp, own) ==
  /\ cpu' = [mode |-> w[2], I |-> w[3], F |-> w[4]]
  /\ reg' = [r \in RegName |-> IF r \in own THEN Junk ELSE regs[r]]
  /\ mem' = [a \in Cell |-> IF a[1] = "sys" /\ a[2] < sysSp THEN Junk ELSE mem[a]]
  /\ ghost' = SubSeq(ghost, 1, Len(ghost) - 1)
  /\ UNCHANGED Devices

ExecMovsPc ==
  /\ Fetch("movsPc")
  /\ pc' = Get("lr")
  /\ LeaveTo(Get("spsr"), reg, reg[<<"usr", "sp">>][3], {cpu.mode} \X Banked(cpu.mode))

-----------------------------------------------------------------------------
(* The statements of the C functions; they may clobber r0-r3 and r12. *)

Clobbered(regs) ==
  [r \in RegName |-> IF r[1] = "usr" /\ r[2] \in {"r0", "r1", "r2", "r3", "r12"}
                     THEN Junk ELSE regs[r]]
FetchC(step) == Fetch("c") /\ Instr.step = step
LocalIrq == Load(Get("sp"))[2]      \* the local variable `irq' of BSP_irq

ReadNum ==
  /\ FetchC("num")
  /\ mem' = [mem EXCEPT ![<<"sys", Get("sp")[3]>>] = Number(goldfish_get_irq_num)]
  /\ ghost' = [ghost EXCEPT ![Len(ghost)].ctx.irq = goldfish_get_irq_num]
  /\ reg' = Clobbered(reg)
  /\ Advance
  /\ UNCHANGED <<line, enabled, wanted, cpu>>

MaskIrq ==
  /\ FetchC("mask")
  /\ enabled' = enabled \ {LocalIrq}
  /\ reg' = Clobbered(reg)
  /\ Advance
  /\ UNCHANGED <<line, wanted, cpu, mem, ghost>>

irq_handler ==
  /\ FetchC("handler")
  /\ line' = line \ {LocalIrq}
  /\ reg' = Clobbered(reg)
  /\ Advance
  /\ UNCHANGED <<enabled, wanted, cpu, mem, ghost>>

UnmaskIrq ==
  /\ FetchC("unmask")
  /\ enabled' = enabled \cup {LocalIrq}
  /\ reg' = Clobbered(reg)
  /\ Advance
  /\ UNCHANGED <<line, wanted, cpu, mem, ghost>>

SwHandler ==
  /\ FetchC("body")
  /\ reg' = Clobbered(reg)
  /\ Advance
  /\ UNCHANGED <<line, enabled, wanted, cpu, mem, ghost>>

SwiRestore ==         \* LDMFD sp!,{r0-r12,pc}^: registers, pc and CPSR at once
  /\ FetchC("restore")
  /\ LET sp == Get("sp")
         regs == [Unstacked(SubSeq(SwiList, 1, Len(SwiList) - 1))
                    EXCEPT ![<<"svc", "sp">>] = Offset(sp, Len(SwiList))]
     IN  /\ pc' = Load(Offset(sp, Len(SwiList) - 1))
         /\ LeaveTo(Get("spsr"), regs, reg[<<"usr", "sp">>][3], {"svc"} \X {"lr", "spsr"})

-----------------------------------------------------------------------------
Device == \E i \in IRQ : Raise(i)
Main ==
  \/ IntLock
  \/ \E key \in BOOLEAN : IntUnlock(key)
  \/ EnterUserMode
  \/ SystemCall
  \/ \E i \in IRQ : MainUnmask(i) \/ MainMask(i)
Exception == TakeIrq \/ TakeFiq
Execute ==
  \/ ExecMove \/ ExecMsr \/ ExecStmfd \/ ExecLdmUser \/ ExecCall \/ ExecRet \/ ExecMovsPc
  \/ ReadNum \/ MaskIrq \/ irq_handler \/ UnmaskIrq \/ SwHandler \/ SwiRestore

Next == Device \/ Main \/ Exception \/ Execute

Spec == Init /\ [][Next]_vars

-----------------------------------------------------------------------------
(* Properties. *)

\* Registers an exception may leave changed: its own banked scratch registers
\* and those of FIQ mode, which are dead outside ARM_fiq.
Scratch(exc) == ({exc} \X (Banked(exc) \ (IF exc = "svc" THEN {"sp"} ELSE {})))
                  \cup ({"fiq"} \X Banked("fiq"))

Live(ctx) == {a \in Cell : a[1] = "sys" /\ a[2] >= ctx.reg[<<"usr", "sp">>][3]}

\* ARM_irq, ARM_fiq and ARM_swi are transparent: when one returns, the program
\* it interrupted (main, an IRQ's entry or exit code half way through its mode
\* switches, a nested handler) finds its address, CPSR, registers and stack as
\* they were, whatever FIQs and IRQs came in between.
ContextRestored ==
  [][Len(ghost') < Len(ghost) =>
       LET g == ghost[Len(ghost)]
       IN  /\ pc' = g.ctx.pc
           /\ cpu' = g.ctx.cpu
           /\ \A r \in RegName \ Scratch(g.exc) : reg'[r] = g.ctx.reg[r]
           /\ \A a \in Live(g.ctx) : mem'[a] = g.ctx.mem[a]]_vars

\* No nesting of exceptions takes more of the interrupted program's stack than
\* a context and BSP_irq's two words for every interrupt source and one
\* context for an FIQ.
StackFits ==
  StackWords + 1 - reg[<<"usr", "sp">>][3] <= 10 * Cardinality(IRQ) + 8

(***************************************************************************)
(* Refinement: with entry and exit code as one step each and FIQs and SWIs *)
(* as stuttering, this is BspIrq.                                          *)
(***************************************************************************)
Transparent(exc) == exc \in {"fiq", "svc"}
Activations == SelectSeq([k \in DOMAIN ghost |-> k], LAMBDA k : ~Transparent(ghost[k].exc))

\* The instruction that the code running above context k is at.
At(k) == IF k = Len(ghost) THEN pc ELSE ghost[k + 1].ctx.pc

AbsPC(a) ==
  CASE a[2] = "ARM_irq" -> IF a[3] <= Len(Entry("irq", FALSE, "BSP_irq")) THEN "num" ELSE "exit"
    [] a[2] = "BSP_irq" ->
         <<"num", "num", "mask", "unlock", "handler", "lock", "unmask", "exit", "exit", "exit">>[a[3]]

AbsFrame(k) ==
  [pc |-> AbsPC(At(k)), irq |-> ghost[k].ctx.irq, spsr |-> ghost[k].ctx.cpu.I]

\* CPSR as the foreground or the newest activation of BSP_irq sees it.
AbsCpu ==
  IF ghost # <<>> /\ Transparent(ghost[Len(ghost)].exc)
  THEN ghost[IF Len(ghost) > 1 /\ Transparent(ghost[Len(ghost) - 1].exc)
             THEN Len(ghost) - 1 ELSE Len(ghost)].ctx.cpu
  ELSE cpu
AbsUser == (IF ghost = <<>> THEN cpu ELSE ghost[1].ctx.cpu).mode = "usr"

B == INSTANCE BspIrq WITH
       irqOff <- AbsCpu.I, user <- AbsUser,
       frames <- [k \in 1 .. Len(Activations) |-> AbsFrame(Activations[k])]

\* The instructions implement the nested dispatch of BspIrq: in particular
\* BSP_irq's `irq' on the shared stack is the number it read.
ImplementsBspIrq == B!Spec
=============================================================================
