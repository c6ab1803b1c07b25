------------------------------- MODULE Startup ------------------------------
(***************************************************************************)
(* The memory image and the stack pointers that startup code leaves to     *)
(* main: ResetISR (c05/c05e2/startup.S, and the same in c05e1), which      *)
(* counts bytes down, and _reset (drivers/startup.S), which moves words    *)
(* while the pointer is below the end.  Interrupts are masked throughout.  *)
(* A pass is one of their loops; a step is one turn of it.                 *)
(*                                                                         *)
(* Sections begin on word boundaries.  Their sizes are chosen at the start *)
(* and need not be whole words, except that the linker scripts of c05 let  *)
(* the stacks begin where .bss ends.                                       *)
(***************************************************************************)
EXTENDS Integers, Sequences, FiniteSets

CONSTANTS
  Word,              \* bytes of a word
  DataSizes, BssSizes, CodeSizes,
  StackSize,         \* bytes of each mode's stack
  Top                \* addresses are 0 .. Top - 1, registers count modulo Top

ASSUME StartupAssumption ==
  /\ Word \in Nat \ {0} /\ StackSize \in Nat \ {0} /\ StackSize % Word = 0
  /\ Top \in Nat /\ Top % Word = 0
  /\ DataSizes \cup BssSizes \cup CodeSizes \subseteq Nat

Modes == <<"IRQ", "FIQ", "SVC", "ABT", "UND", "SYS">>     \* as their stacks lie, and are set
ModeSet == {Modes[i] : i \in DOMAIN Modes}
Garbage == -1
FILL == -2                 \* a byte of STACK_FILL

VARIABLES
  program, size,     \* which code; the sizes of the sections
  mem,
  pass,              \* the number of the loop, or of the mode when the loops are done
  pc, r0, r1, r2,    \* source, pointer, and end or count
  mode, sp           \* the mode, and each mode's stack pointer

vars == <<program, size, mem, pass, pc, r0, r1, r2, mode, sp>>

-----------------------------------------------------------------------------
(* The linker's symbols. *)
Align(a) == ((a + Word - 1) \div Word) * Word

\* The linker refuses a program whose sections and stacks do not fit the memory.
ASSUME LayoutAssumption ==
  \A c \in CodeSizes, d \in DataSizes, b \in BssSizes :
    Word + Align(c) + Align(d) + Align(b) + Len(Modes) * StackSize <= Top

code_start == Word                       \* a word below belongs to others
data_start == code_start + Align(size.code)
bss_start == data_start + Align(size.data)
stack_start == bss_start + (IF program = "ResetISR" THEN size.bss ELSE Align(size.bss))
stack_end == stack_start + Len(Modes) * StackSize
\* The stacks are of one size here; c05e2.ld:28-33 makes the C stack larger.
stack_top(i) == stack_start + i * StackSize

\* The byte of the load image for address a; the image follows the code in ROM.
Rom(a) == a + 1

Loop(op, style, unit, from, to) == [op |-> op, style |-> style, unit |-> unit, from |-> from, to |-> to]

ResetISR ==                \* _edata is where .bss begins, _ebss where the stacks do
  << Loop("copy", "count", 1, data_start, bss_start),
     Loop("zero", "count", 1, bss_start, stack_start),
     Loop("fill", "less", Word, stack_start, stack_end) >>

_reset ==
  << Loop("copy", "less", Word, code_start, code_start + size.code),
     Loop("copy", "less", Word, data_start, data_start + size.data),
     Loop("zero", "less", Word, bss_start, bss_start + size.bss),
     Loop("fill", "less", Word, stack_start, stack_end) >>

Passes == IF program = "ResetISR" THEN ResetISR ELSE _reset

-----------------------------------------------------------------------------
Init ==
  /\ program \in {"ResetISR", "_reset"}
  /\ size \in [code : CodeSizes, data : DataSizes, bss : BssSizes]
  /\ program = "ResetISR" => size.code = 0 /\ size.bss % Word = 0
  /\ mem = [a \in 0 .. Top - 1 |-> Garbage]
  /\ pass = 1 /\ pc = "load" /\ r0 = 0 /\ r1 = 0 /\ r2 = 0
  /\ mode = "SVC"
  /\ sp = [m \in ModeSet |-> IF program = "_reset" /\ m = "SVC" THEN stack_end ELSE 0]

NextPass == IF pass = Len(Passes) THEN pc' = "modes" /\ pass' = 1
            ELSE pc' = "load" /\ pass' = pass + 1

SkipMutant(l) == FALSE     \* Mutant: an empty section is not skipped.
Skip(l) == l.style = "count" /\ l.to - l.from = 0

\* The registers are loaded; ResetISR skips a section of no bytes.
Load ==
  /\ pc = "load"
  /\ LET l == Passes[pass]
     IN  /\ r0' = l.from /\ r1' = l.from
         /\ r2' = IF l.style = "count" THEN l.to - l.from ELSE l.to
         /\ IF Skip(l) THEN NextPass ELSE pc' = "loop" /\ UNCHANGED pass
  /\ UNCHANGED <<program, size, mem, mode, sp>>

\* One unit at r1: a byte or a word, read at r0 and stored, or stored from a register.
Store(l) ==
  mem' = [a \in 0 .. Top - 1 |->
            IF a \in r1 .. (r1 + l.unit - 1)
            THEN CASE l.op = "copy" -> Rom(r0 + (a - r1)) [] l.op = "zero" -> 0 [] l.op = "fill" -> FILL
            ELSE mem[a]]

Count ==                   \* ldrb, strb, subs, bne
  /\ pc = "loop" /\ Passes[pass].style = "count"
  /\ Store(Passes[pass])
  /\ r0' = r0 + 1 /\ r1' = (r1 + 1) % Top /\ r2' = (r2 - 1) % Top
  /\ IF r2' # 0 THEN UNCHANGED <<pc, pass>> ELSE NextPass
  /\ UNCHANGED <<program, size, mode, sp>>

Test == r1 < r2            \* CMP r1,r2 and LT

StepMutant(l) == 0         \* Mutant: STM without writeback.
Step(l) == l.unit

Less ==                    \* CMP, LDMLTIA, STMLTIA, BLT
  /\ pc = "loop" /\ Passes[pass].style = "less"
  /\ IF Test
     THEN Store(Passes[pass]) /\ r0' = r0 + Step(Passes[pass]) /\ r1' = r1 + Step(Passes[pass])
          /\ UNCHANGED <<pc, pass>>
     ELSE NextPass /\ UNCHANGED <<mem, r0, r1>>
  /\ UNCHANGED <<program, size, r2, mode, sp>>

SetModeMutant ==           \* Mutant: the mode is left as it is for the second stack.
  /\ pc = "modes" /\ pass <= Len(Modes)
  /\ mode' = IF pass = 2 THEN mode ELSE Modes[pass]
  /\ sp' = [sp EXCEPT ![mode'] = stack_top(pass)]
  /\ pass' = pass + 1
  /\ UNCHANGED <<program, size, mem, pc, r0, r1, r2>>

SetMode ==                 \* MSR CPSR_c and LDR sp, with I and F set
  /\ pc = "modes" /\ pass <= Len(Modes)
  /\ mode' = Modes[pass]
  /\ sp' = [sp EXCEPT ![mode'] = stack_top(pass)]
  /\ pass' = pass + 1
  /\ UNCHANGED <<program, size, mem, pc, r0, r1, r2>>

CallMain ==
  /\ pc = "modes" /\ pass = Len(Modes) + 1
  /\ pc' = "main"
  /\ UNCHANGED <<program, size, mem, pass, r0, r1, r2, mode, sp>>

Main == pc = "main" /\ UNCHANGED vars

Next == Load \/ Count \/ Less \/ SetMode \/ CallMain \/ Main
Spec == Init /\ [][Next]_vars /\ WF_vars(Next)

-----------------------------------------------------------------------------
(* Properties. *)

\* What main finds: code and initialised data as linked, .bss all zero, the stacks
\* filled, and nothing written anywhere else but in the padding behind a section,
\* for sections of any size, empty ones too.
ImageRight ==
  pc = "main" =>
    /\ \A a \in code_start .. (code_start + size.code - 1) \cup data_start .. (data_start + size.data - 1) :
         mem[a] = Rom(a)
    /\ \A a \in bss_start .. (bss_start + size.bss - 1) : mem[a] = 0
    /\ \A a \in stack_start .. (stack_end - 1) : mem[a] = FILL
    /\ \A a \in 0 .. (code_start - 1) \cup stack_end .. (Top - 1) : mem[a] = Garbage

\* main runs in system mode, and every mode has a stack of its own inside the
\* filled memory: as deep as its size, no two reach the same byte, none reaches .bss.
StacksApart ==
  pc = "main" =>
    /\ mode = "SYS"
    /\ \A m \in ModeSet : sp[m] \in (stack_start + StackSize) .. stack_end
    /\ \A m, k \in ModeSet : m # k => sp[m] <= sp[k] - StackSize \/ sp[k] <= sp[m] - StackSize

-----------------------------------------------------------------------------
(* The inductive invariant behind them. *)
TypeOK ==
  /\ program \in {"ResetISR", "_reset"}
  /\ size \in [code : CodeSizes, data : DataSizes, bss : BssSizes]
  /\ program = "ResetISR" => size.code = 0 /\ size.bss % Word = 0
  /\ pc \in {"load", "loop", "modes", "main"}
  /\ pass \in CASE pc \in {"load", "loop"} -> DOMAIN Passes
               [] pc = "modes" -> 1 .. Len(Modes) + 1
               [] pc = "main" -> {Len(Modes) + 1}
  /\ mode \in ModeSet /\ DOMAIN sp = ModeSet /\ DOMAIN mem = 0 .. Top - 1

\* Where the pointer stands after loop l, and what l leaves at address a.
End(l) == IF l.style = "count" THEN l.to ELSE l.from + Align(l.to - l.from)
Value(l, a) == CASE l.op = "copy" -> Rom(a) [] l.op = "zero" -> 0 [] l.op = "fill" -> FILL

\* Source and pointer go together, in whole units, and never beyond the loop's end.
Registers(l) ==
  /\ r1 \in Nat /\ r0 = r1 /\ l.from <= r1
  /\ IF l.style = "count" THEN r1 < l.to /\ r2 = l.to - r1
     ELSE r2 = l.to /\ r1 <= End(l) /\ (r1 - l.from) % Word = 0

\* Loops go upwards through memory: what is below the pointer is as it will be,
\* what is above it has not been touched.
Reached == IF pc = "load" THEN Passes[pass].from ELSE IF pc = "loop" THEN r1 ELSE stack_end
MemoryRight(x) ==
  \A a \in 0 .. Top - 1 :
    /\ a < code_start \/ a >= x => mem[a] = Garbage
    /\ \A p \in DOMAIN Passes :
         a \in Passes[p].from .. (Passes[p].to - 1) /\ a < x => mem[a] = Value(Passes[p], a)

StacksSet ==
  pc \in {"modes", "main"} =>
    /\ \A j \in 1 .. (pass - 1) : sp[Modes[j]] = stack_top(j)
    /\ pass > 1 => mode = Modes[pass - 1]

\* The invariant of the loops: at every turn memory is right up to the pointer and
\* untouched beyond it, and the stacks set so far are the tops of their areas.
Inv ==
  /\ TypeOK
  /\ pc = "loop" => Registers(Passes[pass])
  /\ MemoryRight(Reached)
  /\ StacksSet

\* Every loop ends, and main is called.
ReachesMain == <>(pc = "main")
=============================================================================
