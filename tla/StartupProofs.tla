---------------------------- MODULE StartupProofs ---------------------------
(***************************************************************************)
(* The memory image and the stacks of Startup for sections and stacks of   *)
(* any sizes that fit the memory.                                          *)
(***************************************************************************)
EXTENDS Startup, TLAPS

-----------------------------------------------------------------------------
(* Words. *)

LEMMA Constants ==
  /\ Word \in Nat /\ Word >= 1 /\ StackSize \in Nat /\ StackSize >= 1 /\ StackSize % Word = 0
  /\ Top \in Nat
BY StartupAssumption

\* A register below the top of memory is left alone by counting modulo it.
LEMMA NoWrap ==
  ASSUME NEW x \in Nat, x < Top
  PROVE  x % Top = x
BY Constants

\* Quotient and remainder by a word.
LEMMA WordDivision ==
  ASSUME NEW x \in Nat
  PROVE  /\ x \div Word \in Nat /\ x % Word \in 0 .. Word - 1
         /\ x = (x \div Word) * Word + (x % Word)
  BY Constants

\* Multiples of a word are ordered as their factors.
LEMMA WordOrder ==
  ASSUME NEW a \in Nat, NEW b \in Nat, a <= b
  PROVE  a * Word <= b * Word /\ a * Word \in Nat /\ b * Word \in Nat
  BY Constants

\* A multiple of a word is divided without remainder.
LEMMA WordMultiple ==
  ASSUME NEW k \in Nat
  PROVE  (k * Word) % Word = 0 /\ (k * Word) \div Word = k
  BY Constants

\* Align gives the next boundary, less than a word away.
LEMMA AlignBounds ==
  ASSUME NEW s \in Nat
  PROVE  /\ Align(s) \in Nat /\ s <= Align(s) /\ Align(s) < s + Word
<1> DEFINE x == s + Word - 1
           q == x \div Word
<1>1. x \in Nat
  BY Constants
<1>2. q \in Nat /\ x = q * Word + (x % Word) /\ x % Word \in 0 .. Word - 1
  BY <1>1, WordDivision
<1>3. q * Word \in Nat
  BY <1>2, WordOrder
<1>4. Align(s) = q * Word
  BY DEF Align
<1> HIDE DEF q
<1> QED BY <1>2, <1>3, <1>4, Constants

\* A pointer on a word boundary of a section and below its end has room for a whole
\* word before the next section's boundary.
LEMMA NextWord ==
  ASSUME NEW s \in Nat, NEW x \in Nat, x % Word = 0, x < s
  PROVE  x + Word <= Align(s) /\ (x + Word) % Word = 0
<1> DEFINE q == (s + Word - 1) \div Word
           k == x \div Word
<1>1. k \in Nat /\ x = k * Word
  <2>1. k \in Nat /\ x = k * Word + (x % Word)
    BY WordDivision
  <2> HIDE DEF k
  <2> QED
    BY <2>1, WordOrder
<1>2. q \in Nat /\ Align(s) = q * Word /\ s <= Align(s)
  <2>1. s + Word - 1 \in Nat
    BY Constants
  <2> QED
    BY <2>1, AlignBounds, WordDivision DEF Align
<1> HIDE DEF q, k
<1>3. q <= k => q * Word <= k * Word
  BY <1>1, <1>2, WordOrder
<1>4. k + 1 <= q
  BY <1>1, <1>2, <1>3, WordOrder, Constants
<1>5. (k + 1) * Word = k * Word + Word /\ (k + 1) * Word <= q * Word
  BY <1>1, <1>2, <1>4, WordOrder, Constants
<1> QED
  BY <1>1, <1>2, <1>5, WordMultiple, Constants

\* What ends on a boundary needs no padding.
LEMMA AlignWhole ==
  ASSUME NEW s \in Nat, s % Word = 0
  PROVE  Align(s) = s
<1> DEFINE q == (s + Word - 1) \div Word
           k == s \div Word
<1>1. k \in Nat /\ s = k * Word
  <2>1. k \in Nat /\ s = k * Word + (s % Word)
    BY WordDivision
  <2> HIDE DEF k
  <2> QED
    BY <2>1, WordOrder
<1>2. q \in Nat /\ Align(s) = q * Word /\ s <= Align(s) /\ Align(s) < s + Word
  <2>1. s + Word - 1 \in Nat
    BY Constants
  <2> QED
    BY <2>1, AlignBounds, WordDivision DEF Align
<1> HIDE DEF q, k
<1>3. q >= k + 1 => (k + 1) * Word <= q * Word
  BY <1>1, <1>2, WordOrder
<1>4. (k + 1) * Word = k * Word + Word
  BY <1>1, Constants
<1>5. q <= k
  <2>1. ~(q >= k + 1)
    BY <1>1, <1>2, <1>3, <1>4, Constants
  <2> QED
    BY <1>1, <1>2, <2>1
<1>6. q * Word <= k * Word
  BY <1>1, <1>2, <1>5, WordOrder
<1> QED
  BY <1>1, <1>2, <1>6, WordOrder, Constants

-----------------------------------------------------------------------------
(* The layout. *)

\* Sections follow one another on word boundaries, the stacks end within memory.
LEMMA Sections ==
  ASSUME TypeOK
  PROVE  /\ size.code \in Nat /\ size.data \in Nat /\ size.bss \in Nat
         /\ code_start \in Nat /\ data_start \in Nat /\ bss_start \in Nat
         /\ stack_start \in Nat /\ stack_end \in Nat
         /\ data_start = code_start + Align(size.code)
         /\ bss_start = data_start + Align(size.data)
         /\ stack_start = bss_start + Align(size.bss)
         /\ stack_end = stack_start + 6 * StackSize /\ Align(6 * StackSize) = 6 * StackSize
         /\ stack_start < stack_end /\ stack_end <= Top
         /\ program = "ResetISR" => data_start = code_start /\ size.code = 0
<1>1. /\ size.code \in CodeSizes /\ size.data \in DataSizes /\ size.bss \in BssSizes
      /\ size.code \in Nat /\ size.data \in Nat /\ size.bss \in Nat
  BY StartupAssumption DEF TypeOK
<1>2. Align(size.code) \in Nat /\ Align(size.data) \in Nat /\ Align(size.bss) \in Nat
  BY <1>1, AlignBounds
<1>3. program = "ResetISR" => size.bss % Word = 0 /\ size.code = 0
  BY DEF TypeOK
<1>4. program = "ResetISR" => Align(size.bss) = size.bss
  BY <1>1, <1>3, AlignWhole
<1>5. program = "ResetISR" => Align(size.code) = 0
  <2>1. 0 % Word = 0
    BY Constants
  <2> QED
    BY <1>3, <2>1, AlignWhole
<1>6. Len(Modes) = 6
  BY DEF Modes
<1>7. Word + Align(size.code) + Align(size.data) + Align(size.bss) + 6 * StackSize <= Top
  BY <1>1, <1>6, LayoutAssumption
<1>8. Align(6 * StackSize) = 6 * StackSize
  <2>1. (6 * StackSize) % Word = 0
    <3>1. PICK k \in Nat : StackSize = k * Word
      <4>1. StackSize \div Word \in Nat /\ StackSize = (StackSize \div Word) * Word + (StackSize % Word)
        BY Constants, WordDivision
      <4>2. (StackSize \div Word) * Word \in Nat
        BY <4>1, WordOrder
      <4> QED
        BY <4>1, <4>2, Constants
    <3>2. 6 * StackSize = (6 * k) * Word
      BY <3>1, Constants
    <3> QED
      BY <3>2, WordMultiple
  <2> QED
    BY <2>1, Constants, AlignWhole
<1>9. stack_start = bss_start + Align(size.bss)
  BY <1>4 DEF stack_start
<1> QED
  BY <1>1, <1>2, <1>3, <1>5, <1>6, <1>7, <1>8, <1>9, Constants
     DEF code_start, data_start, bss_start, stack_end

\* The loops of the two programs, written out.
LEMMA ResetISRLoops ==
  ASSUME program = "ResetISR"
  PROVE  /\ DOMAIN Passes = 1 .. 3 /\ Len(Passes) = 3
         /\ Passes[1] = Loop("copy", "count", 1, data_start, bss_start)
         /\ Passes[2] = Loop("zero", "count", 1, bss_start, stack_start)
         /\ Passes[3] = Loop("fill", "less", Word, stack_start, stack_end)
BY DEF Passes, ResetISR

LEMMA _resetLoops ==
  ASSUME program = "_reset"
  PROVE  /\ DOMAIN Passes = 1 .. 4 /\ Len(Passes) = 4
         /\ Passes[1] = Loop("copy", "less", Word, code_start, code_start + size.code)
         /\ Passes[2] = Loop("copy", "less", Word, data_start, data_start + size.data)
         /\ Passes[3] = Loop("zero", "less", Word, bss_start, bss_start + size.bss)
         /\ Passes[4] = Loop("fill", "less", Word, stack_start, stack_end)
BY DEF Passes, _reset

\* A loop over part of the memory from the code's start to the stacks' end.
LoopRight(l) ==
  /\ l.op \in {"copy", "zero", "fill"}
  /\ \/ l.style = "count" /\ l.unit = 1
     \/ l.style = "less" /\ l.unit = Word
  /\ l.from \in Nat /\ l.to \in Nat /\ End(l) \in Nat
  /\ code_start <= l.from /\ l.from <= l.to /\ l.to <= End(l) /\ End(l) <= stack_end
  /\ l.style = "count" => l.to <= stack_start

\* The loops are disjoint and each begins where the one before it ends.
LayoutRight ==
  /\ Len(Passes) \in Nat \ {0} /\ DOMAIN Passes = 1 .. Len(Passes)
  /\ \A p \in DOMAIN Passes : LoopRight(Passes[p])
  /\ \A p, q \in DOMAIN Passes : p < q => End(Passes[p]) <= Passes[q].from
  /\ \A p \in DOMAIN Passes : p # Len(Passes) => End(Passes[p]) = Passes[p + 1].from
  /\ End(Passes[Len(Passes)]) = stack_end /\ Passes[1].from = code_start

LEMMA Layout ==
  ASSUME TypeOK
  PROVE  LayoutRight
<1>1. /\ size.code \in Nat /\ size.data \in Nat /\ size.bss \in Nat
      /\ code_start \in Nat /\ data_start \in Nat /\ bss_start \in Nat
      /\ stack_start \in Nat /\ stack_end \in Nat
      /\ data_start = code_start + Align(size.code) /\ bss_start = data_start + Align(size.data)
      /\ stack_start = bss_start + Align(size.bss)
      /\ stack_end = stack_start + Align(stack_end - stack_start) /\ stack_start < stack_end
  <2>1. stack_end - stack_start = 6 * StackSize
    BY Sections, Constants
  <2> QED
    BY <2>1, Sections
<1>2. /\ Align(size.code) \in Nat /\ size.code <= Align(size.code)
      /\ Align(size.data) \in Nat /\ size.data <= Align(size.data)
      /\ Align(size.bss) \in Nat /\ size.bss <= Align(size.bss)
  BY <1>1, AlignBounds
<1>3. ASSUME NEW op \in {"copy", "zero", "fill"}, NEW from \in Nat, NEW to \in Nat, NEW l,
             code_start <= from, from <= to, to <= stack_start,
             l = Loop(op, "count", 1, from, to)
      PROVE  LoopRight(l) /\ End(l) = to /\ l.from = from
  <2>1. l.op = op /\ l.style = "count" /\ l.unit = 1 /\ l.from = from /\ l.to = to
    BY <1>3 DEF Loop
  <2>2. End(l) = to
    BY <2>1 DEF End
  <2> QED
    BY <1>1, <1>3, <2>1, <2>2 DEF LoopRight
<1>4. ASSUME NEW op \in {"copy", "zero", "fill"}, NEW from \in Nat, NEW len \in Nat, NEW l,
             code_start <= from, len <= Align(len), Align(len) \in Nat, from + Align(len) <= stack_end,
             l = Loop(op, "less", Word, from, from + len)
      PROVE  LoopRight(l) /\ End(l) = from + Align(len) /\ l.from = from
  <2>1. l.op = op /\ l.style = "less" /\ l.unit = Word /\ l.from = from /\ l.to = from + len
    BY <1>4 DEF Loop
  <2>2. (from + len) - from = len
    BY <1>4
  <2>3. End(l) = from + Align(len)
    BY <2>1, <2>2 DEF End
  <2> QED
    BY <1>1, <1>4, <2>1, <2>3 DEF LoopRight
<1>5. ASSUME NEW l, l = Loop("fill", "less", Word, stack_start, stack_end)
      PROVE  LoopRight(l) /\ End(l) = stack_end /\ l.from = stack_start
  <2>1. PICK len \in Nat : len = stack_end - stack_start
    BY <1>1
  <2>2. stack_end = stack_start + len /\ len <= Align(len) /\ Align(len) \in Nat
        /\ stack_end = stack_start + Align(len) /\ code_start <= stack_start
    BY <1>1, <1>2, <2>1, AlignBounds
  <2> QED
    BY <1>1, <1>4, <1>5, <2>2
<1>6. CASE program = "ResetISR"
  <2>1. LoopRight(Passes[1]) /\ End(Passes[1]) = bss_start /\ Passes[1].from = data_start
    BY <1>1, <1>2, <1>3, <1>6, ResetISRLoops
  <2>2. LoopRight(Passes[2]) /\ End(Passes[2]) = stack_start /\ Passes[2].from = bss_start
    BY <1>1, <1>2, <1>3, <1>6, ResetISRLoops
  <2>3. LoopRight(Passes[3]) /\ End(Passes[3]) = stack_end /\ Passes[3].from = stack_start
    BY <1>5, <1>6, ResetISRLoops
  <2>4. DOMAIN Passes = 1 .. 3 /\ Len(Passes) = 3 /\ \A p \in DOMAIN Passes : p \in {1, 2, 3}
    BY <1>6, ResetISRLoops
  <2>5. data_start = code_start /\ data_start <= bss_start /\ bss_start <= stack_start
    BY <1>1, <1>2, <1>6, Sections
  <2>6. \A p \in DOMAIN Passes : LoopRight(Passes[p])
    BY <2>1, <2>2, <2>3, <2>4
  <2>7. \A p, q \in DOMAIN Passes : p < q => End(Passes[p]) <= Passes[q].from
    BY <1>1, <2>1, <2>2, <2>3, <2>4, <2>5
  <2>8. \A p \in DOMAIN Passes : p # Len(Passes) => End(Passes[p]) = Passes[p + 1].from
    BY <2>1, <2>2, <2>3, <2>4
  <2> QED
    BY <2>1, <2>3, <2>4, <2>5, <2>6, <2>7, <2>8 DEF LayoutRight
<1>7. CASE program = "_reset"
  <2>1. LoopRight(Passes[1]) /\ End(Passes[1]) = data_start /\ Passes[1].from = code_start
    BY <1>1, <1>2, <1>4, <1>7, _resetLoops
  <2>2. LoopRight(Passes[2]) /\ End(Passes[2]) = bss_start /\ Passes[2].from = data_start
    BY <1>1, <1>2, <1>4, <1>7, _resetLoops
  <2>3. LoopRight(Passes[3]) /\ End(Passes[3]) = stack_start /\ Passes[3].from = bss_start
    BY <1>1, <1>2, <1>4, <1>7, _resetLoops
  <2>4. LoopRight(Passes[4]) /\ End(Passes[4]) = stack_end /\ Passes[4].from = stack_start
    BY <1>5, <1>7, _resetLoops
  <2>5. DOMAIN Passes = 1 .. 4 /\ Len(Passes) = 4 /\ \A p \in DOMAIN Passes : p \in {1, 2, 3, 4}
    BY <1>7, _resetLoops
  <2>6. data_start <= bss_start /\ bss_start <= stack_start
    BY <1>1, <1>2
  <2>7. \A p \in DOMAIN Passes : LoopRight(Passes[p])
    BY <2>1, <2>2, <2>3, <2>4, <2>5
  <2>8. \A p, q \in DOMAIN Passes : p < q => End(Passes[p]) <= Passes[q].from
    BY <1>1, <2>1, <2>2, <2>3, <2>4, <2>5, <2>6
  <2>9. \A p \in DOMAIN Passes : p # Len(Passes) => End(Passes[p]) = Passes[p + 1].from
    BY <2>1, <2>2, <2>3, <2>4, <2>5
  <2> QED
    BY <2>1, <2>4, <2>5, <2>7, <2>8, <2>9 DEF LayoutRight
<1> QED
  BY <1>6, <1>7 DEF TypeOK

\* Sizes do not change, and nothing of the layout does.
LEMMA LayoutFixed ==
  ASSUME UNCHANGED <<program, size>>
  PROVE  /\ Passes' = Passes /\ code_start' = code_start /\ stack_end' = stack_end
         /\ \A j : stack_top(j)' = stack_top(j)
BY DEF Passes, ResetISR, _reset, code_start, data_start, bss_start, stack_start, stack_end, stack_top

-----------------------------------------------------------------------------
(* Memory. *)

\* A turn of a loop makes one more unit right.
LEMMA StoreRight ==
  ASSUME TypeOK, NEW p \in DOMAIN Passes, NEW l, l = Passes[p], NEW x, x = r1 + l.unit,
         r0 = r1, r1 \in Nat, l.from <= r1, x <= End(l),
         MemoryRight(r1), Store(l), UNCHANGED <<program, size>>
  PROVE  MemoryRight(x)'
<1>1. LayoutRight /\ LoopRight(l)
  BY Layout DEF LayoutRight
<1>2. /\ l.unit \in Nat /\ l.from \in Nat /\ l.to \in Nat /\ End(l) \in Nat /\ l.unit >= 1
      /\ code_start \in Nat /\ code_start <= l.from
  BY <1>1, Constants, Sections DEF LoopRight
<1>3. ASSUME NEW a \in 0 .. Top - 1
      PROVE  IF a >= r1 /\ a < x THEN mem'[a] = Value(l, a) ELSE mem'[a] = mem[a]
  <2>1. a \in r1 .. (r1 + l.unit - 1) <=> a >= r1 /\ a < x
    BY <1>2
  <2>2. r0 + (a - r1) = a
    BY <1>2
  <2> QED
    BY <2>1, <2>2 DEF Store, Value
<1>4. ASSUME NEW a \in 0 .. Top - 1, a < code_start \/ a >= x
      PROVE  mem'[a] = Garbage
  <2>1. ~(a >= r1 /\ a < x) /\ (a < code_start \/ a >= r1)
    BY <1>2, <1>4
  <2> QED
    BY <1>3, <2>1 DEF MemoryRight
<1>5. ASSUME NEW a \in 0 .. Top - 1, NEW q \in DOMAIN Passes,
             a \in Passes[q].from .. (Passes[q].to - 1), a < x
      PROVE  mem'[a] = Value(Passes[q], a)
  <2>1. CASE a < r1
    BY <1>2, <1>3, <1>5, <2>1 DEF MemoryRight
  <2>2. CASE a >= r1
    <3>1. mem'[a] = Value(l, a)
      BY <1>3, <1>5, <2>2
    <3>2. LoopRight(Passes[q]) /\ p \in Nat /\ q \in Nat
      BY <1>1 DEF LayoutRight
    <3>3. q = p
      <4>1. ~(q < p)
        BY <1>1, <1>2, <1>5, <2>2, <3>2 DEF LayoutRight, LoopRight
      <4>2. ~(p < q)
        BY <1>1, <1>2, <1>5, <2>2, <3>2 DEF LayoutRight, LoopRight
      <4> QED
        BY <3>2, <4>1, <4>2
    <3> QED
      BY <3>1, <3>3
  <2> QED
    BY <1>2, <2>1, <2>2
<1> QED
  BY <1>4, <1>5, LayoutFixed DEF MemoryRight, Value, Rom

\* A loop that has reached its section's end leaves only padding behind it.
LEMMA PaddingRight ==
  ASSUME TypeOK, NEW p \in DOMAIN Passes, NEW l, l = Passes[p], NEW x \in Nat,
         l.to <= x, x <= End(l), MemoryRight(x)
  PROVE  MemoryRight(End(l))
<1>1. LayoutRight /\ LoopRight(l)
  BY Layout DEF LayoutRight
<1>2. l.from \in Nat /\ l.to \in Nat /\ End(l) \in Nat /\ l.from <= l.to
  BY <1>1 DEF LoopRight
<1>3. ASSUME NEW a \in 0 .. Top - 1, a < code_start \/ a >= End(l)
      PROVE  mem[a] = Garbage
  <2>1. a >= End(l) => a >= x
    BY <1>2
  <2> QED
    BY <1>3, <2>1 DEF MemoryRight
<1>4. ASSUME NEW a \in 0 .. Top - 1, NEW q \in DOMAIN Passes,
             a \in Passes[q].from .. (Passes[q].to - 1), a < End(l)
      PROVE  mem[a] = Value(Passes[q], a)
  <2>1. LoopRight(Passes[q]) /\ p \in Nat /\ q \in Nat
    BY <1>1 DEF LayoutRight
  <2>2. ~(p < q)
    BY <1>1, <1>2, <1>4, <2>1 DEF LayoutRight, LoopRight
  <2>3. q < p => Passes[q].to <= l.from
    BY <1>1, <1>2, <2>1 DEF LayoutRight, LoopRight
  <2>4. a < x
    BY <1>2, <1>4, <2>1, <2>2, <2>3 DEF LoopRight
  <2> QED
    BY <1>4, <2>4 DEF MemoryRight
<1> QED
  BY <1>3, <1>4 DEF MemoryRight

LEMMA MemoryKept ==
  ASSUME NEW x, MemoryRight(x), UNCHANGED <<program, size, mem>>
  PROVE  MemoryRight(x)'
BY LayoutFixed DEF MemoryRight, Value, Rom

-----------------------------------------------------------------------------
(* The loops. *)

\* After a loop the next one begins, or the stack pointers are set.
LEMMA NextPassInv ==
  ASSUME TypeOK, pc \in {"load", "loop"}, NextPass, NEW x, x = End(Passes[pass]), MemoryRight(x)',
         UNCHANGED <<program, size, mode, sp>>, DOMAIN mem' = 0 .. Top - 1
  PROVE  Inv'
<1>1. LayoutRight /\ pass \in DOMAIN Passes
  BY Layout DEF TypeOK
<1>2. pass \in 1 .. Len(Passes) /\ Len(Passes) \in Nat \ {0} /\ Len(Modes) = 6
  BY <1>1 DEF LayoutRight, Modes
<1>3. CASE pass = Len(Passes)
  <2>1. pc' = "modes" /\ pass' = 1
    BY <1>3 DEF NextPass
  <2>2. Reached' = x
    BY <1>1, <1>3, <2>1, LayoutFixed DEF Reached, LayoutRight
  <2>3. TypeOK'
    BY <1>2, <2>1 DEF TypeOK
  <2>4. StacksSet'
    BY <2>1 DEF StacksSet
  <2> QED
    BY <2>1, <2>2, <2>3, <2>4 DEF Inv
<1>4. CASE pass # Len(Passes)
  <2>1. pc' = "load" /\ pass' = pass + 1
    BY <1>4 DEF NextPass
  <2>2. pass' \in DOMAIN Passes'
    BY <1>1, <1>2, <1>4, <2>1, LayoutFixed DEF LayoutRight
  <2>3. Reached' = x
    BY <1>1, <1>4, <2>1, LayoutFixed DEF Reached, LayoutRight
  <2>4. TypeOK'
    BY <2>1, <2>2 DEF TypeOK
  <2> QED
    BY <2>1, <2>3, <2>4 DEF Inv, StacksSet
<1> QED
  BY <1>3, <1>4

\* The loop goes on.
LEMMA LoopInv ==
  ASSUME TypeOK, pc \in {"load", "loop"}, pc' = "loop", NEW l, l = Passes[pass],
         Registers(l)', NEW x, x = r1', MemoryRight(x)',
         UNCHANGED <<program, size, pass, mode, sp>>, DOMAIN mem' = 0 .. Top - 1
  PROVE  Inv'
<1>1. Passes' = Passes
  BY LayoutFixed
<1>2. TypeOK'
  BY <1>1 DEF TypeOK
<1>3. Reached' = x
  BY DEF Reached
<1>4. Registers(Passes[pass])'
  <2>1. Passes'[pass'] = l
    BY <1>1
  <2> QED
    BY <2>1 DEF Registers, End
<1> QED
  BY <1>2, <1>3, <1>4 DEF Inv, StacksSet

\* What is known of the loop under way.
LEMMA LoopUnderWay ==
  ASSUME TypeOK, pc \in {"load", "loop"}, NEW l, l = Passes[pass]
  PROVE  /\ pass \in DOMAIN Passes /\ LoopRight(l)
         /\ l.from \in Nat /\ l.to \in Nat /\ End(l) \in Nat /\ l.from <= l.to /\ l.to <= End(l)
         /\ DOMAIN mem = 0 .. Top - 1
<1>1. LayoutRight /\ pass \in DOMAIN Passes /\ DOMAIN mem = 0 .. Top - 1
  BY Layout DEF TypeOK
<1>2. LoopRight(l)
  BY <1>1 DEF LayoutRight
<1> QED
  BY <1>1, <1>2 DEF LoopRight

LEMMA LoadInv ==
  ASSUME Inv, Load
  PROVE  Inv'
<1>1. PICK l : l = Passes[pass]
  OBVIOUS
<1>2. /\ TypeOK /\ pc = "load" /\ r0' = l.from /\ r1' = l.from
      /\ r2' = IF l.style = "count" THEN l.to - l.from ELSE l.to
      /\ IF Skip(l) THEN NextPass ELSE pc' = "loop" /\ UNCHANGED pass
      /\ UNCHANGED <<program, size, mem, mode, sp>>
  BY <1>1 DEF Inv, Load
<1>3. /\ pass \in DOMAIN Passes /\ LoopRight(l) /\ DOMAIN mem' = 0 .. Top - 1
      /\ l.from \in Nat /\ l.to \in Nat /\ End(l) \in Nat /\ l.from <= l.to /\ l.to <= End(l)
  BY <1>1, <1>2, LoopUnderWay
<1>4. PICK x \in Nat : x = l.from
  BY <1>3
<1>5. MemoryRight(x) /\ MemoryRight(x)'
  BY <1>1, <1>2, <1>4, MemoryKept DEF Inv, Reached
<1>6. CASE Skip(l)
  <2>1. x = End(l)
    BY <1>3, <1>4, <1>6 DEF Skip, End
  <2> QED
    BY <1>1, <1>2, <1>3, <1>5, <1>6, <2>1, NextPassInv
<1>7. CASE ~Skip(l)
  <2>1. Registers(l)'
    <3>1. CASE l.style = "count"
      BY <1>2, <1>3, <1>7, <3>1 DEF Registers, Skip
    <3>2. CASE l.style # "count"
      <4>1. (l.from - l.from) % Word = 0
        BY <1>3, Constants
      <4> QED
        BY <1>2, <1>3, <3>2, <4>1 DEF Registers, End
    <3> QED
      BY <3>1, <3>2
  <2> QED
    BY <1>1, <1>2, <1>3, <1>4, <1>5, <1>7, <2>1, LoopInv
<1> QED
  BY <1>6, <1>7

LEMMA CountInv ==
  ASSUME Inv, Count
  PROVE  Inv'
<1>1. PICK l : l = Passes[pass]
  OBVIOUS
<1>2. /\ TypeOK /\ pc = "loop" /\ l.style = "count" /\ Store(l)
      /\ r0' = r0 + 1 /\ r1' = (r1 + 1) % Top /\ r2' = (r2 - 1) % Top
      /\ IF r2' # 0 THEN UNCHANGED <<pc, pass>> ELSE NextPass
      /\ UNCHANGED <<program, size, mode, sp>>
  BY <1>1 DEF Inv, Count
<1>3. /\ pass \in DOMAIN Passes /\ LoopRight(l) /\ DOMAIN mem' = 0 .. Top - 1
      /\ l.from \in Nat /\ l.to \in Nat /\ End(l) = l.to /\ l.unit = 1
      /\ l.to <= stack_start /\ stack_start \in Nat /\ stack_start < Top /\ Top \in Nat
  <2>1. pass \in DOMAIN Passes /\ LoopRight(l) /\ DOMAIN mem' = 0 .. Top - 1
    BY <1>1, <1>2, LoopUnderWay DEF Store
  <2>2. stack_start \in Nat /\ stack_start < Top /\ Top \in Nat
    BY <1>2, Sections, Constants
  <2> QED
    BY <1>2, <2>1, <2>2 DEF LoopRight, End
<1>4. r1 \in Nat /\ r0 = r1 /\ l.from <= r1 /\ r1 < l.to /\ r2 = l.to - r1
  BY <1>1, <1>2 DEF Inv, Registers
<1>5. PICK x \in Nat : x = r1 + 1
  BY <1>4
<1>6. r1' = x /\ r0' = x /\ r2' = l.to - x /\ x <= l.to
  <2>1. x <= l.to /\ x < Top /\ r2 - 1 = l.to - x /\ r2 - 1 \in Nat /\ r2 - 1 < Top
    BY <1>3, <1>4, <1>5
  <2>2. (r1 + 1) % Top = x /\ (r2 - 1) % Top = r2 - 1
    BY <1>3, <1>5, <2>1, NoWrap
  <2> QED
    BY <1>2, <1>4, <1>5, <2>1, <2>2
<1>7. MemoryRight(x)'
  BY <1>1, <1>2, <1>3, <1>4, <1>5, <1>6, StoreRight DEF Inv, Reached
<1>8. CASE r2' # 0
  <2>1. Registers(l)'
    <3>1. x < l.to /\ l.from <= x
      BY <1>3, <1>4, <1>5, <1>6, <1>8
    <3> QED
      BY <1>2, <1>5, <1>6, <3>1 DEF Registers
  <2> QED
    BY <1>1, <1>2, <1>3, <1>6, <1>7, <1>8, <2>1, LoopInv
<1>9. CASE r2' = 0
  <2>1. x = End(l)
    BY <1>3, <1>5, <1>6, <1>9
  <2> QED
    BY <1>1, <1>2, <1>3, <1>7, <1>9, <2>1, NextPassInv
<1> QED
  BY <1>8, <1>9

LEMMA LessInv ==
  ASSUME Inv, Less
  PROVE  Inv'
<1>1. PICK l : l = Passes[pass]
  OBVIOUS
<1>2. /\ TypeOK /\ pc = "loop" /\ l.style = "less"
      /\ IF Test
         THEN Store(l) /\ r0' = r0 + l.unit /\ r1' = r1 + l.unit /\ UNCHANGED <<pc, pass>>
         ELSE NextPass /\ UNCHANGED <<mem, r0, r1>>
      /\ UNCHANGED <<program, size, r2, mode, sp>>
  BY <1>1 DEF Inv, Less, Step
<1>3. /\ pass \in DOMAIN Passes /\ LoopRight(l) /\ DOMAIN mem = 0 .. Top - 1
      /\ l.from \in Nat /\ l.to \in Nat /\ End(l) \in Nat /\ l.from <= l.to /\ l.to <= End(l)
      /\ l.unit = Word /\ Word \in Nat /\ End(l) = l.from + Align(l.to - l.from)
  BY <1>1, <1>2, LoopUnderWay, Constants DEF LoopRight, End
<1>4. /\ r1 \in Nat /\ r0 = r1 /\ l.from <= r1 /\ r2 = l.to /\ r1 <= End(l) /\ (r1 - l.from) % Word = 0
  BY <1>1, <1>2 DEF Inv, Registers
<1>5. r1 \in Nat /\ MemoryRight(r1)
  BY <1>2, <1>3, <1>4 DEF Inv, Reached
<1>6. CASE Test
  <2>1. PICK x \in Nat : x = r1 + Word
    BY <1>3, <1>5
  <2>2. Store(l) /\ r0' = x /\ r1' = x /\ pc' = "loop" /\ pass' = pass /\ r1 < l.to
    BY <1>2, <1>3, <1>4, <1>6, <2>1 DEF Test
  <2>3. x <= End(l) /\ (x - l.from) % Word = 0
    <3>1. PICK y \in Nat, t \in Nat : y = r1 - l.from /\ t = l.to - l.from
      BY <1>3, <1>4, <1>5
    <3>2. y < t /\ y % Word = 0
      BY <1>3, <1>4, <1>5, <2>2, <3>1
    <3>3. y + Word <= Align(t) /\ (y + Word) % Word = 0 /\ Align(t) \in Nat
      BY <3>1, <3>2, NextWord, AlignBounds
    <3>4. x - l.from = y + Word /\ End(l) = l.from + Align(t)
      BY <1>3, <1>5, <2>1, <3>1
    <3> QED
      BY <1>3, <1>5, <2>1, <3>1, <3>3, <3>4
  <2>4. MemoryRight(x)'
    BY <1>1, <1>2, <1>3, <1>4, <1>5, <2>1, <2>2, <2>3, StoreRight
  <2>5. Registers(l)'
    BY <1>2, <1>3, <1>4, <1>5, <2>1, <2>2, <2>3 DEF Registers, End
  <2>6. DOMAIN mem' = 0 .. Top - 1
    BY <2>2 DEF Store
  <2> QED
    BY <1>1, <1>2, <2>2, <2>4, <2>5, <2>6, LoopInv
<1>7. CASE ~Test
  <2>1. PICK x \in Nat : x = End(l)
    BY <1>3
  <2>2. l.to <= r1
    BY <1>3, <1>4, <1>5, <1>7 DEF Test
  <2>3. MemoryRight(x)
    BY <1>1, <1>2, <1>3, <1>4, <1>5, <2>1, <2>2, PaddingRight
  <2>4. NextPass /\ mem' = mem /\ MemoryRight(x)'
    BY <1>2, <1>7, <2>3, MemoryKept
  <2> QED
    BY <1>1, <1>2, <1>3, <2>1, <2>4, NextPassInv
<1> QED
  BY <1>6, <1>7

-----------------------------------------------------------------------------
(* The stacks. *)

\* Six modes, no two alike.
LEMMA SixModes ==
  /\ Len(Modes) = 6 /\ DOMAIN Modes = 1 .. 6
  /\ \A j \in 1 .. 6 : Modes[j] \in ModeSet
  /\ \A j, k \in 1 .. 6 : j # k => Modes[j] # Modes[k]
  /\ \A m \in ModeSet : \E j \in 1 .. 6 : m = Modes[j]
  /\ Modes[6] = "SYS"
<1>1. /\ Len(Modes) = 6 /\ DOMAIN Modes = 1 .. 6
      /\ Modes[1] = "IRQ" /\ Modes[2] = "FIQ" /\ Modes[3] = "SVC"
      /\ Modes[4] = "ABT" /\ Modes[5] = "UND" /\ Modes[6] = "SYS"
  BY DEF Modes
<1>2. \A j \in 1 .. 6 : j \in {1, 2, 3, 4, 5, 6}
  OBVIOUS
<1>3. \A j, k \in 1 .. 6 : j # k => Modes[j] # Modes[k]
  BY <1>1, <1>2
<1> QED
  BY <1>1, <1>3 DEF ModeSet

LEMMA SetModeInv ==
  ASSUME Inv, SetMode
  PROVE  Inv'
<1>1. PICK j \in 1 .. 6 : j = pass
  BY SixModes DEF Inv, TypeOK, SetMode
<1>2. /\ pc = "modes" /\ pc' = "modes" /\ mode' = Modes[j] /\ pass' = j + 1
      /\ sp' = [sp EXCEPT ![Modes[j]] = stack_top(j)]
      /\ UNCHANGED <<program, size, mem>> /\ TypeOK /\ MemoryRight(stack_end)
      /\ Modes[j] \in ModeSet /\ DOMAIN sp = ModeSet
  BY <1>1, SixModes DEF Inv, TypeOK, SetMode, Reached
<1>3. TypeOK'
  BY <1>2, SixModes DEF TypeOK
<1>4. MemoryRight(Reached)'
  <2>1. PICK x : x = stack_end
    OBVIOUS
  <2>2. MemoryRight(x)' /\ Reached' = x
    BY <1>2, <2>1, MemoryKept, LayoutFixed DEF Reached
  <2> QED
    BY <2>2
<1>5. ASSUME NEW k \in 1 .. j
      PROVE  sp'[Modes[k]] = stack_top(k)
  <2>1. CASE k = j
    BY <1>2, <2>1
  <2>2. CASE k # j
    <3>1. k \in 1 .. (pass - 1) /\ k \in 1 .. 6
      BY <1>1, <2>2
    <3>2. sp[Modes[k]] = stack_top(k) /\ Modes[k] # Modes[j] /\ Modes[k] \in ModeSet
      BY <1>1, <1>2, <2>2, <3>1, SixModes DEF Inv, StacksSet
    <3> QED
      BY <1>2, <3>2
  <2> QED
    BY <2>1, <2>2
<1>6. StacksSet'
  <2>1. (j + 1) - 1 = j
    OBVIOUS
  <2> QED
    BY <1>2, <1>5, <2>1, LayoutFixed DEF StacksSet
<1> QED
  BY <1>2, <1>3, <1>4, <1>6 DEF Inv

LEMMA CallMainInv ==
  ASSUME Inv, CallMain
  PROVE  Inv'
<1>1. /\ pc = "modes" /\ pc' = "main" /\ pass = Len(Modes) + 1 /\ TypeOK /\ StacksSet
      /\ UNCHANGED <<program, size, mem, pass, mode, sp>> /\ MemoryRight(stack_end)
  BY DEF Inv, CallMain, Reached
<1>2. TypeOK'
  BY <1>1 DEF TypeOK
<1>3. MemoryRight(Reached)'
  <2>1. PICK x : x = stack_end
    OBVIOUS
  <2>2. MemoryRight(x)' /\ Reached' = x
    BY <1>1, <2>1, MemoryKept, LayoutFixed DEF Reached
  <2> QED
    BY <2>2
<1>4. StacksSet'
  BY <1>1, LayoutFixed DEF StacksSet
<1> QED
  BY <1>1, <1>2, <1>3, <1>4 DEF Inv

-----------------------------------------------------------------------------
(* The theorems. *)

LEMMA InitInv ==
  ASSUME Init
  PROVE  Inv
<1>1. DOMAIN Passes # {} /\ 1 \in DOMAIN Passes
  BY ResetISRLoops, _resetLoops DEF Init
<1>2. TypeOK
  BY <1>1 DEF Init, TypeOK, ModeSet, Modes
<1>3. Passes[1].from = code_start
  BY <1>2, Layout DEF LayoutRight
<1>4. MemoryRight(code_start)
  <2>1. ASSUME NEW a \in 0 .. Top - 1, NEW p \in DOMAIN Passes,
               a \in Passes[p].from .. (Passes[p].to - 1)
        PROVE  ~(a < code_start)
    <3>1. LoopRight(Passes[p]) /\ code_start \in Nat
      BY <1>2, Layout, Sections DEF LayoutRight
    <3> QED
      BY <2>1, <3>1 DEF LoopRight
  <2> QED
    BY <2>1 DEF Init, MemoryRight
<1> QED
  BY <1>2, <1>3, <1>4 DEF Init, Inv, Reached, StacksSet

\* At every turn of every loop memory is right up to the pointer and untouched
\* beyond it, and the stacks set so far are the tops of their areas.
THEOREM InvHolds == Spec => []Inv
<1>1. Init => Inv
  BY InitInv
<1>2. Inv /\ [Next]_vars => Inv'
  <2> SUFFICES ASSUME Inv, [Next]_vars
               PROVE  Inv'
    OBVIOUS
  <2>1. CASE UNCHANGED vars
    <3>1. /\ UNCHANGED <<program, size, mem, pass, pc, r0, r1, r2, mode, sp>> /\ TypeOK
      BY <2>1 DEF vars, Inv
    <3>2. Passes' = Passes /\ stack_end' = stack_end /\ TypeOK'
      BY <3>1, LayoutFixed DEF TypeOK
    <3>3. pc = "loop" => Registers(Passes[pass])'
      BY <3>1, <3>2 DEF Inv, Registers, End
    <3>4. PICK x : x = Reached
      OBVIOUS
    <3>5. MemoryRight(x)' /\ Reached' = x
      BY <3>1, <3>2, <3>4, MemoryKept DEF Inv, Reached
    <3>6. StacksSet'
      BY <3>1, LayoutFixed DEF Inv, StacksSet
    <3> QED
      BY <3>1, <3>2, <3>3, <3>5, <3>6 DEF Inv
  <2> QED
    BY <2>1, LoadInv, CountInv, LessInv, SetModeInv, CallMainInv DEF Next, Main
<1> QED
  BY <1>1, <1>2, PTL DEF Spec

\* Startup leaves main the image that was linked, for sections of any sizes.
THEOREM ImageRightHolds == Spec => []ImageRight
<1>1. Inv => ImageRight
  <2> SUFFICES ASSUME Inv, pc = "main"
               PROVE  ImageRight
    BY DEF ImageRight
  <2>1. TypeOK /\ MemoryRight(stack_end)
    BY DEF Inv, Reached
  <2>2. /\ size.code \in Nat /\ size.data \in Nat /\ size.bss \in Nat
        /\ code_start \in Nat /\ data_start \in Nat /\ bss_start \in Nat
        /\ stack_start \in Nat /\ stack_end \in Nat /\ stack_end <= Top /\ Top \in Nat
        /\ code_start + size.code <= data_start /\ data_start + size.data <= bss_start
        /\ bss_start + size.bss <= stack_start /\ stack_start <= stack_end
        /\ program = "ResetISR" => size.code = 0
    BY <2>1, Sections, AlignBounds, Constants
  <2>3. ASSUME NEW p \in DOMAIN Passes, NEW op, NEW style, NEW unit, NEW from \in Nat, NEW to \in Nat,
               to <= stack_end, Passes[p] = Loop(op, style, unit, from, to)
        PROVE  \A a \in from .. (to - 1) : mem[a] = Value(Passes[p], a) /\ Passes[p].op = op
    <3>1. Passes[p].from = from /\ Passes[p].to = to /\ Passes[p].op = op
      BY <2>3 DEF Loop
    <3>2. \A a \in from .. (to - 1) : a \in 0 .. Top - 1 /\ a < stack_end
      BY <2>2, <2>3
    <3> QED
      BY <2>1, <3>1, <3>2 DEF MemoryRight
  <2>4. \A a \in code_start .. (code_start + size.code - 1) : mem[a] = Rom(a)
    <3>1. CASE program = "ResetISR"
      BY <2>2, <3>1
    <3>2. CASE program = "_reset"
      BY <2>2, <2>3, <3>2, _resetLoops DEF Value
    <3> QED
      BY <2>1, <3>1, <3>2 DEF TypeOK
  <2>5. \A a \in data_start .. (data_start + size.data - 1) : mem[a] = Rom(a)
    <3>1. CASE program = "ResetISR"
      BY <2>2, <2>3, <3>1, ResetISRLoops DEF Value
    <3>2. CASE program = "_reset"
      BY <2>2, <2>3, <3>2, _resetLoops DEF Value
    <3> QED
      BY <2>1, <3>1, <3>2 DEF TypeOK
  <2>6. \A a \in bss_start .. (bss_start + size.bss - 1) : mem[a] = 0
    <3>1. CASE program = "ResetISR"
      BY <2>2, <2>3, <3>1, ResetISRLoops DEF Value
    <3>2. CASE program = "_reset"
      BY <2>2, <2>3, <3>2, _resetLoops DEF Value
    <3> QED
      BY <2>1, <3>1, <3>2 DEF TypeOK
  <2>7. \A a \in stack_start .. (stack_end - 1) : mem[a] = FILL
    <3>1. CASE program = "ResetISR"
      BY <2>2, <2>3, <3>1, ResetISRLoops DEF Value
    <3>2. CASE program = "_reset"
      BY <2>2, <2>3, <3>2, _resetLoops DEF Value
    <3> QED
      BY <2>1, <3>1, <3>2 DEF TypeOK
  <2>8. \A a \in 0 .. (code_start - 1) \cup stack_end .. (Top - 1) : mem[a] = Garbage
    BY <2>1, <2>2 DEF MemoryRight
  <2> QED
    BY <2>4, <2>5, <2>6, <2>7, <2>8 DEF ImageRight
<1> QED
  BY <1>1, InvHolds, PTL

\* main runs in system mode, and no two modes' stacks share a byte.
THEOREM StacksApartHolds == Spec => []StacksApart
<1>1. Inv => StacksApart
  <2> SUFFICES ASSUME Inv, pc = "main"
               PROVE  StacksApart
    BY DEF StacksApart
  <2>1. /\ mode = "SYS" /\ \A j \in 1 .. 6 : sp[Modes[j]] = stack_top(j)
    BY SixModes DEF Inv, TypeOK, StacksSet
  <2>2. stack_start \in Nat /\ stack_end = stack_start + 6 * StackSize
        /\ StackSize \in Nat /\ StackSize >= 1
    BY Sections, Constants DEF Inv
  <2>3. /\ \A j \in 1 .. 6 : j \in {1, 2, 3, 4, 5, 6}
        /\ \A j : stack_top(j) = stack_start + j * StackSize
    BY DEF stack_top
  <2>4. \A j \in 1 .. 6 : stack_top(j) \in (stack_start + StackSize) .. stack_end
    BY <2>2, <2>3
  <2>5. \A j, k \in 1 .. 6 : j < k => stack_top(j) <= stack_top(k) - StackSize
    BY <2>2, <2>3
  <2>6. \A j, k \in 1 .. 6 : j # k => \/ stack_top(j) <= stack_top(k) - StackSize
                                       \/ stack_top(k) <= stack_top(j) - StackSize
    BY <2>5
  <2>7. \A m \in ModeSet : sp[m] \in (stack_start + StackSize) .. stack_end
    BY <2>1, <2>4, SixModes
  <2>8. \A m, k \in ModeSet : m # k => sp[m] <= sp[k] - StackSize \/ sp[k] <= sp[m] - StackSize
    <3> SUFFICES ASSUME NEW m \in ModeSet, NEW k \in ModeSet, m # k
                 PROVE  sp[m] <= sp[k] - StackSize \/ sp[k] <= sp[m] - StackSize
      OBVIOUS
    <3>1. PICK i \in 1 .. 6, j \in 1 .. 6 : m = Modes[i] /\ k = Modes[j] /\ i # j
      BY SixModes
    <3> QED
      BY <2>1, <2>6, <3>1
  <2> QED
    BY <2>1, <2>7, <2>8 DEF StacksApart
<1> QED
  BY <1>1, InvHolds, PTL
=============================================================================
