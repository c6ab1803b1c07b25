------------------------------- MODULE Div64 -------------------------------
(***************************************************************************)
(* do_div (include/div64.h) and __div64_32 (c08/c08e1/c08e1.c): division   *)
(* of a word of 2W bits by one of W bits (W = 32) by shifts and            *)
(* subtractions, as the NAND driver uses it for block numbers.  Every      *)
(* arithmetic operation keeps the width its operands have in C.            *)
(***************************************************************************)
EXTENDS Integers

CONSTANTS
  W,       \* bits of the divisor
  Pow2     \* powers of two up to 2^(2W)

ASSUME WAssumption == W \in Nat \ {0}
ASSUME Pow2Assumption ==
  /\ Pow2 \in [0 .. 2*W -> Nat]
  /\ Pow2[0] = 1
  /\ \A k \in 0 .. 2*W - 1 : Pow2[k + 1] = 2 * Pow2[k]
  /\ \A j, k \in 0 .. 2*W : j < k => Pow2[j] < Pow2[k]
  /\ Pow2[2*W] = Pow2[W] * Pow2[W]

Half == Pow2[W]            \* 2^32: uint32_t is arithmetic modulo Half
M == Pow2[2*W]             \* 2^64: uint64_t is arithmetic modulo M
Sign == Pow2[2*W - 1]      \* (int64_t)b > 0 iff 0 < b < Sign

VARIABLES
  n,           \* the dividend as passed
  base,        \* the divisor
  rem, b, d, res,
  pc,
  k            \* history: d is the k-th power of two

vars == <<n, base, rem, b, d, res, pc, k>>

TypeOK ==
  /\ n \in 0 .. M - 1 /\ base \in 1 .. Half - 1
  /\ rem \in 0 .. M - 1 /\ b \in 0 .. M - 1 /\ d \in 0 .. M - 1 /\ res \in 0 .. M - 1
  /\ pc \in {"do_div", "reduce", "double", "subtract", "done"}
  /\ k \in -1 .. 2*W

Init ==
  /\ n \in 0 .. M - 1
  /\ base \in 1 .. Half - 1
  /\ rem = n /\ b = base /\ d = 1 /\ res = 0
  /\ pc = "do_div"
  /\ k = 0

\* do_div: the 32-bit operators when the high half is zero.
DoDiv ==
  /\ pc = "do_div"
  /\ IF n \div Half = 0
     THEN /\ rem' = n % base /\ res' = n \div base
          /\ pc' = "done"
     ELSE /\ pc' = "reduce"
          /\ UNCHANGED <<rem, res>>
  /\ UNCHANGED <<n, base, b, d, k>>

\* __div64_32: "Reduce the thing a bit first".
Reduce ==
  /\ pc = "reduce"
  /\ LET high == rem \div Half
         q == high \div base
     IN  IF high >= base
         THEN /\ res' = (q * Half) % M
              /\ rem' = (rem - ((q * base) % Half) * Half) % M
         ELSE UNCHANGED <<res, rem>>
  /\ pc' = "double"
  /\ UNCHANGED <<n, base, b, d, k>>

\* Mutant: doubling stops one step early.
DoubleShort ==
  /\ pc = "double"
  /\ IF 0 < b /\ b < Sign /\ b + b < rem
     THEN /\ b' = (b + b) % M /\ d' = (d + d) % M /\ k' = k + 1
          /\ UNCHANGED pc
     ELSE /\ pc' = "subtract"
          /\ UNCHANGED <<b, d, k>>
  /\ UNCHANGED <<n, base, rem, res>>

Double ==
  /\ pc = "double"
  /\ IF 0 < b /\ b < Sign /\ b < rem
     THEN /\ b' = (b + b) % M /\ d' = (d + d) % M /\ k' = k + 1
          /\ UNCHANGED pc
     ELSE /\ pc' = "subtract"
          /\ UNCHANGED <<b, d, k>>
  /\ UNCHANGED <<n, base, rem, res>>

\* Mutant: equality is not subtracted.
SubtractMutant ==
  /\ pc = "subtract"
  /\ IF rem > b
     THEN rem' = (rem - b) % M /\ res' = (res + d) % M
     ELSE UNCHANGED <<rem, res>>
  /\ b' = b \div 2 /\ d' = d \div 2 /\ k' = k - 1
  /\ pc' = IF d \div 2 # 0 THEN "subtract" ELSE "done"
  /\ UNCHANGED <<n, base>>

\* Mutant: d is not shifted.
SubtractForever ==
  /\ pc = "subtract"
  /\ IF rem >= b
     THEN rem' = (rem - b) % M /\ res' = (res + d) % M
     ELSE UNCHANGED <<rem, res>>
  /\ b' = b \div 2 /\ UNCHANGED <<d, k>>
  /\ pc' = IF d # 0 THEN "subtract" ELSE "done"
  /\ UNCHANGED <<n, base>>

Subtract ==
  /\ pc = "subtract"
  /\ IF rem >= b
     THEN rem' = (rem - b) % M /\ res' = (res + d) % M
     ELSE UNCHANGED <<rem, res>>
  /\ b' = b \div 2 /\ d' = d \div 2 /\ k' = k - 1
  /\ pc' = IF d \div 2 # 0 THEN "subtract" ELSE "done"
  /\ UNCHANGED <<n, base>>

Finished == pc = "done" /\ UNCHANGED vars     \* the caller has its result

Next == DoDiv \/ Reduce \/ Double \/ Subtract \/ Finished

Spec == Init /\ [][Next]_vars

FairSpec == Spec /\ WF_vars(DoDiv \/ Reduce \/ Double \/ Subtract)

-----------------------------------------------------------------------------
\* "The semantics of do_div()" (div64.h:24-31): the quotient replaces the
\* dividend and the remainder is returned, for every dividend and divisor.
Correct == pc = "done" => res = n \div base /\ rem = n % base

\* The inductive invariant: no operation wraps around, so that the words are
\* the numbers of the long division.
Inv ==
  /\ TypeOK
  /\ n = res * base + rem
  /\ pc \in {"do_div", "reduce"} => rem = n /\ res = 0
  /\ pc \in {"do_div", "reduce", "double", "subtract"} => k >= 0 /\ d = Pow2[k] /\ b = base * d
  /\ pc = "subtract" => rem < 2 * b
  /\ pc = "done" => rem < base

\* The division ends: both loops of __div64_32 do.
Terminates == <>(pc = "done")
=============================================================================
