---------------------------- MODULE Div64Proofs ----------------------------
(***************************************************************************)
(* do_div divides, for every width, dividend and divisor.                  *)
(***************************************************************************)
EXTENDS Div64, TLAPS

\* The sizes of the words.
LEMMA Sizes ==
  /\ M \in Nat /\ Half \in Nat /\ Sign \in Nat
  /\ M = 2 * Sign /\ M = Half * Half /\ Half > 1
<1>1. W \in 0 .. 2*W /\ 2*W \in 0 .. 2*W /\ 2*W - 1 \in 0 .. 2*W - 1 /\ 0 \in 0 .. 2*W /\ 0 < W
  BY WAssumption
<1>2. M \in Nat /\ Half \in Nat /\ Sign \in Nat
  BY <1>1, Pow2Assumption DEF M, Half, Sign
<1>3. M = 2 * Sign
  <2>1. Pow2[(2*W - 1) + 1] = 2 * Pow2[2*W - 1]
    BY <1>1, Pow2Assumption
  <2>2. (2*W - 1) + 1 = 2*W
    BY WAssumption
  <2> QED
    BY <2>1, <2>2 DEF M, Sign
<1>4. Half > 1
  BY <1>1, <1>2, Pow2Assumption DEF Half
<1> QED
  BY <1>2, <1>3, <1>4, Pow2Assumption DEF M, Half

\* Powers of two are positive and increase.
LEMMA Powers ==
  ASSUME NEW i \in 0 .. 2*W
  PROVE  /\ Pow2[i] \in Nat /\ Pow2[i] >= 1
         /\ i >= 1 => i - 1 \in 0 .. 2*W /\ Pow2[i] = 2 * Pow2[i - 1]
         /\ \A j \in 0 .. 2*W : Pow2[i] < Pow2[j] => i < j
<1>1. i \in Nat /\ i <= 2*W /\ W \in Nat
  BY WAssumption
<1>2. Pow2 \in [0 .. 2*W -> Nat] /\ Pow2[0] = 1
  BY Pow2Assumption
<1>3. \A j \in 0 .. 2*W : Pow2[j] \in Nat
  BY <1>2
<1>4. ASSUME NEW j \in 0 .. 2*W, NEW l \in 0 .. 2*W, j < l PROVE Pow2[j] < Pow2[l]
  BY <1>4, Pow2Assumption
<1>5. Pow2[i] >= 1
  <2>1. 0 \in 0 .. 2*W
    BY <1>1
  <2>2. i = 0 \/ 0 < i
    BY <1>1
  <2>3. 0 < i => Pow2[0] < Pow2[i]
    BY <1>4, <2>1
  <2> QED
    BY <1>2, <1>3, <2>2, <2>3
<1>6. i >= 1 => i - 1 \in 0 .. 2*W /\ Pow2[i] = 2 * Pow2[i - 1]
  <2> SUFFICES ASSUME i >= 1 PROVE i - 1 \in 0 .. 2*W /\ Pow2[i] = 2 * Pow2[i - 1]
    OBVIOUS
  <2>1. i - 1 \in 0 .. 2*W - 1 /\ (i - 1) + 1 = i /\ i - 1 \in 0 .. 2*W
    BY <1>1
  <2>2. \A j \in 0 .. 2*W - 1 : Pow2[j + 1] = 2 * Pow2[j]
    BY Pow2Assumption
  <2>3. Pow2[(i - 1) + 1] = 2 * Pow2[i - 1]
    BY <2>1, <2>2
  <2> QED
    BY <2>1, <2>3
<1>7. ASSUME NEW j \in 0 .. 2*W, Pow2[i] < Pow2[j] PROVE i < j
  <2>1. j \in Nat
    OBVIOUS
  <2>2. j < i => Pow2[j] < Pow2[i]
    BY <1>4
  <2>3. ~(j < i) /\ j # i
    BY <1>3, <1>7, <2>2
  <2> QED
    BY <1>1, <2>1, <2>3
<1> QED
  BY <1>3, <1>5, <1>6, <1>7

\* A word below the modulus is left alone by it.
LEMMA NoWrap ==
  ASSUME NEW x \in Nat, NEW m \in Nat, x < m
  PROVE  x % m = x
OBVIOUS

\* A product of natural numbers is a natural number no smaller than a factor.
LEMMA ProductBound ==
  ASSUME NEW x \in Nat, NEW y \in Nat, y >= 1
  PROVE  x * y \in Nat /\ x <= x * y
<1>1. PICK z \in Nat : y = 1 + z
  <2>1. y - 1 \in Nat /\ y = 1 + (y - 1)
    OBVIOUS
  <2> QED
    BY <2>1
<1>2. x * y = x + x * z /\ x * z \in Nat
  BY <1>1
<1> QED
  BY <1>2

\* Quotient and remainder are determined by the equation and the bound.
LEMMA DivisionUnique ==
  ASSUME NEW x \in Nat, NEW y \in Nat, y > 0, NEW q \in Nat, NEW r \in Nat,
         x = q * y + r, r < y
  PROVE  q = x \div y /\ r = x % y
OBVIOUS

\* The division starts from a state of the long division.
LEMMA InitInv == Init => Inv
<1> SUFFICES ASSUME Init PROVE Inv
  OBVIOUS
<1>1. M \in Nat /\ Half \in Nat /\ M = Half * Half /\ Half > 1
  BY Sizes
<1>2. Half <= M
  BY <1>1, ProductBound
<1>3. 0 \in 0 .. 2*W /\ 0 \in -1 .. 2*W
  BY WAssumption
<1>4. TypeOK
  BY <1>1, <1>2, <1>3 DEF Init, TypeOK
<1> QED
  BY <1>1, <1>3, <1>4, Pow2Assumption DEF Init, Inv, TypeOK

\* What Inv says of the values before a step.
LEMMA Values ==
  ASSUME Inv
  PROVE  /\ n \in Nat /\ n < M /\ base \in Nat /\ base >= 1 /\ base < Half
         /\ rem \in Nat /\ rem < M /\ b \in Nat /\ b < M /\ d \in Nat /\ d < M
         /\ res \in Nat /\ res < M /\ k \in Int
         /\ M \in Nat /\ Half \in Nat /\ Sign \in Nat /\ M = 2 * Sign /\ M = Half * Half /\ Half > 1
BY Sizes DEF Inv, TypeOK

\* The 32-bit operators of do_div give the result at once.
LEMMA DoDivInv ==
  ASSUME Inv, DoDiv
  PROVE  Inv'
<1>0. /\ n \in Nat /\ n < M /\ base \in Nat /\ base >= 1 /\ M \in Nat
  BY Values
<1>1. CASE n \div Half = 0
  <2>1. /\ rem' = n % base /\ res' = n \div base /\ pc' = "done"
        /\ UNCHANGED <<n, base, b, d, k>>
    BY <1>1 DEF DoDiv
  <2>2. n % base \in 0 .. base - 1 /\ n \div base \in Nat /\ n = (n \div base) * base + (n % base)
    BY <1>0
  <2>3. n \div base <= n
    <3> DEFINE q == n \div base
    <3>1. q \in Nat /\ q * base <= n /\ q * base \in Nat
      BY <2>2, <1>0
    <3>2. q <= q * base
      BY <3>1, <1>0, ProductBound
    <3> QED
      BY <3>1, <3>2, <1>0
  <2>4. n % base <= n
    BY <2>2, <1>0
  <2>5. TypeOK'
    BY <1>0, <2>1, <2>2, <2>3, <2>4 DEF Inv, TypeOK
  <2> QED
    BY <1>0, <2>1, <2>2, <2>5 DEF Inv
<1>2. CASE n \div Half # 0
  BY <1>2 DEF DoDiv, Inv, TypeOK
<1> QED
  BY <1>1, <1>2

\* The reduction subtracts a multiple of base * 2^W no greater than the dividend.
LEMMA ReduceInv ==
  ASSUME Inv, Reduce
  PROVE  Inv'
<1>0. /\ n \in Nat /\ n < M /\ base \in Nat /\ base >= 1 /\ base < Half
      /\ M \in Nat /\ Half \in Nat /\ M = Half * Half /\ Half > 1
      /\ rem = n /\ res = 0 /\ k >= 0 /\ d = Pow2[k] /\ b = base * d
  BY Values DEF Inv, Reduce
<1>1. pc' = "double" /\ UNCHANGED <<n, base, b, d, k>>
  BY DEF Reduce
<1> DEFINE high == rem \div Half
           q == high \div base
<1>2. CASE high >= base
  <2>1. res' = (q * Half) % M /\ rem' = (rem - ((q * base) % Half) * Half) % M
    BY <1>2 DEF Reduce
  <2>2. high \in Nat /\ high * Half <= n /\ high < Half
    <3>1. high \in Nat /\ high * Half <= n
      BY <1>0
    <3>2. high * Half < Half * Half
      BY <1>0, <3>1
    <3> QED
      BY <1>0, <3>1, <3>2
  <2> HIDE DEF high
  <2>3. q \in Nat /\ q * base <= high /\ q * base \in Nat
    BY <1>0, <2>2
  <2> HIDE DEF q
  <2>4. q <= q * base
    BY <1>0, <2>3, ProductBound
  <2>5. q * Half <= n /\ q * Half \in Nat
    <3>1. q * Half <= high * Half
      BY <1>0, <2>2, <2>3, <2>4
    <3> QED
      BY <1>0, <2>2, <2>3, <3>1
  <2>6. (q * base) % Half = q * base
    BY <1>0, <2>2, <2>3
  <2>7. (q * base) * Half <= n /\ (q * base) * Half \in Nat
    <3>1. (q * base) * Half <= high * Half
      BY <1>0, <2>2, <2>3
    <3> QED
      BY <1>0, <2>2, <2>3, <3>1
  <2>8. res' = q * Half /\ rem' = n - (q * base) * Half
    BY <1>0, <2>1, <2>5, <2>6, <2>7
  <2>9. (q * base) * Half = (q * Half) * base
    BY <1>0, <2>3
  <2>10. n = res' * base + rem'
    BY <1>0, <2>5, <2>7, <2>8, <2>9
  <2>11. TypeOK'
    BY <1>0, <1>1, <2>5, <2>7, <2>8 DEF Inv, TypeOK
  <2> QED
    BY <1>0, <1>1, <2>10, <2>11 DEF Inv
<1>3. CASE ~(high >= base)
  BY <1>3 DEF Reduce, Inv, TypeOK
<1> QED
  BY <1>2, <1>3

\* Doubling keeps b = base * d and stops with b more than half of the rest.
LEMMA DoubleInv ==
  ASSUME Inv, Double
  PROVE  Inv'
<1>0. /\ n \in Nat /\ n < M /\ base \in Nat /\ base >= 1 /\ base < Half
      /\ rem \in Nat /\ rem < M /\ b \in Nat /\ d \in Nat /\ Sign \in Nat /\ M = 2 * Sign /\ M \in Nat
      /\ k \in 0 .. 2*W /\ d = Pow2[k] /\ b = base * d
  BY Values DEF Inv, Double, TypeOK
<1>1. CASE 0 < b /\ b < Sign /\ b < rem
  <2>1. /\ b' = (b + b) % M /\ d' = (d + d) % M /\ k' = k + 1 /\ pc' = pc /\ pc = "double"
        /\ UNCHANGED <<n, base, rem, res>>
    BY <1>1 DEF Double
  <2>2. d <= b
    BY <1>0, ProductBound
  <2>3. b' = b + b /\ d' = d + d /\ b' < M /\ d' < M
    <3>1. b + b \in Nat /\ b + b < M /\ d + d \in Nat /\ d + d < M
      BY <1>0, <1>1, <2>2
    <3> QED
      BY <1>0, <2>1, <3>1, NoWrap
  <2>4. k < 2*W - 1
    <3>1. Pow2[k] < Pow2[2*W - 1]
      BY <1>0, <1>1, <2>2 DEF Sign
    <3>2. 2*W - 1 \in 0 .. 2*W
      BY WAssumption
    <3> QED
      BY <1>0, <3>1, <3>2, Powers
  <2>5. d' = Pow2[k'] /\ k' \in 0 .. 2*W
    <3>1. k + 1 \in 0 .. 2*W /\ k + 1 >= 1 /\ (k + 1) - 1 = k
      BY <1>0, <2>4, WAssumption
    <3>2. Pow2[k + 1] = 2 * Pow2[k]
      BY <3>1, Powers
    <3> QED
      BY <1>0, <2>1, <2>3, <3>1, <3>2
  <2>6. b' = base * d'
    BY <1>0, <2>3
  <2>7. TypeOK'
    BY <1>0, <2>1, <2>3, <2>5 DEF Inv, TypeOK
  <2> QED
    BY <1>0, <2>1, <2>5, <2>6, <2>7 DEF Inv
<1>2. CASE ~(0 < b /\ b < Sign /\ b < rem)
  <2>1. pc = "double" /\ pc' = "subtract" /\ UNCHANGED <<n, base, rem, res, b, d, k>>
    BY <1>2 DEF Double
  <2>2. d >= 1
    BY <1>0, Powers
  <2>3. b >= 1
    BY <1>0, <2>2, ProductBound
  <2>4. rem < 2 * b
    BY <1>0, <1>2, <2>3
  <2> QED
    BY <2>1, <2>4 DEF Inv, TypeOK
<1> QED
  BY <1>1, <1>2

\* One bit of the quotient: subtracting keeps rem below twice the next b.
LEMMA SubtractInv ==
  ASSUME Inv, Subtract
  PROVE  Inv'
<1>0. /\ n \in Nat /\ n < M /\ base \in Nat /\ base >= 1 /\ base < Half /\ M \in Nat
      /\ rem \in Nat /\ rem < M /\ b \in Nat /\ d \in Nat /\ res \in Nat /\ res < M
      /\ k \in 0 .. 2*W /\ d = Pow2[k] /\ b = base * d /\ rem < 2 * b /\ n = res * base + rem
      /\ b < M /\ d < M
  BY Values DEF Inv, Subtract, TypeOK
<1>1. /\ b' = b \div 2 /\ d' = d \div 2 /\ k' = k - 1
      /\ pc' = IF d \div 2 # 0 THEN "subtract" ELSE "done"
      /\ UNCHANGED <<n, base>>
  BY DEF Subtract
<1>2. /\ rem' \in Nat /\ rem' < M /\ res' \in Nat /\ res' < M
      /\ n = res' * base + rem' /\ rem' < b
  <2>1. CASE rem >= b
    <3>1. rem' = (rem - b) % M /\ res' = (res + d) % M
      BY <2>1 DEF Subtract
    <3>2. rem - b \in Nat /\ rem - b < M /\ rem - b < b
      BY <1>0, <2>1
    <3>3. (res + d) * base = res * base + b
      BY <1>0
    <3>4. res + d \in Nat /\ n = (res + d) * base + (rem - b)
      BY <1>0, <2>1, <3>3
    <3>5. res + d <= (res + d) * base /\ (res + d) * base \in Nat
      BY <1>0, <3>4, ProductBound
    <3>6. res + d < M
      BY <1>0, <3>2, <3>4, <3>5
    <3>7. rem' = rem - b /\ res' = res + d
      BY <1>0, <3>1, <3>2, <3>4, <3>6, NoWrap
    <3> QED
      BY <3>2, <3>4, <3>6, <3>7
  <2>2. CASE ~(rem >= b)
    BY <1>0, <2>2 DEF Subtract
  <2> QED
    BY <2>1, <2>2
<1>3. CASE k = 0
  <2>1. d = 1 /\ b = base
    BY <1>0, <1>3, Pow2Assumption
  <2>2. d' = 0 /\ pc' = "done" /\ b' \in Nat /\ b' <= b /\ k' = -1
    BY <1>0, <1>1, <1>3, <2>1
  <2>3. TypeOK'
    BY <1>0, <1>1, <1>2, <2>2, WAssumption DEF Inv, TypeOK
  <2> QED
    BY <1>0, <1>1, <1>2, <2>1, <2>2, <2>3 DEF Inv
<1>4. CASE k # 0
  <2>1. k - 1 \in 0 .. 2*W /\ Pow2[k] = 2 * Pow2[k - 1] /\ Pow2[k - 1] \in Nat /\ Pow2[k - 1] >= 1
    <3>1. k >= 1 /\ k - 1 \in 0 .. 2*W
      BY <1>0, <1>4, WAssumption
    <3> QED
      BY <1>0, <3>1, Powers
  <2> DEFINE e == Pow2[k - 1]
  <2>2. d = 2 * e /\ b = 2 * (base * e) /\ base * e \in Nat
    BY <1>0, <2>1
  <2>3. d' = e /\ b' = base * e /\ 2 * b' = b /\ d' # 0
    <3>1. d \div 2 = e
      BY <2>1, <2>2
    <3>2. b \div 2 = base * e
      BY <2>2
    <3> QED
      BY <1>1, <2>1, <2>2, <3>1, <3>2
  <2>4. pc' = "subtract"
    BY <1>1, <2>3
  <2>5. TypeOK'
    <3>1. d' \in 0 .. M - 1 /\ b' \in 0 .. M - 1 /\ k' \in -1 .. 2*W
      BY <1>0, <1>1, <2>1, <2>2, <2>3
    <3> QED
      BY <1>0, <1>1, <1>2, <2>4, <3>1 DEF Inv, TypeOK
  <2>6. k' >= 0 /\ d' = Pow2[k'] /\ b' = base' * d' /\ rem' < 2 * b'
    BY <1>1, <1>2, <2>1, <2>3
  <2> QED
    BY <1>1, <1>2, <2>4, <2>5, <2>6 DEF Inv
<1> QED
  BY <1>3, <1>4

-----------------------------------------------------------------------------
\* The words are the numbers of the long division throughout.
THEOREM InvHolds == Spec => []Inv
<1>1. Inv /\ [Next]_vars => Inv'
  <2> SUFFICES ASSUME Inv, [Next]_vars PROVE Inv'
    OBVIOUS
  <2>1. CASE DoDiv
    BY <2>1, DoDivInv
  <2>2. CASE Reduce
    BY <2>2, ReduceInv
  <2>3. CASE Double
    BY <2>3, DoubleInv
  <2>4. CASE Subtract
    BY <2>4, SubtractInv
  <2>5. CASE UNCHANGED vars
    BY <2>5 DEF vars, Inv, TypeOK
  <2> QED
    BY <2>1, <2>2, <2>3, <2>4, <2>5 DEF Next, Finished
<1> QED
  BY InitInv, <1>1, PTL DEF Spec

\* do_div has the semantics div64.h states, for every width of the words, every
\* dividend and every divisor but zero.
THEOREM DivisionCorrect == Spec => []Correct
<1>1. Inv => Correct
  <2> SUFFICES ASSUME Inv, pc = "done" PROVE res = n \div base /\ rem = n % base
    BY DEF Correct
  <2>1. n \in Nat /\ base \in Nat /\ base > 0 /\ res \in Nat /\ rem \in Nat
        /\ n = res * base + rem /\ rem < base
    BY Values DEF Inv
  <2> QED
    BY <2>1, DivisionUnique
<1> QED
  BY InvHolds, <1>1, PTL
=============================================================================
