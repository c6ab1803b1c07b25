---------------------------- MODULE TimerProofs ----------------------------
(***************************************************************************)
(* The two halves of the counter and of the alarm fit together, for every  *)
(* width, every set of handlers and every delay; and with interrupts       *)
(* masked neither delay is early, nor __udelay late.                       *)
(***************************************************************************)
EXTENDS Timer, SequenceTheorems, TLAPS

-----------------------------------------------------------------------------
(* Arithmetic. *)

\* A number is so many times the divisor, and the remainder.
LEMMA Division ==
  ASSUME NEW x \in Int, NEW m \in Nat, m >= 1
  PROVE  /\ x \div m \in Int /\ x % m \in 0 .. m - 1
         /\ x = (x \div m) * m + (x % m)
OBVIOUS

\* A multiple has no remainder.
LEMMA Multiple ==
  ASSUME NEW k \in Int, NEW m \in Nat, m >= 1
  PROVE  (k * m) % m = 0
OBVIOUS

\* Quotient and remainder are determined by the equation and the bound.
LEMMA DivisionUnique ==
  ASSUME NEW q \in Int, NEW m \in Nat, m >= 1, NEW r \in Nat, r < m
  PROVE  (q * m + r) \div m = q /\ (q * m + r) % m = r
OBVIOUS

\* Adding a multiple keeps the remainder.
LEMMA AddMultiple ==
  ASSUME NEW k \in Int, NEW x \in Int, NEW m \in Nat, m >= 1
  PROVE  (k * m + x) % m = x % m
<1>1. PICK q \in Int, r \in 0 .. m - 1 : x = q * m + r
  BY Division
<1>2. k * m + x = (k + q) * m + r
  BY <1>1
<1>3. ((k + q) * m + r) % m = r /\ (q * m + r) % m = r
  <2>1. r \in Nat /\ r < m /\ k + q \in Int
    BY <1>1
  <2> QED
    BY <2>1, DivisionUnique
<1> QED
  BY <1>1, <1>2, <1>3

\* The same of a natural number, with names for quotient and remainder.
LEMMA Divided ==
  ASSUME NEW x \in Nat, NEW m \in Nat, m >= 1
  PROVE  \E k \in Nat, r \in Nat : x = k * m + r /\ k = x \div m /\ r = x % m /\ r < m
<1>1. x \div m \in Nat /\ x % m \in Nat /\ x = (x \div m) * m + (x % m) /\ x % m < m
  OBVIOUS
<1> QED
  BY <1>1, Zenon

\* Products of natural numbers, and the laws used below.
LEMMA Products ==
  ASSUME NEW a \in Int, NEW b \in Int, NEW c \in Int
  PROVE  /\ a * b \in Int /\ a * (b * c) = (a * b) * c
         /\ (a + b) * c = a * c + b * c /\ (a - b) * c = a * c - b * c
         /\ a \in Nat /\ b \in Nat => a * b \in Nat
OBVIOUS

\* The quotient by a product's factor, of a number given by its two halves.
LEMMA HalvesQuotient ==
  ASSUME NEW q \in Nat, NEW p \in Nat, p >= 1, NEW h \in Nat, NEW lo \in Nat
  PROVE  (h * (q * p) + lo) \div p = h * q + (lo \div p)
<1>1. PICK a \in Nat, r \in Nat : lo = a * p + r /\ a = lo \div p /\ r = lo % p /\ r < p
  BY Divided
<1>2. PICK k \in Nat : k = h * q + a
  BY Products
<1>3. h * (q * p) + lo = k * p + r
  <2>1. h * (q * p) = (h * q) * p /\ h * q \in Int
    BY Products
  <2>2. (h * q + a) * p = (h * q) * p + a * p
    BY <2>1, Products
  <2>3. h * (q * p) \in Int /\ a * p \in Int
    BY Products
  <2>4. PICK x \in Int, y \in Int : x = h * (q * p) /\ y = a * p
    BY <2>3
  <2>5. k * p = x + y
    BY <1>2, <2>1, <2>2, <2>4, Zenon
  <2>6. x + (y + r) = (x + y) + r
    OBVIOUS
  <2> QED
    BY <1>1, <2>4, <2>5, <2>6, Zenon
<1>4. (k * p + r) \div p = k
  BY <1>1, DivisionUnique
<1> QED
  BY <1>1, <1>2, <1>3, <1>4

\* get_millisecond of the two halves of t is t's millisecond, up to a word.
LEMMA Millisecond ==
  ASSUME NEW q \in Nat, NEW p \in Nat, q >= 1, p >= 1, q * p >= 1, NEW t \in Nat, NEW hi \in Nat
  PROVE  LET now == (hi * q + ((t % (q * p)) \div p)) % (q * p)
         IN  /\ (now - (t \div p)) % q = 0
             /\ hi = t \div (q * p) => (now - (t \div p)) % (q * p) = 0
<1>0. q * p \in Nat
  BY Products
<1>1. PICK h \in Nat, lo \in Nat : t = h * (q * p) + lo /\ h = t \div (q * p) /\ lo = t % (q * p) /\ lo < q * p
  BY <1>0, Divided
<1>2. PICK a \in Nat, r \in Nat : lo = a * p + r /\ a = lo \div p /\ r = lo % p /\ r < p
  BY Divided
<1>3. t \div p = h * q + a
  <2>1. (h * (q * p) + lo) \div p = h * q + (lo \div p)
    BY HalvesQuotient
  <2> QED
    BY <1>1, <1>2, <2>1, Zenon
<1>4. PICK x \in Nat : x = hi * q + a
  BY Products
<1>5. PICK k \in Nat, now \in Nat : x = k * (q * p) + now /\ k = x \div (q * p) /\ now = x % (q * p) /\ now < q * p
  BY <1>0, Divided
<1>6. now - (t \div p) = (hi - h) * q - k * (q * p)
  <2>1. hi * q \in Int /\ h * q \in Int /\ k * (q * p) \in Int /\ (hi - h) * q = hi * q - h * q
    BY <1>0, Products
  <2> QED
    BY <1>3, <1>4, <1>5, <2>1
<1>7. (now - (t \div p)) % q = 0
  <2>1. k * p \in Int /\ k * (p * q) = (k * p) * q /\ p * q = q * p
    BY Products
  <2>2. ((hi - h) - k * p) * q = (hi - h) * q - (k * p) * q
    BY <2>1, Products
  <2>3. now - (t \div p) = ((hi - h) - k * p) * q
    BY <1>6, <2>1, <2>2
  <2>4. (hi - h) - k * p \in Int
    BY <2>1
  <2> QED
    BY <2>3, <2>4, Multiple
<1>8. hi = h => (now - (t \div p)) % (q * p) = 0
  <2> SUFFICES ASSUME hi = h PROVE (now - (t \div p)) % (q * p) = 0
    OBVIOUS
  <2>1. (hi - h) * q = 0
    OBVIOUS
  <2>2. (0 - k) * (q * p) = 0 * (q * p) - k * (q * p) /\ 0 * (q * p) = 0
    BY <1>0, Products
  <2>3. now - (t \div p) = (0 - k) * (q * p)
    BY <1>6, <2>1, <2>2
  <2>4. 0 - k \in Int
    OBVIOUS
  <2> QED
    BY <1>0, <2>3, <2>4, Multiple
<1> QED
  BY <1>1, <1>2, <1>4, <1>5, <1>7, <1>8

\* The low half of goldfish_set_timer's sum, and its carry.
LEMMA CarryRight ==
  ASSUME NEW m \in Nat, m >= 1, NEW lo \in Nat, lo < m, NEW y \in Nat, y < m
  PROVE  LET tmp == (lo + y) % m
         IN  tmp \in Nat /\ lo + y = (IF lo > tmp THEN m ELSE 0) + tmp
<1>1. CASE lo + y < m
  <2>1. (lo + y) % m = lo + y
    BY <1>1
  <2> QED
    BY <2>1
<1>2. CASE lo + y >= m
  <2>1. PICK r \in Nat : lo + y = m + r /\ r < m /\ r < lo
    <3>1. lo + y - m \in Nat /\ lo + y - m < m /\ lo + y - m < lo /\ lo + y = m + (lo + y - m)
      BY <1>2
    <3> QED
      BY <3>1
  <2>2. (1 * m + r) % m = r
    BY <2>1, DivisionUnique
  <2>3. (lo + y) % m = r
    BY <2>1, <2>2
  <2> QED
    BY <2>1, <2>3
<1> QED
  BY <1>1, <1>2

\* The milliseconds below a turn of the low half are fewer counts than a turn.
LEMMA BelowTurn ==
  ASSUME NEW q \in Nat, NEW p \in Nat, p >= 1, NEW b \in Nat, b < q
  PROVE  b * p \in Nat /\ b * p < q * p
<1>1. PICK z \in Nat : q = (b + 1) + z
  <2>1. q - b - 1 \in Nat /\ q = (b + 1) + (q - b - 1)
    OBVIOUS
  <2> QED
    BY <2>1
<1>2. q * p = (b + 1) * p + z * p /\ (b + 1) * p = b * p + 1 * p
  BY <1>1, Products
<1>3. b * p \in Nat /\ z * p \in Nat
  BY Products
<1> QED
  BY <1>2, <1>3

\* The time the alarm is due, in turns of the low half and counts below one.
LEMMA DueHalves ==
  ASSUME NEW q \in Nat, NEW p \in Nat, NEW h \in Nat, NEW lo \in Nat, NEW a \in Nat, NEW b \in Nat
  PROVE  (h * (q * p) + lo) + (a * q + b) * p = (h + a) * (q * p) + (lo + b * p)
<1>1. a * q \in Int /\ q * p \in Int /\ b * p \in Int
  BY Products
<1>2. (a * q + b) * p = (a * q) * p + b * p
  BY <1>1, Products
<1>3. a * (q * p) = (a * q) * p /\ (h + a) * (q * p) = h * (q * p) + a * (q * p)
  BY <1>1, Products
<1>4. h * (q * p) \in Int /\ a * (q * p) \in Int
  BY <1>1, Products
<1>5. PICK x \in Int, y \in Int, z \in Int : x = h * (q * p) /\ y = a * (q * p) /\ z = b * p
  BY <1>1, <1>4
<1>6. (x + lo) + (y + z) = (x + y) + (lo + z)
  OBVIOUS
<1> QED
  BY <1>2, <1>3, <1>5, <1>6, Zenon

\* A high half kept to its bits is off by whole turns of the counter.
LEMMA HighWraps ==
  ASSUME NEW g \in Nat, g >= 1, NEW m \in Nat, g * m >= 1, NEW full \in Nat, NEW tmp \in Nat
  PROVE  ((full % g) * m + tmp - (full * m + tmp)) % (g * m) = 0
<1>0. g * m \in Nat
  BY Products
<1>1. PICK j \in Nat, s \in Nat : full = j * g + s /\ j = full \div g /\ s = full % g /\ s < g
  BY Divided
<1>2. j * g \in Int /\ (j * g + s) * m = (j * g) * m + s * m /\ j * (g * m) = (j * g) * m
  BY Products
<1>3. PICK x \in Int, y \in Int : x = j * (g * m) /\ y = s * m
  BY <1>0, Products
<1>4. full * m = x + y
  BY <1>1, <1>2, <1>3, Zenon
<1>5. y + tmp - ((x + y) + tmp) = 0 - x
  OBVIOUS
<1>6. (0 - j) * (g * m) = 0 * (g * m) - j * (g * m) /\ 0 * (g * m) = 0
  BY <1>0, Products
<1>7. 0 - j \in Int
  OBVIOUS
<1>8. ((0 - j) * (g * m)) % (g * m) = 0
  BY <1>0, <1>7, Multiple
<1>9. (0 - x) % (g * m) = 0
  BY <1>3, <1>6, <1>8, Zenon
<1> QED
  BY <1>1, <1>3, <1>4, <1>5, <1>9, Zenon

\* goldfish_set_timer's sums: a word is m counts, q milliseconds of p counts, and
\* the counter g words; t was read with the high half hi, and w milliseconds are
\* to be added.
AlarmSums(q, p, g, m, t, w, hi, low, full) ==
  /\ q \in Nat /\ p \in Nat /\ g \in Nat /\ q >= 1 /\ p >= 1 /\ g >= 1
  /\ q * p >= 1 /\ g * (q * p) >= 1 /\ m = q * p
  /\ t \in Nat /\ w \in Nat /\ hi \in Nat
  /\ low = ((t % m) + (w % q) * p) % m
  /\ full = hi + (w \div q) + (IF (t % m) > low THEN 1 ELSE 0)

\* The low half is that of the time the alarm is due, whatever high half was
\* read; and when the halves read were of one moment, the two written make that
\* time, up to whole turns of the counter.
AlarmRight(q, p, g, m, t, w, hi, low, full) ==
  /\ low \in Nat /\ full \in Nat
  /\ low = (t + w * p) % m
  /\ hi = t \div m => ((full % g) * m + low - (t + w * p)) % (g * m) = 0

LEMMA AlarmHalves ==
  ASSUME NEW q, NEW p, NEW g, NEW m, NEW t, NEW w, NEW hi, NEW low, NEW full,
         AlarmSums(q, p, g, m, t, w, hi, low, full)
  PROVE  AlarmRight(q, p, g, m, t, w, hi, low, full)
<1>a. q \in Nat /\ p \in Nat /\ g \in Nat /\ t \in Nat /\ w \in Nat /\ hi \in Nat
  BY DEF AlarmSums
<1>b. q >= 1 /\ p >= 1 /\ g >= 1 /\ q * p >= 1 /\ g * (q * p) >= 1 /\ m = q * p
  BY DEF AlarmSums
<1>c. low = ((t % m) + (w % q) * p) % m
  BY DEF AlarmSums
<1>d. full = hi + (w \div q) + (IF (t % m) > low THEN 1 ELSE 0)
  BY DEF AlarmSums
<1>1. PICK h \in Nat, lo \in Nat : t = h * m + lo /\ h = t \div m /\ lo = t % m /\ lo < m
  <2>1. m \in Nat /\ m >= 1
    BY <1>a, <1>b, Products
  <2> QED
    BY <1>a, <2>1, Divided
<1>2. PICK a \in Nat, b \in Nat : w = a * q + b /\ a = w \div q /\ b = w % q /\ b < q
  BY <1>a, <1>b, Divided
<1>3. PICK y \in Nat : y = b * p /\ y < m
  <2>1. b * p \in Nat /\ b * p < q * p
    BY <1>a, <1>b, <1>2, BelowTurn
  <2> QED
    BY <1>b, <2>1, Zenon
<1>4. m \in Nat /\ m >= 1
  BY <1>a, <1>b, Products
<1>5. low = (lo + y) % m
  BY <1>c, <1>1, <1>2, <1>3, Zenon
<1>6. low \in Nat /\ lo + y = (IF lo > low THEN m ELSE 0) + low
  <2>1. LET tmp == (lo + y) % m
        IN  tmp \in Nat /\ lo + y = (IF lo > tmp THEN m ELSE 0) + tmp
    BY <1>1, <1>3, <1>4, CarryRight
  <2> QED
    BY <1>5, <2>1, Zenon
<1>7. t + w * p = (h + a) * m + (lo + y)
  <2>1. (h * (q * p) + lo) + (a * q + b) * p = (h + a) * (q * p) + (lo + b * p)
    BY <1>a, DueHalves
  <2> QED
    BY <1>b, <1>1, <1>2, <1>3, <2>1, Zenon
<1>8. low = (t + w * p) % m
  <2>1. h + a \in Int /\ lo + y \in Int
    OBVIOUS
  <2>2. ((h + a) * m + (lo + y)) % m = (lo + y) % m
    BY <1>4, <2>1, AddMultiple
  <2> QED
    BY <1>5, <1>7, <2>2, Zenon
<1>9. PICK c \in Nat : c = IF lo > low THEN 1 ELSE 0
  OBVIOUS
<1>10. full = hi + a + c /\ full \in Nat
  <2>1. full = hi + a + c
    BY <1>d, <1>1, <1>2, <1>9, Zenon
  <2> QED
    BY <1>a, <2>1
<1>11. hi = h => t + w * p = full * m + low
  <2> SUFFICES ASSUME hi = h PROVE t + w * p = full * m + low
    OBVIOUS
  <2>1. lo + y = c * m + low
    BY <1>4, <1>6, <1>9
  <2>2. h + a \in Int /\ c \in Int /\ ((h + a) + c) * m = (h + a) * m + c * m
    BY <1>4, Products
  <2>3. PICK u \in Int, v \in Int : u = (h + a) * m /\ v = c * m
    BY <1>4, <2>2, Products
  <2>4. u + (v + low) = (u + v) + low
    BY <1>6
  <2>5. full = (h + a) + c
    BY <1>10
  <2> QED
    BY <1>7, <2>1, <2>2, <2>3, <2>4, <2>5, Zenon
<1>12. ((full % g) * m + low - (full * m + low)) % (g * m) = 0
  <2>1. g * m >= 1
    BY <1>b, Zenon
  <2>2. g \in Nat /\ g >= 1 /\ m \in Nat /\ full \in Nat /\ low \in Nat
    BY <1>a, <1>b, <1>4, <1>6, <1>10, Zenon
  <2> QED
    BY <2>1, <2>2, HighWraps
<1>13. hi = h => ((full % g) * m + low - (t + w * p)) % (g * m) = 0
  BY <1>11, <1>12, Zenon
<1> QED
  BY <1>1, <1>6, <1>8, <1>10, <1>13, Zenon DEF AlarmRight

-----------------------------------------------------------------------------
(* The widths. *)

\* The powers of two are positive, and a word is so many milliseconds, the
\* counter so many words.
LEMMA Sizes ==
  /\ 2^S \in Nat /\ 2^S >= 1 /\ 2^(W - S) \in Nat /\ 2^(W - S) >= 1
  /\ M \in Nat /\ M >= 1 /\ 2^H \in Nat /\ 2^H >= 1 /\ 2^(W + H) \in Nat /\ 2^(W + H) >= 1
  /\ M = 2^(W - S) * 2^S /\ 2^(W + H) = 2^H * M
<1>1. \A x \in Nat \ {0} : x \in Nat /\ x >= 1
  OBVIOUS
<1> QED
  BY <1>1, PowerAssumption, Zenon DEF M

\* Words and times.
LEMMA Words ==
  /\ 0 \in Word /\ 0 \in Time /\ 0 \in 0 .. 2^H - 1
  /\ \A x \in Int : x % M \in Word /\ x % 2^H \in 0 .. 2^H - 1 /\ x % 2^(W + H) \in Time
  /\ \A x \in Word : x \in Nat /\ x < M
  /\ \A x \in Time : x \in Nat /\ x \div M \in 0 .. 2^H - 1
  /\ \A x \in 0 .. 2^H - 1, y \in Word : x * M + y \in Time
<1>1. PICK m \in Nat, g \in Nat, n \in Nat : m = M /\ g = 2^H /\ n = 2^(W + H)
  BY Sizes, Zenon
<1>2. m >= 1 /\ g >= 1 /\ n >= 1 /\ n = g * m
  BY <1>1, Sizes, Zenon
<1>3. Word = 0 .. m - 1 /\ Time = 0 .. n - 1 /\ 0 .. 2^H - 1 = 0 .. g - 1
  BY <1>1, Zenon DEF Word, Time
<1>4. \A x \in Int : x % m \in 0 .. m - 1 /\ x % g \in 0 .. g - 1 /\ x % n \in 0 .. n - 1
  BY <1>2, Division
<1>5. \A x \in 0 .. n - 1 : x \in Nat /\ x \div m \in 0 .. g - 1
  <2> SUFFICES ASSUME NEW x \in 0 .. n - 1 PROVE x \in Nat /\ x \div m \in 0 .. g - 1
    OBVIOUS
  <2>1. x \in Nat /\ x < g * m
    BY <1>2
  <2>2. PICK k \in Nat, r \in Nat : x = k * m + r /\ k = x \div m /\ r = x % m /\ r < m
    BY <1>2, <2>1, Divided
  <2>3. ~(g <= k)
    <3> SUFFICES ASSUME g <= k PROVE FALSE
      OBVIOUS
    <3>1. PICK z \in Nat : k = g + z
      <4>1. k - g \in Nat /\ k = g + (k - g)
        OBVIOUS
      <4> QED
        BY <4>1
    <3>2. k * m = g * m + z * m /\ z * m \in Nat /\ g * m \in Nat
      BY <3>1, Products
    <3> QED
      BY <2>1, <2>2, <3>2
  <2> QED
    BY <2>1, <2>2, <2>3
<1>6. \A x \in 0 .. g - 1, y \in 0 .. m - 1 : x * m + y \in 0 .. n - 1
  <2> SUFFICES ASSUME NEW x \in 0 .. g - 1, NEW y \in 0 .. m - 1 PROVE x * m + y \in 0 .. n - 1
    OBVIOUS
  <2>1. PICK z \in Nat : g = (x + 1) + z
    <3>1. g - x - 1 \in Nat /\ g = (x + 1) + (g - x - 1)
      OBVIOUS
    <3> QED
      BY <3>1
  <2>2. g * m = (x + 1) * m + z * m /\ (x + 1) * m = x * m + 1 * m
    BY <2>1, Products
  <2>3. x * m \in Nat /\ z * m \in Nat
    BY Products
  <2> QED
    BY <1>2, <2>2, <2>3
<1>7. 0 \in 0 .. m - 1 /\ 0 \in 0 .. n - 1 /\ 0 \in 0 .. g - 1
  BY <1>2
<1>8. \A x \in 0 .. m - 1 : x \in Nat /\ x < m
  OBVIOUS
<1> QED
  BY <1>1, <1>3, <1>4, <1>5, <1>6, <1>7, <1>8, Zenon

LEMMA Zeros == 0 \in Word /\ 0 \in Time /\ 0 \in 0 .. 2^H - 1
BY Words, Zenon

\* What get_timer_masked adds to the stamp is a number.
LEMMA AdvanceIsNat ==
  ASSUME NEW now \in Word, lastdec \in Word
  PROVE  Advance(now) \in Nat
<1>1. now \in Nat /\ lastdec \in Nat /\ lastdec < M /\ M \in Nat
  BY Words, Sizes
<1> QED
  BY <1>1 DEF Advance

-----------------------------------------------------------------------------
(* Activations. *)

\* What Inv says of one activation, with the latch and TIMER_ALARM_HIGH.
Timed(c) ==
  /\ c.pc \in {"add", "resetDec"} =>
       (c.now - Milliseconds(c.read)) % (IF c.torn THEN 2^(W - S) ELSE M) = 0
  /\ c.pc = "done" /\ c.then = "read" => c.now = c.read % M

Due(c) == c.read + c.req * 2^S

Halved(c, lat, ah) ==
  /\ c.pc = "high" => c.lo = c.read % M /\ (c.torn \/ lat = c.read \div M)
  /\ c.pc \in {"alarmHigh", "alarmLow"} =>
       /\ c.then = "alarm" /\ c.lo = Due(c) % M
       /\ c.torn \/ (c.hi * M + c.lo - Due(c)) % 2^(W + H) = 0
  /\ c.pc = "alarmLow" => ah = c.hi
  /\ c.then = "alarm" => c.irq = "TTY2" /\ c.tmo = c.req

Fine(c, lat, ah) == Timed(c) /\ Halved(c, lat, ah)

AllFine == \A k \in DOMAIN ctx : Fine(ctx[k], latch, alarmHigh)

\* Inv, activation by activation.
LEMMA InvByActivation == Inv <=> TypeOK /\ AllFine /\ OncePerNumber
BY Zenon DEF Inv, AllFine, Fine, Timed, Halved, Due, ReadNotTorn, Halves

\* A new activation is fine.
LEMMA NewFine ==
  ASSUME NEW irq, NEW then, NEW arg, NEW lat, NEW ah,
         irq \in Handlers \cup {"main"}, then \in Then, arg \in Word,
         then = "alarm" => irq = "TTY2"
  PROVE  New(irq, then, arg) \in Activation /\ Fine(New(irq, then, arg), lat, ah)
         /\ New(irq, then, arg).irq = irq
<1>1. New(irq, then, arg) \in Activation
  BY Zeros DEF New, Activation, PC
<1> QED
  BY <1>1 DEF New, Fine, Timed, Halved

-----------------------------------------------------------------------------
(* The stack of activations. *)

\* The type invariant but for the stack.
StateOK ==
  /\ time \in Time /\ latch \in 0 .. 2^H - 1 /\ alarmHigh \in 0 .. 2^H - 1
  /\ alarm \in Time
  /\ timestamp \in Word /\ lastdec \in Word
  /\ elapsed \in 0 .. Horizon /\ lag \in 0 .. MaxLag

LEMMA TypeOKParts == TypeOK <=> StateOK /\ ctx \in Seq(Activation)
BY Zenon DEF TypeOK, StateOK

\* The same after a step.
LEMMA InvAfter == StateOK' /\ ctx' \in Seq(Activation) /\ AllFine' /\ OncePerNumber' => Inv'
<1>1. StateOK' /\ ctx' \in Seq(Activation) => TypeOK'
  BY Zenon DEF TypeOK, StateOK
<1> QED
  BY <1>1, Zenon DEF Inv, AllFine, Fine, Timed, Halved, Due, ReadNotTorn, Halves

\* The newest activation.
LEMMA MeFacts ==
  ASSUME Inv, ctx # <<>>
  PROVE  /\ ctx \in Seq(Activation) /\ DOMAIN ctx = 1 .. Len(ctx) /\ Len(ctx) \in Nat
         /\ Len(ctx) \in 1 .. Len(ctx) /\ 1 \in 1 .. Len(ctx)
         /\ Me \in Activation /\ Fine(Me, latch, alarmHigh) /\ StateOK
<1>1. ctx \in Seq(Activation) /\ StateOK /\ AllFine
  BY InvByActivation, TypeOKParts
<1>2. Len(ctx) \in Nat /\ Len(ctx) # 0 /\ DOMAIN ctx = 1 .. Len(ctx)
  BY <1>1, EmptySeq, LenProperties
<1>3. Len(ctx) \in 1 .. Len(ctx) /\ 1 \in 1 .. Len(ctx)
  BY <1>2
<1>4. Me \in Activation
  BY <1>1, <1>3, ElementOfSeq DEF Me
<1> QED
  BY <1>1, <1>2, <1>3, <1>4 DEF AllFine, Me

\* The newest activation goes on as c; when it writes TIMER_ALARM_HIGH, it is the
\* only one that sets an alarm.
LEMMA GotoInv ==
  ASSUME Inv, ctx # <<>>, NEW c \in Activation, Goto(c), c.irq = Me.irq,
         Fine(c, latch', alarmHigh'), latch' = latch,
         alarmHigh' = alarmHigh \/ Me.then = "alarm",
         StateOK'
  PROVE  Inv'
<1>1. /\ ctx \in Seq(Activation) /\ DOMAIN ctx = 1 .. Len(ctx) /\ Len(ctx) \in 1 .. Len(ctx)
      /\ Len(ctx) \in Nat /\ Me \in Activation /\ Fine(Me, latch, alarmHigh)
  BY MeFacts
<1>2. OncePerNumber /\ AllFine
  BY InvByActivation
<1>3. /\ ctx' \in Seq(Activation) /\ Len(ctx') = Len(ctx)
      /\ \A j \in 1 .. Len(ctx) : ctx'[j] = IF j = Len(ctx) THEN c ELSE ctx[j]
  BY <1>1, ExceptSeq DEF Goto
<1>4. DOMAIN ctx' = DOMAIN ctx
  BY <1>1, <1>3, LenProperties
<1>5. \A j \in DOMAIN ctx : ctx'[j].irq = ctx[j].irq
  BY <1>1, <1>3 DEF Me
<1>6. OncePerNumber'
  <2>1. \A j, k \in DOMAIN ctx' : ctx'[j].irq = ctx'[k].irq => j = k
    BY <1>2, <1>4, <1>5 DEF OncePerNumber
  <2>2. ctx'[1].irq = "main"
    BY <1>1, <1>2, <1>5 DEF OncePerNumber
  <2> QED
    BY <2>1, <2>2 DEF OncePerNumber
<1>7. ASSUME NEW j \in DOMAIN ctx', j # Len(ctx) PROVE Fine(ctx'[j], latch', alarmHigh')
  <2>1. ctx'[j] = ctx[j] /\ Fine(ctx[j], latch, alarmHigh) /\ j \in DOMAIN ctx
    BY <1>1, <1>2, <1>3, <1>4, <1>7 DEF AllFine
  <2>2. CASE alarmHigh' = alarmHigh
    BY <2>1, <2>2
  <2>3. CASE Me.then = "alarm"
    <3>1. Me.irq = "TTY2"
      BY <1>1, <2>3 DEF Fine, Halved
    <3>2. ctx[j].irq # "TTY2"
      BY <1>1, <1>2, <1>7, <2>1, <3>1 DEF OncePerNumber, Me
    <3>3. ctx[j].then # "alarm" /\ ctx[j].pc # "alarmLow"
      BY <2>1, <3>2, Zenon DEF Fine, Halved
    <3> QED
      BY <2>1, <3>3, Zenon DEF Fine, Halved
  <2> QED
    BY <2>2, <2>3
<1>8. AllFine'
  <2>1. ctx'[Len(ctx)] = c
    BY <1>1, <1>3
  <2> QED
    BY <1>7, <2>1 DEF AllFine
<1> QED
  BY <1>3, <1>6, <1>8, InvAfter

\* A call: main's, or an interrupt's whose number is not in service.
LEMMA PushInv ==
  ASSUME Inv, NEW c \in Activation, ctx' = Append(ctx, c),
         \A k \in DOMAIN ctx : ctx[k].irq # c.irq, ctx = <<>> => c.irq = "main",
         Fine(c, latch, alarmHigh), latch' = latch, alarmHigh' = alarmHigh, StateOK'
  PROVE  Inv'
<1>1. ctx \in Seq(Activation) /\ OncePerNumber /\ AllFine
  BY InvByActivation, TypeOKParts
<1>2. /\ ctx' \in Seq(Activation) /\ Len(ctx') = Len(ctx) + 1 /\ Len(ctx) \in Nat
      /\ DOMAIN ctx = 1 .. Len(ctx) /\ DOMAIN ctx' = 1 .. (Len(ctx) + 1)
      /\ \A k \in DOMAIN ctx' : ctx'[k] = IF k \in DOMAIN ctx THEN ctx[k] ELSE c
      /\ \A k \in DOMAIN ctx' : k \in DOMAIN ctx \/ k = Len(ctx) + 1
  BY <1>1, AppendProperties, LenProperties
<1>3. OncePerNumber'
  <2>1. ASSUME NEW j \in DOMAIN ctx', NEW k \in DOMAIN ctx', ctx'[j].irq = ctx'[k].irq PROVE j = k
    BY <1>1, <1>2, <2>1 DEF OncePerNumber
  <2>2. ctx'[1].irq = "main"
    <3>1. CASE ctx = <<>>
      BY <1>2, <3>1
    <3>2. CASE ctx # <<>>
      BY <1>1, <1>2, <3>2, MeFacts DEF OncePerNumber
    <3> QED
      BY <3>1, <3>2
  <2> QED
    BY <2>1, <2>2 DEF OncePerNumber
<1>4. AllFine'
  BY <1>1, <1>2 DEF AllFine
<1> QED
  BY <1>2, <1>3, <1>4, InvAfter

\* A return.
LEMMA PopInv ==
  ASSUME Inv, ctx # <<>>, ctx' = SubSeq(ctx, 1, Len(ctx) - 1),
         latch' = latch, alarmHigh' = alarmHigh, StateOK'
  PROVE  Inv'
<1>1. ctx \in Seq(Activation) /\ OncePerNumber /\ AllFine
  BY InvByActivation, TypeOKParts
<1>2. PICK n \in Nat : n = Len(ctx) /\ n >= 1 /\ DOMAIN ctx = 1 .. n
  <2>1. Len(ctx) \in Nat /\ Len(ctx) >= 1 /\ DOMAIN ctx = 1 .. Len(ctx)
    BY MeFacts
  <2> QED
    BY <2>1, Zenon
<1>3. n - 1 \in Int /\ 1 \in Int /\ \A k \in 1 .. (n - 1) : ctx[k] \in Activation
  BY <1>1, <1>2, ElementOfSeq
<1>4. /\ ctx' \in Seq(Activation)
      /\ Len(ctx') = IF 1 <= n - 1 THEN n - 1 - 1 + 1 ELSE 0
      /\ \A k \in 1 .. (n - 1 - 1 + 1) : ctx'[k] = ctx[1 + k - 1]
  BY <1>2, <1>3, SubSeqProperties
<1>5. Len(ctx') = n - 1
  BY <1>2, <1>4
<1>6. DOMAIN ctx' = 1 .. (n - 1)
  BY <1>4, <1>5, LenProperties
<1>7. ASSUME NEW k \in DOMAIN ctx' PROVE ctx'[k] = ctx[k] /\ k \in DOMAIN ctx
  <2>1. k \in 1 .. (n - 1 - 1 + 1) /\ 1 + k - 1 = k /\ k \in 1 .. n
    BY <1>2, <1>6
  <2> QED
    BY <1>2, <1>4, <2>1
<1>8. OncePerNumber'
  <2>1. \A j, k \in DOMAIN ctx' : ctx'[j].irq = ctx'[k].irq => j = k
    BY <1>1, <1>7 DEF OncePerNumber
  <2>2. ctx' # <<>> => ctx'[1].irq = "main"
    <3> SUFFICES ASSUME ctx' # <<>> PROVE ctx'[1].irq = "main"
      OBVIOUS
    <3>1. Len(ctx') # 0
      BY <1>4, EmptySeq
    <3>2. 1 \in DOMAIN ctx'
      BY <1>2, <1>5, <1>6, <3>1
    <3> QED
      BY <1>1, <1>7, <3>2 DEF OncePerNumber
  <2> QED
    BY <2>1, <2>2 DEF OncePerNumber
<1>9. AllFine'
  BY <1>1, <1>7 DEF AllFine
<1> QED
  BY <1>4, <1>8, <1>9, InvAfter

-----------------------------------------------------------------------------
(* The steps. *)

\* The fields of an activation.
LEMMA Fields ==
  ASSUME NEW c \in Activation
  PROVE  /\ c.irq \in Handlers \cup {"main"} /\ c.pc \in PC /\ c.then \in Then
         /\ c.req \in Word /\ c.tmo \in Word /\ c.lo \in Word /\ c.hi \in 0 .. 2^H - 1
         /\ c.now \in Word /\ c.sum \in Word /\ c.read \in Time /\ c.torn \in BOOLEAN
BY DEF Activation

\* Time passes.
LEMMA TickInv ==
  ASSUME Inv, Tick
  PROVE  Inv'
<1>1. StateOK /\ ctx \in Seq(Activation) /\ AllFine /\ OncePerNumber
  BY InvByActivation, TypeOKParts
<1>2. UNCHANGED <<latch, alarmHigh, alarm, timestamp, lastdec, ctx>>
  BY DEF Tick
<1>3. time' \in Time
  <2>1. time' = (time + 1) % 2^(W + H)
    BY DEF Tick
  <2>2. time + 1 \in Int
    <3>1. time \in Nat
      BY <1>1, Words, Zenon DEF StateOK
    <3> QED
      BY <3>1
  <2> QED
    BY <2>1, <2>2, Words, Zenon
<1>4. elapsed' \in 0 .. Horizon /\ lag' \in 0 .. MaxLag
  <2>1. elapsed' \in {elapsed, Capped(elapsed)} /\ lag' \in {lag, lag + 1} /\ lag < MaxLag
    BY DEF Tick
  <2>2. elapsed \in 0 .. Horizon /\ lag \in 0 .. MaxLag /\ Horizon \in Nat /\ MaxLag \in Nat
    BY <1>1, InputAssumption DEF StateOK
  <2> QED
    BY <2>1, <2>2 DEF Capped
<1>5. StateOK'
  BY <1>1, <1>2, <1>3, <1>4 DEF StateOK
<1>6. AllFine' /\ OncePerNumber'
  BY <1>1, <1>2 DEF AllFine, OncePerNumber
<1> QED
  BY <1>1, <1>2, <1>5, <1>6, InvAfter

\* main's calls.
LEMMA MainInv ==
  ASSUME Inv, Main
  PROVE  Inv'
<1>1. StateOK /\ ctx \in Seq(Activation)
  BY InvByActivation, TypeOKParts
<1>2. PICK then \in Then, arg \in Word : MainCall(then, arg) /\ then # "alarm"
  <2>1. CASE \E then \in Reads : MainCall(then, 0)
    <3>1. PICK then \in Reads : MainCall(then, 0)
      BY <2>1
    <3>2. then \in Then /\ then # "alarm"
      BY InputAssumption DEF Then
    <3> QED
      BY <3>1, <3>2, Zeros
  <2>2. CASE \E d \in Delays : MainCall("udelay", d) \/ MainCall("masked", d)
    <3>1. PICK d \in Delays : MainCall("udelay", d) \/ MainCall("masked", d)
      BY <2>2
    <3>2. d \in Word
      <4>1. PICK h \in Nat : h = 2^(W - 1) /\ M = 2 * h
        BY PowerAssumption, Zenon DEF M
      <4>2. d \in 0 .. h - 1
        BY <4>1, InputAssumption
      <4> QED
        BY <4>1, <4>2 DEF Word
    <3> QED
      BY <3>1, <3>2 DEF Then
  <2> QED
    BY <2>1, <2>2 DEF Main
<1>3. /\ ctx = <<>> /\ ctx' = Append(ctx, New("main", then, arg)) /\ lag' = 0
      /\ UNCHANGED <<time, latch, alarmHigh, alarm, timestamp, lastdec, elapsed>>
  BY <1>2 DEF MainCall
<1>4. /\ New("main", then, arg) \in Activation /\ New("main", then, arg).irq = "main"
      /\ Fine(New("main", then, arg), latch, alarmHigh)
  BY <1>2, NewFine
<1>5. StateOK'
  BY <1>1, <1>3, InputAssumption DEF StateOK
<1>6. \A k \in DOMAIN ctx : ctx[k].irq # "main"
  BY <1>3
<1> QED
  BY <1>3, <1>4, <1>5, <1>6, PushInv

\* An interrupt.
LEMMA IrqInv ==
  ASSUME Inv, NEW irq \in Handlers, irq_handler(irq)
  PROVE  Inv'
<1>1. StateOK /\ ctx \in Seq(Activation)
  BY InvByActivation, TypeOKParts
<1>2. /\ ctx # <<>> /\ irq \notin InService
      /\ UNCHANGED <<time, latch, alarmHigh, alarm, timestamp, lastdec, elapsed, lag>>
  BY DEF irq_handler
<1>3. PICK then \in Then, arg \in Word :
        ctx' = Append(ctx, New(irq, then, arg)) /\ (then = "alarm" => irq = "TTY2")
  <2>1. CASE \E then \in Reads : ctx' = Append(ctx, New(irq, then, 0))
    <3>1. PICK then \in Reads : ctx' = Append(ctx, New(irq, then, 0))
      BY <2>1
    <3>2. then \in Then /\ then # "alarm"
      BY InputAssumption DEF Then
    <3> QED
      BY <3>1, <3>2, Zeros
  <2>2. CASE irq = "TTY2" /\ \E c \in Cycles : ctx' = Append(ctx, New(irq, "alarm", c))
    <3>1. PICK c \in Cycles : ctx' = Append(ctx, New(irq, "alarm", c))
      BY <2>2
    <3>2. c \in Word /\ "alarm" \in Then
      BY InputAssumption DEF Word, M, Then
    <3> QED
      BY <2>2, <3>1, <3>2
  <2> QED
    BY <2>1, <2>2 DEF irq_handler
<1>4. /\ New(irq, then, arg) \in Activation /\ New(irq, then, arg).irq = irq
      /\ Fine(New(irq, then, arg), latch, alarmHigh)
  BY <1>3, NewFine
<1>5. \A k \in DOMAIN ctx : ctx[k].irq # irq
  BY <1>2 DEF InService
<1>6. StateOK'
  BY <1>1, <1>2 DEF StateOK
<1> QED
  BY <1>2, <1>3, <1>4, <1>5, <1>6, PushInv

\* A return.
LEMMA ReturnInv ==
  ASSUME Inv, Return
  PROVE  Inv'
<1>1. StateOK /\ ctx # <<>>
  BY InvByActivation, TypeOKParts DEF Return, At
<1>2. elapsed' \in 0 .. Horizon
  BY <1>1, InputAssumption DEF Return, StateOK
<1>3. StateOK'
  BY <1>1, <1>2 DEF Return, StateOK
<1> QED
  BY <1>1, <1>3, PopInv DEF Return

\* The low half is read: the newest activation has the counter's halves, and a
\* reading under way below it is torn.
LEMMA ReadLowInv ==
  ASSUME Inv, ReadLow
  PROVE  Inv'
<1> DEFINE top == [Me EXCEPT !.pc = "high", !.lo = time % M, !.read = time]
           below(k) == [ctx[k] EXCEPT !.torn = @ \/ ctx[k].pc = "high"]
<1>1. ctx # <<>> /\ Me.pc = "low"
  BY DEF ReadLow, At
<1>2. /\ ctx \in Seq(Activation) /\ DOMAIN ctx = 1 .. Len(ctx) /\ Len(ctx) \in 1 .. Len(ctx)
      /\ Len(ctx) \in Nat /\ Me \in Activation /\ Fine(Me, latch, alarmHigh) /\ StateOK
      /\ 1 \in 1 .. Len(ctx)
  BY <1>1, MeFacts
<1>3. OncePerNumber /\ AllFine /\ \A k \in DOMAIN ctx : ctx[k] \in Activation
  BY <1>2, InvByActivation, ElementOfSeq
<1>4. /\ latch' = time \div M /\ lag' = 0
      /\ ctx' = [k \in DOMAIN ctx |-> IF k = Len(ctx) THEN top ELSE below(k)]
      /\ UNCHANGED <<time, alarmHigh, alarm, timestamp, lastdec, elapsed>>
  BY DEF ReadLow
<1>5. time \in Time /\ time % M \in Word /\ time \div M \in 0 .. 2^H - 1
  BY <1>2, Words DEF StateOK
<1>6. top \in Activation /\ top.irq = Me.irq
  BY <1>2, <1>5 DEF Activation, PC
<1>7. Fine(top, latch', alarmHigh')
  <2>1. /\ top.pc = "high" /\ top.lo = time % M /\ top.read = time /\ top.then = Me.then
        /\ top.irq = Me.irq /\ top.tmo = Me.tmo /\ top.req = Me.req
    BY <1>2 DEF Activation
  <2>2. top.then = "alarm" => top.irq = "TTY2" /\ top.tmo = top.req
    BY <1>2, <2>1, Zenon DEF Fine, Halved
  <2> HIDE DEF top
  <2> QED
    BY <1>4, <2>1, <2>2 DEF Fine, Timed, Halved
<1>8. ASSUME NEW k \in DOMAIN ctx
      PROVE  /\ below(k) \in Activation /\ below(k).irq = ctx[k].irq
             /\ Fine(below(k), latch', alarmHigh')
  <2>1. ctx[k] \in Activation /\ Fine(ctx[k], latch, alarmHigh)
    BY <1>3 DEF AllFine
  <2>2. PICK c : c = ctx[k]
    OBVIOUS
  <2>3. PICK e : e = [c EXCEPT !.torn = @ \/ c.pc = "high"]
    OBVIOUS
  <2>4. e \in Activation
    BY <2>1, <2>2, <2>3 DEF Activation
  <2>5. /\ e.irq = c.irq /\ e.pc = c.pc /\ e.then = c.then /\ e.req = c.req /\ e.tmo = c.tmo
        /\ e.lo = c.lo /\ e.hi = c.hi /\ e.now = c.now /\ e.read = c.read
        /\ e.torn = (c.torn \/ c.pc = "high")
    BY <2>1, <2>2, <2>3 DEF Activation
  <2>6. Fine(e, latch', alarmHigh')
    <3>1. c.torn \in BOOLEAN
      BY <2>1, <2>2, Fields
    <3>2. CASE c.pc = "high"
      <4>1. e.torn = TRUE
        BY <2>5, <3>2
      <4>2. e.then = "alarm" => e.irq = "TTY2" /\ e.tmo = e.req
        BY <2>1, <2>2, <2>5, Zenon DEF Fine, Halved
      <4>3. e.lo = e.read % M
        BY <2>1, <2>2, <2>5, <3>2, Zenon DEF Fine, Halved
      <4>4. e.pc = "high"
        BY <2>5, <3>2
      <4> QED
        BY <4>1, <4>2, <4>3, <4>4 DEF Fine, Timed, Halved
    <3>3. CASE c.pc # "high"
      <4>1. e.torn = c.torn
        BY <2>5, <3>1, <3>3
      <4>2. Timed(e)
        BY <2>1, <2>2, <2>5, <4>1, Zenon DEF Fine, Timed
      <4>3. Due(e) = Due(c) /\ Halved(c, latch, alarmHigh)
        BY <2>1, <2>2, <2>5 DEF Due, Fine
      <4>4. Halved(e, latch', alarmHigh')
        BY <1>4, <2>5, <3>3, <4>1, <4>3, Zenon DEF Halved
      <4> QED
        BY <4>2, <4>4 DEF Fine
    <3> QED
      BY <3>2, <3>3
  <2> QED
    BY <2>2, <2>3, <2>4, <2>5, <2>6
<1> HIDE DEF top, below
<1>9. ctx' \in [1 .. Len(ctx) -> Activation]
  BY <1>2, <1>4, <1>6, <1>8
<1>10. ctx' \in Seq(Activation) /\ DOMAIN ctx' = DOMAIN ctx
  BY <1>2, <1>9, SeqDef
<1>11. AllFine'
  BY <1>4, <1>7, <1>8, <1>10 DEF AllFine
<1>12. OncePerNumber'
  <2>1. \A k \in DOMAIN ctx : ctx'[k].irq = ctx[k].irq
    BY <1>4, <1>6, <1>8 DEF Me
  <2>2. \A j, k \in DOMAIN ctx' : ctx'[j].irq = ctx'[k].irq => j = k
    BY <1>3, <1>10, <2>1 DEF OncePerNumber
  <2>3. ctx'[1].irq = "main"
    BY <1>1, <1>2, <1>3, <2>1 DEF OncePerNumber
  <2> QED
    BY <2>2, <2>3 DEF OncePerNumber
<1>13. StateOK'
  BY <1>2, <1>4, <1>5, InputAssumption DEF StateOK
<1> QED
  BY <1>10, <1>11, <1>12, <1>13, InvAfter

\* The high half is read: the milliseconds are those of the counter.
LEMMA ReadHighInv ==
  ASSUME Inv, ReadHigh
  PROVE  Inv'
<1>1. ctx # <<>> /\ Me.pc = "high" /\ Me.then \notin {"alarm", "read"}
  BY DEF ReadHigh, At
<1>2. Me \in Activation /\ Fine(Me, latch, alarmHigh) /\ StateOK
  BY <1>1, MeFacts
<1>3. UNCHANGED <<time, latch, alarmHigh, alarm, timestamp, lastdec, elapsed, lag>>
  BY DEF ReadHigh
<1>4. PICK pc \in {"resetDec", "add"} :
        Goto([Me EXCEPT !.pc = pc, !.now = get_millisecond(latch, Me.lo), !.lo = 0])
  BY DEF ReadHigh
<1>5. PICK now : now = get_millisecond(latch, Me.lo)
  OBVIOUS
<1>6. Me.read \in Nat /\ latch \in Nat /\ Me.lo = Me.read % M /\ (Me.torn \/ latch = Me.read \div M)
  <2>1. Me.lo = Me.read % M /\ (Me.torn \/ latch = Me.read \div M)
    BY <1>1, <1>2, Zenon DEF Fine, Halved
  <2>2. Me.read \in Nat
    BY <1>2, Fields, Words
  <2>3. latch \in Nat
    BY <1>2, Sizes DEF StateOK
  <2> QED
    BY <2>1, <2>2, <2>3
<1>7. PICK q \in Nat, p \in Nat : q = 2^(W - S) /\ p = 2^S
  BY Sizes, Zenon
<1>8. q >= 1 /\ p >= 1 /\ q * p >= 1 /\ M = q * p
  BY <1>7, Sizes, Zenon
<1>9. now = (latch * q + ((Me.read % (q * p)) \div p)) % (q * p)
  BY <1>5, <1>6, <1>7, <1>8, Zenon DEF get_millisecond
<1>10. /\ (now - (Me.read \div p)) % q = 0
       /\ latch = Me.read \div (q * p) => (now - (Me.read \div p)) % (q * p) = 0
  BY <1>6, <1>8, <1>9, Millisecond
<1>11. (now - Milliseconds(Me.read)) % (IF Me.torn THEN 2^(W - S) ELSE M) = 0
  BY <1>6, <1>7, <1>8, <1>10, Zenon DEF Milliseconds
<1>12. now \in Word
  <2>1. PICK x \in Nat : x = (Me.read % (q * p)) \div p
    <3>1. PICK lo \in Nat : lo = Me.read % (q * p)
      <4>1. q * p \in Nat
        BY Products
      <4> QED
        BY <1>6, <1>8, <4>1, Divided
    <3> QED
      BY <1>8, <3>1, Divided
  <2>2. latch * q + x \in Int
    BY <1>6, Products
  <2> QED
    BY <1>8, <1>9, <2>1, <2>2, Words, Zenon
<1>13. PICK c : c = [Me EXCEPT !.pc = pc, !.now = now, !.lo = 0]
  OBVIOUS
<1>14. c \in Activation
  BY <1>2, <1>12, <1>13, Zeros DEF Activation, PC
<1>15. c.irq = Me.irq /\ c.pc = pc /\ c.now = now /\ c.read = Me.read /\ c.torn = Me.torn /\ c.then = Me.then
  BY <1>2, <1>13 DEF Activation
<1>16. Fine(c, latch', alarmHigh')
  <2>1. c.then # "alarm" /\ c.pc \notin {"high", "alarmHigh", "alarmLow", "done"}
    BY <1>1, <1>15
  <2>2. (c.now - Milliseconds(c.read)) % (IF c.torn THEN 2^(W - S) ELSE M) = 0
    BY <1>11, <1>15, Zenon
  <2> QED
    BY <2>1, <2>2, Zenon DEF Fine, Timed, Halved
<1>17. StateOK'
  BY <1>2, <1>3 DEF StateOK
<1> QED
  BY <1>1, <1>3, <1>4, <1>5, <1>13, <1>14, <1>15, <1>16, <1>17, GotoInv

\* goldfish_timer_read returns the low half, whatever the high half.
LEMMA TimerReadInv ==
  ASSUME Inv, TimerRead
  PROVE  Inv'
<1>1. ctx # <<>> /\ Me.pc = "high"
  BY DEF TimerRead, At
<1>2. Me \in Activation /\ Fine(Me, latch, alarmHigh) /\ StateOK
  BY <1>1, MeFacts
<1>3. UNCHANGED <<time, latch, alarmHigh, alarm, timestamp, lastdec, elapsed, lag>>
  BY DEF TimerRead
<1>4. PICK now : now = (Me.lo + latch * M) % M
  OBVIOUS
<1>5. now = Me.read % M /\ now \in Word
  <2>1. Me.lo \in Nat /\ Me.lo < M /\ Me.lo \in Word
    BY <1>2, Fields, Words
  <2>2. PICK h \in Nat, m \in Nat, lo \in Nat : h = latch /\ m = M /\ lo = Me.lo
    <3>1. latch \in Nat /\ M \in Nat
      BY <1>2, Sizes DEF StateOK
    <3> QED
      BY <2>1, <3>1, Zenon
  <2>3. m >= 1 /\ lo < m
    BY <2>1, <2>2, Sizes, Zenon
  <2>4. (h * m + lo) % m = lo
    BY <2>3, DivisionUnique
  <2>5. lo + h * m = h * m + lo
    BY Products
  <2>6. now = Me.lo
    BY <1>4, <2>2, <2>4, <2>5, Zenon
  <2>7. Me.lo = Me.read % M
    BY <1>1, <1>2, Zenon DEF Fine, Halved
  <2> QED
    BY <2>1, <2>6, <2>7, Zenon
<1>6. PICK c : c = [New(Me.irq, "read", 0) EXCEPT !.pc = "done", !.read = Me.read, !.now = now]
  OBVIOUS
<1>7. New(Me.irq, "read", 0) \in Activation /\ New(Me.irq, "read", 0).irq = Me.irq
      /\ New(Me.irq, "read", 0).then = "read"
  BY <1>2, Fields, Zeros DEF New, Activation, PC, Then
<1>8. c \in Activation
  BY <1>2, <1>5, <1>6, <1>7, Fields DEF Activation, PC
<1>9. c.irq = Me.irq /\ c.pc = "done" /\ c.then = "read" /\ c.now = now /\ c.read = Me.read
  BY <1>6, <1>7 DEF Activation
<1>10. Fine(c, latch', alarmHigh')
  BY <1>5, <1>9 DEF Fine, Timed, Halved
<1>11. StateOK'
  BY <1>2, <1>3 DEF StateOK
<1>12. Goto(c)
  BY <1>4, <1>6, Zenon DEF TimerRead
<1> QED
  BY <1>1, <1>3, <1>8, <1>9, <1>10, <1>11, <1>12, GotoInv

\* goldfish_set_timer has both halves of the alarm.
LEMMA AlarmReadInv ==
  ASSUME Inv, AlarmRead
  PROVE  Inv'
<1>1. ctx # <<>> /\ Me.pc = "high" /\ Me.then = "alarm"
  BY DEF AlarmRead, At
<1>2. Me \in Activation /\ Fine(Me, latch, alarmHigh) /\ StateOK
  BY <1>1, MeFacts
<1>3. UNCHANGED <<time, latch, alarmHigh, alarm, timestamp, lastdec, elapsed, lag>>
  BY DEF AlarmRead
<1>4. /\ Me.lo = Me.read % M /\ (Me.torn \/ latch = Me.read \div M)
      /\ Me.irq = "TTY2" /\ Me.tmo = Me.req
  BY <1>1, <1>2, Zenon DEF Fine, Halved
<1>5. Me.read \in Nat /\ latch \in Nat /\ Me.tmo \in Nat
  <2>1. Me.read \in Time /\ Me.tmo \in Word
    BY <1>2, Fields
  <2>2. latch \in Nat
    BY <1>2, Sizes DEF StateOK
  <2> QED
    BY <2>1, <2>2, Words
<1>6. PICK q \in Nat, p \in Nat, g \in Nat : q = 2^(W - S) /\ p = 2^S /\ g = 2^H
  BY Sizes, Zenon
<1>7. /\ q >= 1 /\ p >= 1 /\ g >= 1 /\ q * p >= 1 /\ g * (q * p) >= 1
      /\ M = q * p /\ 2^(W + H) = g * (q * p)
  BY <1>6, Sizes, Zenon
<1>8. PICK tmp : tmp = ((Me.read % M) + (Me.tmo % q) * p) % M
  OBVIOUS
<1>9. PICK full : full = latch + (Me.tmo \div q) + (IF (Me.read % M) > tmp THEN 1 ELSE 0)
  OBVIOUS
<1>10. /\ tmp \in Nat /\ full \in Nat
       /\ tmp = (Me.read + Me.tmo * p) % M
       /\ latch = Me.read \div M =>
            ((full % g) * M + tmp - (Me.read + Me.tmo * p)) % (g * M) = 0
  <2>1. AlarmSums(q, p, g, M, Me.read, Me.tmo, latch, tmp, full)
    BY <1>5, <1>6, <1>7, <1>8, <1>9, Zenon DEF AlarmSums
  <2>2. AlarmRight(q, p, g, M, Me.read, Me.tmo, latch, tmp, full)
    BY <2>1, AlarmHalves, Zenon
  <2> QED
    BY <2>2, Zenon DEF AlarmRight
<1>11. PICK c : c = [Me EXCEPT !.pc = "alarmHigh", !.lo = tmp, !.hi = full % g]
  OBVIOUS
<1>12. Goto(c)
  BY <1>4, <1>6, <1>7, <1>8, <1>9, <1>11, Zenon DEF AlarmRead, Carry
<1>13. tmp \in Word /\ full % g \in 0 .. 2^H - 1
  <2>1. Me.read + Me.tmo * p \in Int /\ full \in Int
    BY <1>5, <1>10, Products
  <2> QED
    BY <1>6, <1>7, <1>10, <2>1, Words, Zenon
<1>14. c \in Activation
  BY <1>2, <1>11, <1>13 DEF Activation, PC
<1>15. /\ c.irq = Me.irq /\ c.pc = "alarmHigh" /\ c.then = Me.then /\ c.lo = tmp /\ c.hi = full % g
       /\ c.read = Me.read /\ c.torn = Me.torn /\ c.tmo = Me.tmo /\ c.req = Me.req
  BY <1>2, <1>11 DEF Activation
<1>16. Due(c) = Me.read + Me.tmo * p
  BY <1>4, <1>6, <1>15, Zenon DEF Due
<1>17. c.lo = Due(c) % M /\ (c.torn \/ (c.hi * M + c.lo - Due(c)) % 2^(W + H) = 0)
  BY <1>4, <1>7, <1>10, <1>15, <1>16, Zenon
<1>18. Fine(c, latch', alarmHigh')
  <2>1. c.pc = "alarmHigh" /\ c.then = "alarm" /\ c.irq = "TTY2" /\ c.tmo = c.req
    BY <1>1, <1>4, <1>15
  <2> QED
    BY <1>17, <2>1 DEF Fine, Timed, Halved
<1>19. StateOK'
  BY <1>2, <1>3 DEF StateOK
<1> QED
  BY <1>1, <1>3, <1>12, <1>14, <1>15, <1>18, <1>19, GotoInv

\* An activation that is between readings, and has not set an alarm's halves.
LEMMA PlainFine ==
  ASSUME NEW c, NEW lat, NEW ah,
         c.pc \in {"low", "store", "dec", "resetStamp"} \/ (c.pc = "done" /\ c.then # "read"),
         c.then = "alarm" => c.irq = "TTY2" /\ c.tmo = c.req
  PROVE  Fine(c, lat, ah)
<1>1. c.pc \notin {"add", "resetDec", "high", "alarmHigh", "alarmLow"}
  OBVIOUS
<1>2. ~(c.pc = "done" /\ c.then = "read")
  OBVIOUS
<1> QED
  BY <1>1, <1>2, Zenon DEF Fine, Timed, Halved

\* The newest activation goes on at a plain place.
LEMMA PlainGoto ==
  ASSUME Inv, ctx # <<>>, NEW pc \in {"store", "dec", "resetStamp"},
         NEW c \in Activation, Goto(c), c.pc = pc, c.then = Me.then, c.irq = Me.irq,
         c.tmo = Me.tmo, c.req = Me.req,
         latch' = latch, alarmHigh' = alarmHigh, StateOK'
  PROVE  Inv'
<1>1. Fine(Me, latch, alarmHigh)
  BY MeFacts
<1>2. c.then = "alarm" => c.irq = "TTY2" /\ c.tmo = c.req
  BY <1>1 DEF Fine, Halved
<1>3. Fine(c, latch', alarmHigh')
  BY <1>2, PlainFine
<1> QED
  BY <1>3, GotoInv

\* The activation polls again.
LEMMA PollInv ==
  ASSUME Inv, ctx # <<>>, NEW then \in {"reset", "loop", "maskedLoop"}, NEW tmo \in Word,
         Poll(then, tmo), latch' = latch, alarmHigh' = alarmHigh, StateOK'
  PROVE  Inv'
<1>1. Me \in Activation
  BY MeFacts
<1>2. PICK c : c = [New(Me.irq, then, Me.req) EXCEPT !.tmo = tmo]
  OBVIOUS
<1>3. then \in Then /\ then # "alarm" /\ Me.irq \in Handlers \cup {"main"} /\ Me.req \in Word
  BY <1>1, Fields DEF Then
<1>4. c \in Activation
  BY <1>2, <1>3, Zeros DEF New, Activation, PC
<1>5. c.irq = Me.irq /\ c.pc = "low" /\ c.then = then
  BY <1>2 DEF New
<1>6. Fine(c, latch', alarmHigh')
  BY <1>3, <1>5, PlainFine
<1> QED
  BY <1>2, <1>4, <1>5, <1>6, GotoInv DEF Poll

\* The activation has finished.
LEMMA DoneInv ==
  ASSUME Inv, ctx # <<>>, Me.then \notin {"alarm", "read"}, Done,
         latch' = latch, alarmHigh' = alarmHigh, StateOK'
  PROVE  Inv'
<1>1. Me \in Activation
  BY MeFacts
<1>2. PICK c : c = [New(Me.irq, Me.then, Me.req) EXCEPT !.pc = "done"]
  OBVIOUS
<1>3. Me.then \in Then /\ Me.irq \in Handlers \cup {"main"} /\ Me.req \in Word
  BY <1>1, Fields
<1>4. c \in Activation
  BY <1>2, <1>3, Zeros DEF New, Activation, PC
<1>5. c.irq = Me.irq /\ c.pc = "done" /\ c.then = Me.then
  BY <1>2 DEF New
<1>6. Fine(c, latch', alarmHigh')
  BY <1>5, PlainFine
<1> QED
  BY <1>2, <1>4, <1>5, <1>6, GotoInv DEF Done

\* reset_timer_masked.
LEMMA ResetInv ==
  ASSUME Inv, ResetDec \/ ResetStamp
  PROVE  Inv'
<1>1. ctx # <<>>
  BY DEF ResetDec, ResetStamp, At
<1>2. Me \in Activation /\ StateOK
  BY <1>1, MeFacts
<1>3. Me.now \in Word /\ Me.tmo \in Word /\ Me.irq \in Handlers \cup {"main"} /\ Me.req \in Word
  BY <1>2, Fields
<1>4. CASE ResetDec
  <2>1. StateOK' /\ latch' = latch /\ alarmHigh' = alarmHigh
    BY <1>2, <1>3, <1>4 DEF ResetDec, StateOK
  <2>2. PICK c : c = [Me EXCEPT !.pc = "resetStamp"]
    OBVIOUS
  <2>3. c \in Activation
    BY <1>2, <2>2 DEF Activation, PC
  <2>4. c.pc = "resetStamp" /\ c.then = Me.then /\ c.irq = Me.irq /\ c.tmo = Me.tmo /\ c.req = Me.req
    BY <1>2, <2>2 DEF Activation
  <2>5. Goto(c)
    BY <1>4, <2>2 DEF ResetDec
  <2> QED
    BY <1>1, <2>1, <2>3, <2>4, <2>5, PlainGoto
<1>5. CASE ResetStamp
  <2>1. StateOK' /\ latch' = latch /\ alarmHigh' = alarmHigh
    BY <1>2, <1>5, Zeros DEF ResetStamp, StateOK
  <2>2. CASE Me.then = "init"
    <3>1. PICK c : c = [New(Me.irq, "init", 0) EXCEPT !.pc = "done"]
      OBVIOUS
    <3>2. c \in Activation
      BY <1>3, <3>1, Zeros DEF New, Activation, PC, Then
    <3>3. c.irq = Me.irq /\ c.pc = "done" /\ c.then = "init"
      BY <3>1 DEF New
    <3>4. Fine(c, latch', alarmHigh')
      BY <3>3, PlainFine
    <3>5. Goto(c)
      BY <1>5, <2>2, <3>1 DEF ResetStamp
    <3> QED
      BY <1>1, <2>1, <3>2, <3>3, <3>4, <3>5, GotoInv
  <2>3. CASE Me.then # "init"
    <3>1. Poll("loop", Me.tmo)
      BY <1>5, <2>3 DEF ResetStamp, Poll
    <3> QED
      BY <1>1, <1>3, <2>1, <3>1, PollInv
  <2> QED
    BY <2>2, <2>3
<1> QED
  BY <1>4, <1>5

\* get_timer_masked: the sum and its store.
LEMMA AddInv ==
  ASSUME Inv, Add
  PROVE  Inv'
<1>1. ctx # <<>>
  BY DEF Add, At
<1>2. Me \in Activation /\ StateOK
  BY <1>1, MeFacts
<1>3. UNCHANGED <<time, latch, alarmHigh, alarm, timestamp, lastdec, elapsed, lag>>
  BY DEF Add
<1>4. PICK sum : sum = (timestamp + Advance(Me.now)) % M
  OBVIOUS
<1>5. sum \in Word
  <2>1. timestamp \in Nat /\ lastdec \in Word /\ Me.now \in Word
    BY <1>2, Words, Fields DEF StateOK
  <2>2. Advance(Me.now) \in Nat
    BY <2>1, AdvanceIsNat
  <2>3. timestamp + Advance(Me.now) \in Int
    BY <2>1, <2>2
  <2> QED
    BY <1>4, <2>3, Words
<1>6. PICK c : c = [Me EXCEPT !.pc = "store", !.read = 0, !.torn = FALSE, !.sum = sum]
  OBVIOUS
<1>7. c \in Activation
  BY <1>2, <1>5, <1>6, Zeros DEF Activation, PC
<1>8. c.pc = "store" /\ c.then = Me.then /\ c.irq = Me.irq /\ c.tmo = Me.tmo /\ c.req = Me.req
  BY <1>2, <1>6 DEF Activation
<1>9. Goto(c) /\ StateOK'
  BY <1>2, <1>3, <1>4, <1>6 DEF Add, StateOK
<1> QED
  BY <1>1, <1>3, <1>7, <1>8, <1>9, PlainGoto

LEMMA StoreInv ==
  ASSUME Inv, Store
  PROVE  Inv'
<1>1. ctx # <<>>
  BY DEF Store, At
<1>2. Me \in Activation /\ StateOK
  BY <1>1, MeFacts
<1>3. Me.sum \in Word
  BY <1>2, Fields
<1>4. StateOK' /\ latch' = latch /\ alarmHigh' = alarmHigh
  BY <1>2, <1>3 DEF Store, StateOK
<1>5. PICK c : c = [Me EXCEPT !.pc = "dec"]
  OBVIOUS
<1>6. c \in Activation
  BY <1>2, <1>5 DEF Activation, PC
<1>7. c.pc = "dec" /\ c.then = Me.then /\ c.irq = Me.irq /\ c.tmo = Me.tmo /\ c.req = Me.req
  BY <1>2, <1>5 DEF Activation
<1>8. Goto(c)
  BY <1>5 DEF Store
<1> QED
  BY <1>1, <1>4, <1>6, <1>7, <1>8, PlainGoto

\* get_timer_masked returns: get_ticks and the delays go on.
LEMMA DecInv ==
  ASSUME Inv, TicksDec \/ UdelayStart \/ UdelayLoop \/ MaskedStart \/ MaskedLoop
  PROVE  Inv'
<1>1. ctx # <<>> /\ SetDec
  BY DEF TicksDec, UdelayStart, UdelayLoop, MaskedStart, MaskedLoop, At
<1>2. Me \in Activation /\ StateOK
  BY <1>1, MeFacts
<1>3. Me.now \in Word /\ Me.tmo \in Word /\ Me.sum \in Word
  BY <1>2, Fields
<1>4. StateOK' /\ latch' = latch /\ alarmHigh' = alarmHigh
  BY <1>1, <1>2, <1>3 DEF SetDec, StateOK
<1>5. (Me.tmo + Me.sum) % M \in Word /\ (Me.sum + Me.tmo) % M \in Word
  <2>1. Me.tmo + Me.sum \in Int /\ Me.sum + Me.tmo \in Int
    <3>1. Me.tmo \in Nat /\ Me.sum \in Nat
      BY <1>3, Words
    <3> QED
      BY <3>1
  <2> QED
    BY <2>1, Words
<1>6. \/ Done /\ Me.then \notin {"alarm", "read"}
      \/ \E then \in {"reset", "loop", "maskedLoop"}, tmo \in Word : Poll(then, tmo)
  BY <1>3, <1>5 DEF TicksDec, UdelayStart, UdelayLoop, MaskedStart, MaskedLoop
<1> QED
  BY <1>1, <1>4, <1>6, DoneInv, PollInv

\* The alarm's two writes.
LEMMA AlarmWriteInv ==
  ASSUME Inv, AlarmWriteHigh \/ AlarmWriteLow
  PROVE  Inv'
<1>1. ctx # <<>> /\ Me.pc \in {"alarmHigh", "alarmLow"}
  BY DEF AlarmWriteHigh, AlarmWriteLow, At
<1>2. Me \in Activation /\ StateOK /\ Fine(Me, latch, alarmHigh)
  BY <1>1, MeFacts
<1>3. /\ Me.then = "alarm" /\ Me.irq = "TTY2" /\ Me.tmo = Me.req /\ Me.lo = Due(Me) % M
      /\ Me.torn \/ (Me.hi * M + Me.lo - Due(Me)) % 2^(W + H) = 0
  BY <1>1, <1>2, Zenon DEF Fine, Halved
<1>4. CASE AlarmWriteHigh
  <2>1. StateOK'
    BY <1>2, <1>4, Fields DEF AlarmWriteHigh, StateOK
  <2>2. PICK c : c = [Me EXCEPT !.pc = "alarmLow"]
    OBVIOUS
  <2>3. c \in Activation
    BY <1>2, <2>2 DEF Activation, PC
  <2>4. /\ c.pc = "alarmLow" /\ c.then = Me.then /\ c.irq = Me.irq /\ c.tmo = Me.tmo /\ c.req = Me.req
        /\ c.lo = Me.lo /\ c.hi = Me.hi /\ c.read = Me.read /\ c.torn = Me.torn
    BY <1>2, <2>2 DEF Activation
  <2>5. Goto(c) /\ alarmHigh' = Me.hi /\ latch' = latch
    BY <1>4, <2>2 DEF AlarmWriteHigh
  <2>6. Due(c) = Due(Me)
    BY <2>4 DEF Due
  <2>7. /\ c.lo = Due(c) % M /\ (c.torn \/ (c.hi * M + c.lo - Due(c)) % 2^(W + H) = 0)
        /\ c.then = "alarm" /\ c.irq = "TTY2" /\ c.tmo = c.req /\ alarmHigh' = c.hi
    BY <1>3, <2>4, <2>5, <2>6, Zenon
  <2>8. c.pc \notin {"add", "resetDec", "high", "done"}
    BY <2>4
  <2>9. Fine(c, latch', alarmHigh')
    BY <2>7, <2>8, Zenon DEF Fine, Timed, Halved
  <2> QED
    BY <1>1, <1>3, <2>1, <2>3, <2>4, <2>5, <2>9, GotoInv
<1>5. CASE AlarmWriteLow
  <2>1. StateOK' /\ latch' = latch /\ alarmHigh' = alarmHigh
    <3>1. alarmHigh * M + Me.lo \in Time
      BY <1>2, Fields, Words DEF StateOK
    <3> QED
      BY <1>2, <1>5, <3>1 DEF AlarmWriteLow, StateOK
  <2>2. PICK then \in Reads : Goto(New(Me.irq, then, 0))
    BY <1>5 DEF AlarmWriteLow
  <2>3. then \in Then /\ then # "alarm" /\ Me.irq \in Handlers \cup {"main"} /\ 0 \in Word
    BY <1>2, Fields, Zeros, InputAssumption DEF Then
  <2>4. /\ New(Me.irq, then, 0) \in Activation /\ New(Me.irq, then, 0).irq = Me.irq
        /\ Fine(New(Me.irq, then, 0), latch', alarmHigh')
    BY <2>3, NewFine
  <2> QED
    BY <1>1, <2>1, <2>2, <2>4, GotoInv
<1> QED
  BY <1>4, <1>5

-----------------------------------------------------------------------------
(* The theorems. *)

LEMMA InitInv == Init => Inv
<1> SUFFICES ASSUME Init PROVE Inv
  OBVIOUS
<1>1. StateOK
  BY Zeros, InputAssumption DEF Init, StateOK
<1>2. CASE ctx = <<>>
  BY <1>1, <1>2, InvByActivation, TypeOKParts DEF AllFine, OncePerNumber
<1>3. CASE ctx = << New("main", "init", 0) >>
  <2>1. /\ New("main", "init", 0) \in Activation /\ New("main", "init", 0).irq = "main"
        /\ Fine(New("main", "init", 0), latch, alarmHigh)
    BY NewFine, Zeros DEF Then
  <2>2. ctx \in Seq(Activation) /\ DOMAIN ctx = {1} /\ ctx[1] = New("main", "init", 0)
    BY <1>3, <2>1
  <2>3. AllFine /\ OncePerNumber
    BY <2>1, <2>2 DEF AllFine, OncePerNumber
  <2> QED
    BY <1>1, <2>2, <2>3, InvByActivation, TypeOKParts
<1> QED
  BY <1>2, <1>3 DEF Init

LEMMA NextInv == Inv /\ [Next]_vars => Inv'
<1> SUFFICES ASSUME Inv, [Next]_vars PROVE Inv'
  OBVIOUS
<1>1. CASE Tick
  BY <1>1, TickInv
<1>2. CASE Main
  BY <1>2, MainInv
<1>3. CASE \E irq \in Handlers : irq_handler(irq)
  BY <1>3, IrqInv
<1>4. CASE ReadLow \/ ReadHigh
  BY <1>4, ReadLowInv, ReadHighInv
<1>5. CASE ResetDec \/ ResetStamp
  BY <1>5, ResetInv
<1>6. CASE Add \/ Store
  BY <1>6, AddInv, StoreInv
<1>7. CASE TicksDec \/ UdelayStart \/ UdelayLoop \/ MaskedStart \/ MaskedLoop
  BY <1>7, DecInv
<1>8. CASE TimerRead \/ AlarmRead
  BY <1>8, TimerReadInv, AlarmReadInv
<1>9. CASE AlarmWriteHigh \/ AlarmWriteLow
  BY <1>9, AlarmWriteInv
<1>10. CASE Return
  BY <1>10, ReturnInv
<1>11. CASE UNCHANGED vars
  <2>1. StateOK /\ ctx \in Seq(Activation) /\ AllFine /\ OncePerNumber
    BY InvByActivation, TypeOKParts
  <2>2. StateOK' /\ ctx' \in Seq(Activation) /\ AllFine' /\ OncePerNumber'
    BY <1>11, <2>1 DEF StateOK, AllFine, OncePerNumber, vars
  <2> QED
    BY <2>2, InvAfter
<1> QED
  BY <1>1, <1>2, <1>3, <1>4, <1>5, <1>6, <1>7, <1>8, <1>9, <1>10, <1>11 DEF Next, Cpu

\* Inv holds for every width of the counter's halves, delay and set of handlers:
\* get_timer_masked's words stay words, get_millisecond's two reads are of one
\* moment unless a nested handler latches the counter between them, and the halves
\* of goldfish_set_timer's alarm are those of one alarm.
THEOREM InvHolds == Spec => []Inv
<1>1. Init => Inv
  BY InitInv
<1>2. Inv /\ [Next]_vars => Inv'
  BY NextInv
<1> QED
  BY <1>1, <1>2, PTL DEF Spec

\* The step that sets the alarm.
LEMMA AlarmStep ==
  ASSUME Inv, Next, At("alarmLow"), Len(ctx') = Len(ctx), Me'.pc # "alarmLow"
  PROVE  AlarmWriteLow
<1>1. ctx # <<>> /\ Me.pc = "alarmLow" /\ Len(ctx) \in Nat /\ ctx \in Seq(Activation)
  BY MeFacts DEF At
<1>2. ~Tick
  BY <1>1 DEF Tick, Me
<1>3. ~Main
  BY <1>1 DEF Main, MainCall
<1>4. ASSUME NEW irq \in Handlers PROVE ~irq_handler(irq)
  <2>1. \A c : Len(Append(ctx, c)) = Len(ctx) + 1
    BY <1>1
  <2>2. \A c : ctx' # Append(ctx, c)
    BY <1>1, <2>1
  <2> QED
    BY <2>2 DEF irq_handler
<1>5. /\ ~ReadLow /\ ~ReadHigh /\ ~ResetDec /\ ~ResetStamp /\ ~Add /\ ~Store /\ ~TicksDec
      /\ ~UdelayStart /\ ~UdelayLoop /\ ~MaskedStart /\ ~MaskedLoop
      /\ ~TimerRead /\ ~AlarmRead /\ ~AlarmWriteHigh /\ ~Return
  BY <1>1 DEF At, ReadLow, ReadHigh, ResetDec, ResetStamp, Add, Store, TicksDec, UdelayStart,
              UdelayLoop, MaskedStart, MaskedLoop, TimerRead, AlarmRead, AlarmWriteHigh, Return
<1> QED
  BY <1>2, <1>3, <1>4, <1>5 DEF Next, Cpu

\* The alarm is the one asked for: goldfish_set_timer(cycles) sets it exactly cycles
\* milliseconds after its reading of the counter, carry included, or off by whole turns of
\* the low half when a nested handler tore the reading.
THEOREM AlarmExactHolds == Spec => AlarmExact
<1>1. ASSUME Inv, AlarmWriteLow
      PROVE  (alarm' - (Me.read + Me.req * 2^S)) % (IF Me.torn THEN M ELSE 2^(W + H)) = 0
  <2>1. ctx # <<>> /\ Me.pc = "alarmLow" /\ alarm' = alarmHigh * M + Me.lo
    BY <1>1 DEF AlarmWriteLow, At
  <2>2. Me \in Activation /\ Fine(Me, latch, alarmHigh)
    BY <1>1, <2>1, MeFacts
  <2>3. PICK due : due = Me.read + Me.req * 2^S
    OBVIOUS
  <2>4. /\ alarmHigh = Me.hi /\ Me.lo = due % M
        /\ Me.torn \/ (Me.hi * M + Me.lo - due) % 2^(W + H) = 0
    BY <2>1, <2>2, <2>3, Zenon DEF Fine, Halved, Due
  <2>5. PICK m \in Nat, d \in Nat, h \in Nat : m = M /\ d = due /\ h = Me.hi
    <3>1. Me.read \in Time /\ Me.req \in Word /\ Me.hi \in 0 .. 2^H - 1
      BY <2>2, Fields
    <3>2. Me.read \in Nat /\ Me.req \in Nat /\ Me.hi \in Nat
      <4>1. Me.read \in Nat /\ Me.req \in Nat
        BY <3>1, Words, Zenon
      <4>2. Me.hi \in Nat
        BY <3>1, Sizes
      <4> QED
        BY <4>1, <4>2
    <3>3. Me.req * 2^S \in Nat
      BY <3>2, Sizes, Products
    <3>4. due \in Nat
      BY <2>3, <3>2, <3>3
    <3> QED
      BY <3>2, <3>4, Sizes, Zenon
  <2>6. m >= 1
    BY <2>5, Sizes, Zenon
  <2>7. PICK k \in Nat, r \in Nat : d = k * m + r /\ k = d \div m /\ r = d % m /\ r < m
    BY <2>6, Divided
  <2>8. PICK x \in Int, y \in Int : x = h * m /\ y = k * m
    BY Products
  <2>9. (x + r) - (y + r) = x - y
    OBVIOUS
  <2>10. (h - k) * m = h * m - k * m /\ h - k \in Int
    BY Products
  <2>11. ((h - k) * m) % m = 0
    BY <2>6, <2>10, Multiple
  <2>12. alarm' = x + r
    BY <2>1, <2>4, <2>5, <2>7, <2>8, Zenon
  <2>13. (alarm' - due) % M = 0
    BY <2>5, <2>7, <2>8, <2>9, <2>10, <2>11, <2>12, Zenon
  <2>14. x + (r - d) = (x + r) - d
    OBVIOUS
  <2>15. Me.torn \/ (alarm' - due) % 2^(W + H) = 0
    BY <2>4, <2>5, <2>7, <2>8, <2>12, <2>14, Zenon
  <2> QED
    BY <2>3, <2>13, <2>15, Zenon
<1>2. Inv /\ [Next]_vars =>
        [At("alarmLow") /\ Len(ctx') = Len(ctx) /\ Me'.pc # "alarmLow" =>
           (alarm' - (Me.read + Me.req * 2^S)) % (IF Me.torn THEN M ELSE 2^(W + H)) = 0]_vars
  BY <1>1, AlarmStep, Zenon
<1> QED
  BY <1>2, InvHolds, PTL DEF Spec, AlarmExact

-----------------------------------------------------------------------------
(* Delays while no handler runs: distances between counts. *)

\* How far x is ahead of y, as words: of two millisecond counts or two stamps.
Dist(x, y) == (x - y) % M

\* A distance is the number below a word that is congruent to the difference.
LEMMA DistIs ==
  ASSUME NEW x \in Int, NEW y \in Int, NEW k \in Int, NEW r \in Nat, r < M, x - y = k * M + r
  PROVE  Dist(x, y) = r
<1>1. M \in Nat /\ M >= 1
  BY Sizes
<1>2. (k * M + r) % M = r
  BY <1>1, DivisionUnique
<1> QED
  BY <1>2, Zenon DEF Dist

\* Every difference has a distance.
LEMMA DistOf ==
  ASSUME NEW x \in Int, NEW y \in Int
  PROVE  \E k \in Int, r \in Nat : x - y = k * M + r /\ r = Dist(x, y) /\ r < M
<1>1. M \in Nat /\ M >= 1 /\ x - y \in Int
  BY Sizes
<1>2. PICK z \in Int : z = x - y
  BY <1>1
<1>3. z \div M \in Int /\ z % M \in 0 .. M - 1 /\ z = (z \div M) * M + (z % M)
  BY <1>1, Division
<1>4. PICK k \in Int, r \in Int : k = z \div M /\ r = z % M
  BY <1>3
<1>5. z = k * M + r /\ r \in Nat /\ r < M
  BY <1>1, <1>3, <1>4
<1>6. r = Dist(x, y)
  BY <1>2, <1>4 DEF Dist
<1> QED
  BY <1>2, <1>5, <1>6

\* Distances are words.
LEMMA DistWord ==
  ASSUME NEW x \in Int, NEW y \in Int
  PROVE  Dist(x, y) \in Nat /\ Dist(x, y) < M /\ Dist(x, y) \in Int
<1>1. \E k \in Int, r \in Nat : x - y = k * M + r /\ r = Dist(x, y) /\ r < M
  BY DistOf
<1> QED
  BY <1>1

\* Small differences.
LEMMA DistNear ==
  ASSUME NEW x \in Int, NEW y \in Int
  PROVE  /\ Dist(x, x) = 0
         /\ x >= y /\ x - y < M => Dist(x, y) = x - y
         /\ x < y /\ y - x <= M => Dist(x, y) = x - y + M
<1>1. M \in Nat /\ M >= 1
  BY Sizes
<1>2. Dist(x, x) = 0
  <2>1. x - x = 0 * M + 0 /\ 0 < M
    BY <1>1
  <2> QED
    BY <2>1, DistIs
<1>3. ASSUME x >= y, x - y < M PROVE Dist(x, y) = x - y
  <2>1. x - y \in Nat /\ x - y = 0 * M + (x - y)
    BY <1>1, <1>3
  <2>2. PICK r \in Nat : r = x - y
    BY <2>1
  <2> QED
    BY <1>3, <2>1, <2>2, DistIs
<1>4. ASSUME x < y, y - x <= M PROVE Dist(x, y) = x - y + M
  <2>1. PICK r \in Nat : r = x - y + M
    BY <1>1, <1>4
  <2>2. x - y = (0 - 1) * M + r /\ r < M /\ 0 - 1 \in Int
    BY <1>1, <1>4, <2>1
  <2>3. Dist(x, y) = r
    BY <2>2, DistIs
  <2> QED
    BY <2>1, <2>3
<1> QED
  BY <1>2, <1>3, <1>4

\* Going by way of a third count is never shorter.
LEMMA DistTriangle ==
  ASSUME NEW x \in Int, NEW y \in Int, NEW z \in Int
  PROVE  Dist(x, z) <= Dist(x, y) + Dist(y, z)
<1>0. M \in Nat /\ M >= 1
  BY Sizes
<1>1. PICK k \in Int, a \in Nat : x - y = k * M + a /\ a = Dist(x, y) /\ a < M
  BY DistOf
<1>2. PICK l \in Int, b \in Nat : y - z = l * M + b /\ b = Dist(y, z) /\ b < M
  BY DistOf
<1>3. (k + l) * M = k * M + l * M /\ k * M \in Int /\ l * M \in Int
  BY <1>0, Products
<1>4. x - z = (k + l) * M + (a + b)
  <2>1. PICK p \in Int, q \in Int : p = k * M /\ q = l * M
    BY <1>3
  <2>2. x - y = p + a /\ y - z = q + b /\ (k + l) * M = p + q
    BY <1>1, <1>2, <1>3, <2>1, Zenon
  <2> QED
    BY <2>2
<1>5. CASE a + b < M
  <2>1. Dist(x, z) = a + b
    BY <1>4, <1>5, DistIs
  <2> QED
    BY <1>1, <1>2, <2>1
<1>6. CASE a + b >= M
  <2>1. (k + l + 1) * M = (k + l) * M + 1 * M /\ (k + l) * M \in Int
    BY <1>0, Products
  <2>2. PICK r \in Nat : r = a + b - M /\ r < M
    BY <1>0, <1>1, <1>2, <1>6
  <2>3. x - z = (k + l + 1) * M + r
    BY <1>0, <1>4, <2>1, <2>2
  <2>4. Dist(x, z) = r
    BY <2>2, <2>3, DistIs
  <2> QED
    BY <1>0, <1>1, <1>2, <2>2, <2>4
<1> QED
  BY <1>0, <1>1, <1>2, <1>5, <1>6

\* Equal words are at the same distance from everything.
LEMMA DistSame ==
  ASSUME NEW x \in Int, NEW y \in Int, NEW z \in Int, Dist(x, y) = 0
  PROVE  Dist(x, z) = Dist(y, z) /\ Dist(z, x) = Dist(z, y)
<1>0. M \in Nat /\ M >= 1
  BY Sizes
<1>1. PICK k \in Int : x - y = k * M
  <2>1. PICK k \in Int, r \in Nat : x - y = k * M + r /\ r = Dist(x, y) /\ r < M
    BY DistOf
  <2>2. k * M \in Int
    BY <1>0, Products
  <2> QED
    BY <2>1, <2>2
<1>2. PICK l \in Int, b \in Nat : y - z = l * M + b /\ b = Dist(y, z) /\ b < M
  BY DistOf
<1>3. PICK j \in Int, c \in Nat : z - y = j * M + c /\ c = Dist(z, y) /\ c < M
  BY DistOf
<1>4. (k + l) * M = k * M + l * M /\ k * M \in Int /\ l * M \in Int
  BY <1>0, Products
<1>5. (j - k) * M = j * M - k * M /\ j * M \in Int
  BY <1>0, Products
<1>6. x - z = (k + l) * M + b
  <2>1. PICK p \in Int, q \in Int : p = k * M /\ q = l * M
    BY <1>4
  <2>2. x - y = p /\ y - z = q + b /\ (k + l) * M = p + q
    BY <1>1, <1>2, <1>4, <2>1, Zenon
  <2> QED
    BY <2>2
<1>7. z - x = (j - k) * M + c
  <2>1. PICK p \in Int, q \in Int : p = k * M /\ q = j * M
    BY <1>4, <1>5
  <2>2. x - y = p /\ z - y = q + c /\ (j - k) * M = q - p
    BY <1>1, <1>3, <1>5, <2>1, Zenon
  <2> QED
    BY <2>2
<1>8. Dist(x, z) = b
  BY <1>2, <1>6, DistIs
<1>9. Dist(z, x) = c
  BY <1>3, <1>7, DistIs
<1> QED
  BY <1>2, <1>3, <1>8, <1>9

\* A word is the same word as the number it is taken from.
LEMMA DistRem ==
  ASSUME NEW x \in Int
  PROVE  Dist(x % M, x) = 0 /\ x % M \in Int
<1>0. M \in Nat /\ M >= 1
  BY Sizes
<1>1. x \div M \in Int /\ x % M \in Int /\ x = (x \div M) * M + (x % M)
  BY <1>0, Division
<1>2. PICK k \in Int, r \in Int : x = k * M + r /\ r = x % M
  BY <1>1
<1>3. (0 - k) * M = 0 * M - k * M /\ k * M \in Int /\ 0 * M = 0
  BY <1>0, Products
<1>4. r - x = (0 - k) * M + 0
  BY <1>2, <1>3
<1>5. Dist(r, x) = 0
  <2>1. 0 - k \in Int /\ 0 \in Nat /\ 0 < M
    BY <1>0
  <2> QED
    BY <1>4, <2>1, DistIs
<1> QED
  BY <1>2, <1>5

\* One more count: a millisecond begins, or the phase within one moves on.  The
\* counter's turn is a whole number of turns of the millisecond count.
LEMMA TickCounts ==
  ASSUME S <= H, NEW t \in Time, NEW u, u = (t + 1) % 2^(W + H)
  PROVE  /\ u % 2^S = 0 => Dist(Milliseconds(u), Milliseconds(t) + 1) = 0 /\ t % 2^S = 2^S - 1
         /\ u % 2^S # 0 => Milliseconds(u) = Milliseconds(t) /\ u % 2^S = (t % 2^S) + 1
         /\ Milliseconds(u) \in Nat /\ Milliseconds(t) \in Nat
<1>1. PICK p \in Nat, m \in Nat, n \in Nat, g \in Nat : p = 2^S /\ m = M /\ n = 2^(W + H) /\ g = 2^(H - S)
  BY Sizes, TurnAssumption, Zenon
<1>2. p >= 1 /\ m >= 1 /\ n >= 1 /\ n = (g * m) * p
  BY <1>1, Sizes, TurnAssumption, Zenon DEF M
<1>3. t \in Nat /\ t < n
  BY <1>1, <1>2 DEF Time
<1>4. PICK q \in Nat, r \in Nat : t = q * p + r /\ q = t \div p /\ r = t % p /\ r < p
  BY <1>2, <1>3, Divided
<1>5. q * p \in Int /\ (q + 1) * p = q * p + 1 * p /\ g * m \in Int /\ g * m \in Nat
  BY Products
<1>6. CASE t + 1 < n
  <2>1. u = t + 1
    BY <1>1, <1>2, <1>3, <1>6
  <2>2. CASE r + 1 < p
    <3>1. u = q * p + (r + 1) /\ r + 1 \in Nat
      BY <1>4, <1>5, <2>1
    <3>2. u \div p = q /\ u % p = r + 1
      <4>1. PICK s \in Nat : s = r + 1 /\ s < p
        BY <2>2
      <4>2. (q * p + s) \div p = q /\ (q * p + s) % p = s
        <5>1. q \in Int /\ p \in Nat /\ p >= 1 /\ s \in Nat /\ s < p
          BY <1>2, <4>1
        <5> QED
          BY <5>1, DivisionUnique
      <4> QED
        BY <3>1, <4>1, <4>2
    <3> QED
      BY <1>1, <1>4, <3>2 DEF Milliseconds
  <2>3. CASE r + 1 = p
    <3>1. u = (q + 1) * p + 0 /\ q + 1 \in Int /\ 0 < p /\ 0 \in Nat
      BY <1>2, <1>4, <1>5, <2>1, <2>3
    <3>2. u \div p = q + 1 /\ u % p = 0
      BY <1>2, <3>1, DivisionUnique
    <3>3. Dist(q + 1, q + 1) = 0
      BY <3>1, DistNear
    <3>4. r = p - 1 /\ u % p = 0 /\ q + 1 \in Nat
      BY <2>3, <3>2
    <3> QED
      BY <1>1, <1>4, <3>2, <3>3, <3>4, Zenon DEF Milliseconds
  <2> QED
    BY <1>4, <2>2, <2>3
<1>7. CASE t + 1 = n
  <2>1. u = 0
    BY <1>1, <1>2, <1>7
  <2>2. PICK k \in Nat : k = g * m
    BY <1>5
  <2>3. (k - 1) * p = k * p - 1 * p /\ k * p \in Int /\ k - 1 \in Int
    BY Products
  <2>4. t = (k - 1) * p + (p - 1)
    <3>1. PICK z \in Int : z = k * p
      BY <2>3
    <3>2. t + 1 = z /\ (k - 1) * p = z - p
      <4>1. 1 * p = p
        OBVIOUS
      <4> QED
        BY <1>2, <1>7, <2>2, <2>3, <3>1, <4>1, Zenon
    <3> QED
      BY <1>3, <3>1, <3>2
  <2>5. PICK r1 \in Nat : r1 = p - 1 /\ r1 < p
    BY <1>2
  <2>6. q = k - 1 /\ r = p - 1
    <3>1. t = (k - 1) * p + r1
      BY <2>4, <2>5
    <3>2. ((k - 1) * p + r1) \div p = k - 1 /\ ((k - 1) * p + r1) % p = r1
      BY <1>2, <2>3, <2>5, DivisionUnique
    <3> QED
      BY <1>4, <2>5, <3>1, <3>2
  <2>7. u \div p = 0 /\ u % p = 0
    BY <1>2, <2>1
  <2>8. Dist(0, k) = 0
    <3>1. (0 - g) * M = 0 * M - g * M /\ g * M \in Int /\ 0 * M = 0
      BY <1>1, Products
    <3>2. 0 - k = (0 - g) * M + 0
      BY <1>1, <2>2, <3>1
    <3>3. 0 - g \in Int /\ 0 \in Nat /\ 0 < M /\ 0 \in Int /\ k \in Int
      BY Sizes
    <3> QED
      BY <3>2, <3>3, DistIs
  <2>9. q + 1 = k
    BY <2>6
  <2>10. r = p - 1 /\ 0 \in Nat
    BY <2>6
  <2> QED
    BY <1>1, <1>4, <2>7, <2>8, <2>9, <2>10, Zenon DEF Milliseconds
<1> QED
  BY <1>3, <1>6, <1>7

\* A count is so many milliseconds.
LEMMA MillisecondsNat ==
  ASSUME NEW t \in Time
  PROVE  Milliseconds(t) \in Nat /\ t % 2^S \in Nat /\ t % 2^S <= 2^S - 1
<1>1. PICK p \in Nat : p = 2^S /\ p >= 1
  BY Sizes
<1>2. t \in Nat
  BY Words
<1>3. t \div p \in Nat /\ t % p \in Nat /\ t % p <= p - 1
  BY <1>1, <1>2
<1> QED
  BY <1>1, <1>3 DEF Milliseconds

-----------------------------------------------------------------------------
(* Delays while no handler runs: no delay is early. *)

\* No handler runs, as in __udelay's and udelay_masked's callers that mask interrupts,
\* the counter's turn is a whole number of turns of the millisecond count (in the code
\* 2^12 of them), and elapsed can count every delay.
Masked == Handlers = {} /\ S <= H /\ Delays \subseteq 0 .. Horizon

Loops == {"loop", "maskedLoop"}
Starts == {"udelay", "masked", "reset"}

\* The millisecond of the last reading: the previous one, when no new one has begun.
Last(c, ld) ==
  IF c.pc = "low" THEN ld ELSE IF c.pc = "high" THEN Milliseconds(c.read) ELSE c.now

\* What the stamp has counted since the delay began, with what the reading under way
\* is about to add.
Counted(c, st, ld) ==
  IF c.then \notin Loops THEN 0
  ELSE IF c.pc \in {"store", "dec"} THEN Dist(c.sum, c.tmo - c.req)
  ELSE Dist(st, c.tmo - c.req) + Dist(Last(c, ld), ld)

\* The call has read the timer.
HasRead(c) ==
  \/ c.pc \in {"high", "add", "store", "dec", "resetDec", "resetStamp"}
  \/ c.pc = "low" /\ c.then \in Loops

\* At least n milliseconds have begun, as far as elapsed counts them.
Reached(e, n) == e >= n \/ e = Horizon

\* The control of a delay: what it waits for, and which stores it has made.
Ordered(c, st, ld) ==
  /\ c.torn = FALSE
  /\ c.then \in Starts => c.tmo = c.req
  /\ c.then = "loop" => c.req <= c.tmo /\ c.tmo <= M - 2
  /\ c.then \in Starts \cup Loops => c.req \in Delays
  /\ c.pc \in {"resetDec", "resetStamp"} => c.then \in {"init", "reset"}
  /\ c.pc = "resetStamp" => ld = c.now
  /\ c.pc = "dec" => st = c.sum

\* As many milliseconds have begun as the stamp has counted and the last reading is old.
NotEarly(c, e, ms, st, ld) ==
  /\ HasRead(c) => Reached(e, Counted(c, st, ld) + Dist(ms, Last(c, ld)))
  /\ c.pc = "done" /\ c.then = "loop" => Reached(e, c.req)
  /\ c.pc = "done" /\ c.then = "maskedLoop" => Reached(e, c.req + 1)

\* The inductive invariant: main's activation is alone, and its delay is not early.
DelayInv ==
  ctx # <<>> =>
    /\ Len(ctx) = 1 /\ Ordered(ctx[1], timestamp, lastdec)
    /\ NotEarly(ctx[1], elapsed, Milliseconds(time), timestamp, lastdec)

\* A word is twice as many as the largest delay may have.
LEMMA Half ==
  \E h \in Nat : M = 2 * h /\ h >= 1 /\ M >= 2 /\ M \in Nat /\ h = 2^(W - 1)
<1>1. PICK h \in Nat : h = 2^(W - 1) /\ M = 2 * h
  BY PowerAssumption, Zenon DEF M
<1>2. M >= 1 /\ M \in Nat
  BY Sizes
<1>3. h >= 1 /\ M >= 2
  BY <1>1, <1>2
<1> QED
  BY <1>1, <1>2, <1>3

\* The numbers of an activation.
LEMMA Numbers ==
  ASSUME NEW c \in Activation, NEW ld \in Word, NEW st \in Word
  PROVE  /\ c.req \in Nat /\ c.tmo \in Nat /\ c.now \in Nat /\ c.sum \in Nat /\ ld \in Nat /\ st \in Nat
         /\ c.req < M /\ c.tmo < M /\ c.now < M /\ c.sum < M /\ ld < M /\ st < M
         /\ Milliseconds(c.read) \in Nat /\ Last(c, ld) \in Nat /\ c.tmo - c.req \in Int
         /\ Counted(c, st, ld) \in Nat
<1>1. /\ c.req \in Nat /\ c.tmo \in Nat /\ c.now \in Nat /\ c.sum \in Nat /\ ld \in Nat /\ st \in Nat
      /\ c.req < M /\ c.tmo < M /\ c.now < M /\ c.sum < M /\ ld < M /\ st < M
  BY Fields, Words, Zenon
<1>2. Milliseconds(c.read) \in Nat
  <2>1. c.read \in Time
    BY Fields
  <2> QED
    BY <2>1, MillisecondsNat
<1>3. Last(c, ld) \in Nat /\ c.tmo - c.req \in Int
  BY <1>1, <1>2 DEF Last
<1>4. Counted(c, st, ld) \in Nat
  <2>1. PICK x \in Int, y \in Int : x = c.tmo - c.req /\ y = Last(c, ld)
    BY <1>3
  <2>2. Dist(c.sum, x) \in Nat /\ Dist(st, x) \in Nat /\ Dist(y, ld) \in Nat
    <3>1. c.sum \in Int /\ st \in Int /\ ld \in Int
      BY <1>1
    <3> QED
      BY <2>1, <3>1, DistWord
  <2>3. Dist(st, x) + Dist(y, ld) \in Nat /\ 0 \in Nat
    BY <2>2
  <2> QED
    BY <2>1, <2>2, <2>3 DEF Counted
<1> QED
  BY <1>1, <1>2, <1>3, <1>4

\* Time passes: by b milliseconds, none or one.
LEMMA EarlyTick ==
  ASSUME NEW c \in Activation, NEW e \in 0 .. Horizon, NEW ms \in Nat, NEW ms2 \in Nat,
         NEW st \in Word, NEW ld \in Word, NotEarly(c, e, ms, st, ld),
         NEW b \in {0, 1}, Dist(ms2, ms) <= b, NEW f, f = IF b = 1 THEN Capped(e) ELSE e
  PROVE  NotEarly(c, f, ms2, st, ld)
<1>1. Last(c, ld) \in Nat /\ Counted(c, st, ld) \in Nat /\ c.req \in Nat
  BY Numbers
<1>2. PICK l \in Int, k \in Nat : l = Last(c, ld) /\ k = Counted(c, st, ld)
  BY <1>1
<1>3. Dist(ms2, l) <= Dist(ms2, ms) + Dist(ms, l)
  BY DistTriangle
<1>4. Dist(ms2, l) \in Nat /\ Dist(ms2, ms) \in Nat /\ Dist(ms, l) \in Nat
  <2>1. ms \in Int /\ ms2 \in Int
    OBVIOUS
  <2> QED
    BY <2>1, DistWord
<1>5. e \in Nat /\ Horizon \in Nat /\ f \in Nat /\ f >= e /\ (e = Horizon => f = Horizon)
      /\ (e # Horizon => f = e + b) /\ e <= Horizon
  BY InputAssumption DEF Capped
<1>6. ASSUME Reached(e, k + Dist(ms, l)) PROVE Reached(f, k + Dist(ms2, l))
  BY <1>3, <1>4, <1>5, <1>6 DEF Reached
<1>7. ASSUME NEW n \in Nat, Reached(e, n) PROVE Reached(f, n)
  BY <1>5, <1>7 DEF Reached
<1>8. c.req + 1 \in Nat
  BY <1>1
<1> QED
  BY <1>1, <1>2, <1>6, <1>7, <1>8, Zenon DEF NotEarly

\* Fewer milliseconds have begun too.
LEMMA ReachedLess ==
  ASSUME NEW e \in 0 .. Horizon, NEW n \in Nat, NEW k \in Nat, Reached(e, n), k <= n
  PROVE  Reached(e, k)
BY InputAssumption DEF Reached

\* The same activation, one step on: what it waits for has not changed.
Goes(c, d) == d.then = c.then /\ d.tmo = c.tmo /\ d.req = c.req

\* The low half is read.
LEMMA EarlyReadLow ==
  ASSUME NEW c \in Activation, NEW d \in Activation, NEW e \in 0 .. Horizon, NEW t \in Time,
         NEW st \in Word, NEW ld \in Word, NotEarly(c, e, Milliseconds(t), st, ld),
         c.pc = "low", d.pc = "high", d.read = t, Goes(c, d)
  PROVE  NotEarly(d, e, Milliseconds(t), st, ld)
<1>1. PICK ms \in Int, x \in Int, l \in Int, s \in Int :
        ms = Milliseconds(t) /\ x = c.tmo - c.req /\ l = ld /\ s = st
  <2>1. Milliseconds(t) \in Int /\ c.tmo - c.req \in Int /\ ld \in Int /\ st \in Int
    BY MillisecondsNat, Numbers
  <2> QED
    BY <2>1
<1>2. Dist(ms, ms) = 0 /\ Dist(l, l) = 0
  BY DistNear
<1>3. Dist(ms, l) \in Nat /\ Dist(s, x) \in Nat
  BY DistWord
<1>4. Last(c, ld) = l /\ Last(d, ld) = ms
  BY <1>1 DEF Last
<1>5. CASE c.then \in Loops
  <2>1. Counted(c, st, ld) = Dist(s, x) + Dist(l, l)
    BY <1>1, <1>4, <1>5 DEF Counted
  <2>2. Counted(d, st, ld) = Dist(s, x) + Dist(ms, l)
    BY <1>1, <1>4, <1>5 DEF Counted, Goes
  <2>3. Reached(e, Counted(c, st, ld) + Dist(ms, l))
    BY <1>1, <1>4, <1>5 DEF NotEarly, HasRead
  <2>4. Counted(d, st, ld) + Dist(ms, ms) = Counted(c, st, ld) + Dist(ms, l)
    BY <1>2, <1>3, <2>1, <2>2
  <2> QED
    BY <1>1, <1>4, <2>3, <2>4 DEF NotEarly
<1>6. CASE c.then \notin Loops
  <2>1. Counted(d, st, ld) = 0
    BY <1>6 DEF Counted, Goes
  <2>2. Reached(e, 0 + 0)
    BY DEF Reached
  <2> QED
    BY <1>1, <1>2, <1>4, <2>1, <2>2 DEF NotEarly
<1> QED
  BY <1>5, <1>6

\* The high half is read: the milliseconds are those of the low half's moment.
LEMMA EarlyReadHigh ==
  ASSUME NEW c \in Activation, NEW d \in Activation, NEW e \in 0 .. Horizon, NEW ms \in Nat,
         NEW st \in Word, NEW ld \in Word, NotEarly(c, e, ms, st, ld),
         c.pc = "high", d.pc \in {"add", "resetDec"}, Dist(d.now, Milliseconds(c.read)) = 0, Goes(c, d)
  PROVE  NotEarly(d, e, ms, st, ld)
<1>1. PICK x \in Int, l \in Int, s \in Int, r \in Int, n \in Int, m \in Int :
        x = c.tmo - c.req /\ l = ld /\ s = st /\ r = Milliseconds(c.read) /\ n = d.now /\ m = ms
  <2>1. ms \in Int /\ c.tmo - c.req \in Int /\ ld \in Int /\ st \in Int /\ Milliseconds(c.read) \in Int
    BY Numbers
  <2>2. d.now \in Int
    BY Numbers
  <2> QED
    BY <2>1, <2>2
<1>2. Dist(n, r) = 0
  BY <1>1
<1>3. Dist(n, l) = Dist(r, l) /\ Dist(m, n) = Dist(m, r)
  BY <1>2, DistSame
<1>4. Last(c, ld) = r /\ Last(d, ld) = n
  BY <1>1 DEF Last
<1>5. Counted(d, st, ld) = Counted(c, st, ld)
  BY <1>1, <1>3, <1>4 DEF Counted, Goes
<1>6. Reached(e, Counted(c, st, ld) + Dist(m, r))
  BY <1>1, <1>4 DEF NotEarly, HasRead
<1>7. Reached(e, Counted(d, st, ld) + Dist(m, n))
  BY <1>3, <1>5, <1>6, Zenon
<1> QED
  BY <1>1, <1>4, <1>7 DEF NotEarly

\* What get_timer_masked adds is at most what the count has advanced.
AdvanceFrom(now, ld) == IF now >= ld THEN now - ld ELSE now + (M - 1) - ld

LEMMA AdvanceDist ==
  ASSUME NEW now \in Word, NEW ld \in Word
  PROVE  /\ AdvanceFrom(now, ld) \in Nat /\ AdvanceFrom(now, ld) < M
         /\ AdvanceFrom(now, ld) <= Dist(now, ld)
         /\ now >= ld => AdvanceFrom(now, ld) = Dist(now, ld)
         /\ now < ld => AdvanceFrom(now, ld) + 1 = Dist(now, ld)
<1>1. now \in Nat /\ now < M /\ ld \in Nat /\ ld < M /\ M \in Nat
  BY Words, Sizes
<1>2. /\ now >= ld /\ now - ld < M => Dist(now, ld) = now - ld
      /\ now < ld /\ ld - now <= M => Dist(now, ld) = now - ld + M
  <2>1. now \in Int /\ ld \in Int
    BY <1>1
  <2> QED
    BY <2>1, DistNear
<1> QED
  BY <1>1, <1>2 DEF AdvanceFrom

\* The stamp moves by what is added to it.
LEMMA SumDist ==
  ASSUME NEW st \in Word, NEW a \in Nat, a < M, NEW sum, sum = (st + a) % M
  PROVE  Dist(sum, st) = a
<1>1. st \in Int /\ st + a \in Int
  BY Words
<1>2. PICK y \in Int, s \in Int, z \in Int : y = st + a /\ s = st /\ z = y % M
  BY <1>1, DistRem
<1>3. Dist(z, y) = 0
  BY <1>2, DistRem
<1>4. Dist(z, s) = Dist(y, s)
  BY <1>3, DistSame
<1>5. y >= s /\ y - s < M /\ y - s = a
  BY <1>2
<1>6. Dist(y, s) = y - s
  BY <1>5, DistNear
<1> QED
  BY <1>2, <1>4, <1>5, <1>6

\* The stamp's sum.
LEMMA EarlyAdd ==
  ASSUME NEW c \in Activation, NEW d \in Activation, NEW e \in 0 .. Horizon, NEW ms \in Nat,
         NEW st \in Word, NEW ld \in Word, NotEarly(c, e, ms, st, ld),
         c.pc = "add", d.pc = "store", d.now = c.now, Goes(c, d),
         d.sum = (st + AdvanceFrom(c.now, ld)) % M
  PROVE  NotEarly(d, e, ms, st, ld)
<1>1. PICK x \in Int, l \in Int, s \in Int, n \in Int, m \in Int, y \in Int, a \in Nat :
        x = c.tmo - c.req /\ l = ld /\ s = st /\ n = c.now /\ m = ms /\ y = d.sum /\ a = AdvanceFrom(c.now, ld)
  <2>1. ms \in Int /\ c.tmo - c.req \in Int /\ ld \in Int /\ st \in Int /\ c.now \in Int
    BY Numbers
  <2>2. d.sum \in Int
    BY Numbers
  <2>3. AdvanceFrom(c.now, ld) \in Nat
    BY Fields, AdvanceDist
  <2> QED
    BY <2>1, <2>2, <2>3
<1>2. a < M /\ a <= Dist(n, l)
  BY <1>1, Fields, AdvanceDist
<1>3. Dist(y, s) = a
  BY <1>1, <1>2, SumDist
<1>4. Dist(y, x) <= Dist(y, s) + Dist(s, x)
  BY DistTriangle
<1>5. Dist(y, x) \in Nat /\ Dist(s, x) \in Nat /\ Dist(n, l) \in Nat /\ Dist(m, n) \in Nat
  BY DistWord
<1>6. Last(c, ld) = n /\ Last(d, ld) = n
  BY <1>1 DEF Last
<1>7. Reached(e, Counted(c, st, ld) + Dist(m, n))
  BY <1>1, <1>6 DEF NotEarly, HasRead
<1>8. Reached(e, Counted(d, st, ld) + Dist(m, n))
  <2>1. CASE c.then \in Loops
    <3>1. Counted(c, st, ld) = Dist(s, x) + Dist(n, l)
      BY <1>1, <1>6, <2>1 DEF Counted
    <3>2. Counted(d, st, ld) = Dist(y, x)
      BY <1>1, <2>1 DEF Counted, Goes
    <3>3. PICK i \in Nat, j \in Nat : i = Dist(s, x) + Dist(n, l) + Dist(m, n) /\ j = Dist(y, x) + Dist(m, n)
      BY <1>5
    <3>4. j <= i
      BY <1>2, <1>3, <1>4, <1>5, <3>3
    <3>5. Reached(e, i)
      BY <1>7, <1>5, <3>1, <3>3
    <3>6. Reached(e, j)
      BY <3>4, <3>5, ReachedLess
    <3> QED
      BY <3>2, <3>3, <3>6
  <2>2. CASE c.then \notin Loops
    BY <1>7, <2>2 DEF Counted, Goes
  <2> QED
    BY <2>1, <2>2
<1> QED
  BY <1>1, <1>6, <1>8 DEF NotEarly

\* The stores that leave what has been counted as it is.
LEMMA EarlyStore ==
  ASSUME NEW c, NEW d, NEW e, NEW ms, NEW st, NEW st2, NEW ld, NEW ld2,
         NotEarly(c, e, ms, st, ld), d.now = c.now, d.sum = c.sum, Goes(c, d),
         \/ c.pc = "store" /\ d.pc = "dec"
         \/ c.pc = "resetDec" /\ d.pc = "resetStamp" /\ c.then \notin Loops
  PROVE  NotEarly(d, e, ms, st2, ld2)
<1>1. Last(d, ld2) = Last(c, ld)
  BY DEF Last
<1>2. Counted(d, st2, ld2) = Counted(c, st, ld)
  BY DEF Counted, Goes
<1>3. HasRead(c) /\ d.pc # "done"
  BY DEF HasRead
<1> QED
  BY <1>1, <1>2, <1>3, Zenon DEF NotEarly

\* The delay polls again, or begins to.
LEMMA EarlyPoll ==
  ASSUME NEW c \in Activation, NEW d \in Activation, NEW e \in 0 .. Horizon, NEW ms \in Nat,
         NEW st \in Word, NEW ld \in Word, NotEarly(c, e, ms, st, ld), HasRead(c),
         NEW st2 \in Word, NEW ld2 \in Word, ld2 = Last(c, ld), d.pc = "low",
         d.then \in Loops => Dist(st2, d.tmo - d.req) <= Counted(c, st, ld)
  PROVE  NotEarly(d, e, ms, st2, ld2)
<1>1. PICK x \in Int, l \in Int, s \in Int, m \in Int, k \in Nat :
        x = d.tmo - d.req /\ l = ld2 /\ s = st2 /\ m = ms /\ k = Counted(c, st, ld)
  <2>1. ms \in Int /\ d.tmo - d.req \in Int /\ ld2 \in Int /\ st2 \in Int
    BY Numbers
  <2>2. Counted(c, st, ld) \in Nat
    BY Numbers
  <2> QED
    BY <2>1, <2>2
<1>2. Last(d, ld2) = l
  BY <1>1 DEF Last
<1>3. CASE d.then \in Loops
  <2>1. Counted(d, st2, ld2) = Dist(s, x) + Dist(l, l)
    BY <1>1, <1>2, <1>3 DEF Counted
  <2>2. Dist(l, l) = 0
    BY DistNear
  <2>3. Dist(s, x) \in Nat /\ Dist(m, l) \in Nat
    BY DistWord
  <2>4. Dist(s, x) <= k
    BY <1>1, <1>3
  <2>5. Reached(e, k + Dist(m, l))
    BY <1>1 DEF NotEarly
  <2>6. PICK i \in Nat, j \in Nat : i = k + Dist(m, l) /\ j = Dist(s, x) + Dist(m, l) /\ j <= i
    BY <2>3, <2>4
  <2>7. Reached(e, j)
    BY <2>5, <2>6, ReachedLess
  <2>8. Counted(d, st2, ld2) + Dist(m, l) = j
    BY <2>1, <2>2, <2>3, <2>6
  <2> QED
    BY <1>1, <1>2, <2>7, <2>8 DEF NotEarly
<1>4. CASE d.then \notin Loops
  BY <1>4 DEF NotEarly, HasRead
<1> QED
  BY <1>3, <1>4

\* The call ends.
LEMMA EarlyDone ==
  ASSUME NEW c \in Activation, NEW d \in Activation, NEW e \in 0 .. Horizon, NEW ms \in Nat,
         NEW st \in Word, NEW ld \in Word, NotEarly(c, e, ms, st, ld), HasRead(c),
         NEW st2, NEW ld2, d.pc = "done",
         d.then = "loop" => d.req <= Counted(c, st, ld),
         d.then = "maskedLoop" => d.req + 1 <= Counted(c, st, ld)
  PROVE  NotEarly(d, e, ms, st2, ld2)
<1>1. PICK k \in Nat, r \in Nat, l \in Int, m \in Int :
        k = Counted(c, st, ld) /\ r = d.req /\ l = Last(c, ld) /\ m = ms
  <2>1. Counted(c, st, ld) \in Nat /\ Last(c, ld) \in Int /\ ms \in Int
    BY Numbers
  <2>2. d.req \in Nat
    BY Numbers
  <2> QED
    BY <2>1, <2>2
<1>2. Dist(m, l) \in Nat
  BY DistWord
<1>3. Reached(e, k + Dist(m, l))
  BY <1>1 DEF NotEarly
<1>4. ASSUME NEW n \in Nat, n <= k PROVE Reached(e, n)
  <2>1. PICK i \in Nat : i = k + Dist(m, l) /\ n <= i
    BY <1>2, <1>4
  <2> QED
    BY <1>3, <2>1, ReachedLess
<1>5. r \in Nat /\ r + 1 \in Nat
  OBVIOUS
<1> QED
  BY <1>1, <1>4, <1>5 DEF NotEarly, HasRead

-----------------------------------------------------------------------------
(* The steps of main's activation, alone on the stack. *)

\* The activation is d after the step.
After(d) == ctx' # <<>> /\ Len(ctx') = 1 /\ ctx'[1] = d /\ d \in Activation

\* Main's activation is the only one.
LEMMA Alone ==
  ASSUME Masked, Inv, DelayInv, ctx # <<>>
  PROVE  /\ Me = ctx[1] /\ Me \in Activation /\ Len(ctx) = 1 /\ StateOK /\ Fine(Me, latch, alarmHigh)
         /\ ctx \in Seq(Activation) /\ DOMAIN ctx = {1}
         /\ Ordered(Me, timestamp, lastdec)
         /\ NotEarly(Me, elapsed, Milliseconds(time), timestamp, lastdec)
         /\ Me.then # "alarm" /\ Me.pc \notin {"alarmHigh", "alarmLow"}
<1>1. /\ Len(ctx) = 1 /\ Ordered(ctx[1], timestamp, lastdec)
      /\ NotEarly(ctx[1], elapsed, Milliseconds(time), timestamp, lastdec)
  BY DEF DelayInv
<1>2. Me = ctx[1]
  BY <1>1 DEF Me
<1>3. /\ Me \in Activation /\ StateOK /\ Fine(Me, latch, alarmHigh) /\ ctx \in Seq(Activation)
      /\ DOMAIN ctx = 1 .. Len(ctx)
  BY MeFacts
<1>4. Me.irq = "main"
  BY <1>3, Fields DEF Masked
<1>5. Me.then # "alarm" /\ Me.pc \notin {"alarmHigh", "alarmLow"}
  BY <1>3, <1>4 DEF Fine, Halved
<1>6. DOMAIN ctx = {1}
  BY <1>1, <1>3
<1> QED
  BY <1>1, <1>2, <1>3, <1>5, <1>6

\* It goes on as d.
LEMMA GotoAlone ==
  ASSUME Masked, Inv, Inv', DelayInv, ctx # <<>>, NEW d, Goto(d)
  PROVE  After(d)
<1>1. ctx \in Seq(Activation) /\ Len(ctx) = 1 /\ DOMAIN ctx = {1}
  BY Alone
<1>2. ctx' = [ctx EXCEPT ![1] = d]
  BY <1>1 DEF Goto
<1>3. DOMAIN ctx' = {1} /\ ctx'[1] = d
  BY <1>1, <1>2
<1>4. ctx' \in Seq(Activation)
  BY Zenon DEF Inv, TypeOK
<1>5. Len(ctx') = 1
  <2>1. Len(ctx') \in Nat /\ DOMAIN ctx' = 1 .. Len(ctx')
    BY <1>4, LenProperties
  <2> QED
    BY <1>3, <2>1
<1>6. ctx' # <<>> /\ ctx'[1] \in Activation
  BY <1>4, <1>5, ElementOfSeq, EmptySeq
<1> QED
  BY <1>3, <1>5, <1>6 DEF After

\* The first read of the timer.
LEMMA ReadLowStep ==
  ASSUME Masked, Inv, Inv', DelayInv, ReadLow
  PROVE  /\ ctx # <<>> /\ Me.pc = "low" /\ lag' = 0
         /\ UNCHANGED <<time, timestamp, lastdec, elapsed>>
         /\ \E d : After(d) /\ Goes(Me, d) /\ d.pc = "high" /\ d.read = time /\ d.torn = Me.torn
<1>1. /\ ctx # <<>> /\ Me.pc = "low" /\ lag' = 0
      /\ UNCHANGED <<time, timestamp, lastdec, elapsed>>
  BY DEF ReadLow, At
<1>2. Me \in Activation /\ Len(ctx) = 1 /\ DOMAIN ctx = {1}
  BY <1>1, Alone
<1>3. PICK d : d = [Me EXCEPT !.pc = "high", !.lo = time % M, !.read = time]
  OBVIOUS
<1>4. ctx' = [k \in DOMAIN ctx |->
               IF k = Len(ctx) THEN d ELSE [ctx[k] EXCEPT !.torn = @ \/ ctx[k].pc = "high"]]
  BY <1>3 DEF ReadLow
<1>5. DOMAIN ctx' = {1} /\ ctx'[1] = d
  BY <1>2, <1>4
<1>6. ctx' \in Seq(Activation)
  BY Zenon DEF Inv, TypeOK
<1>7. Len(ctx') = 1
  <2>1. Len(ctx') \in Nat /\ DOMAIN ctx' = 1 .. Len(ctx')
    BY <1>6, LenProperties
  <2> QED
    BY <1>5, <2>1
<1>8. ctx' # <<>> /\ ctx'[1] \in Activation
  BY <1>6, <1>7, ElementOfSeq, EmptySeq
<1>9. After(d)
  BY <1>5, <1>7, <1>8 DEF After
<1>10. d.pc = "high" /\ d.read = time /\ d.torn = Me.torn /\ Goes(Me, d)
  BY <1>2, <1>3 DEF Activation, Goes
<1> QED
  BY <1>1, <1>9, <1>10

\* The second: the reading is not torn.
LEMMA ReadHighStep ==
  ASSUME Masked, Inv, Inv', DelayInv, ReadHigh
  PROVE  /\ ctx # <<>> /\ Me.pc = "high"
         /\ UNCHANGED <<time, timestamp, lastdec, elapsed, lag>>
         /\ \E d : /\ After(d) /\ Goes(Me, d) /\ d.torn = FALSE
                   /\ d.pc = (IF Me.then \in {"init", "reset"} THEN "resetDec" ELSE "add")
                   /\ Dist(d.now, Milliseconds(Me.read)) = 0
<1>1. /\ ctx # <<>> /\ Me.pc = "high"
      /\ UNCHANGED <<time, timestamp, lastdec, elapsed, lag>>
  BY DEF ReadHigh, At
<1>2. Me \in Activation /\ Ordered(Me, timestamp, lastdec)
  BY <1>1, Alone
<1>3. PICK d : d = [Me EXCEPT !.pc = IF Me.then \in {"init", "reset"} THEN "resetDec" ELSE "add",
                              !.now = get_millisecond(latch, Me.lo), !.lo = 0]
  OBVIOUS
<1>4. After(d)
  BY <1>1, <1>3, GotoAlone DEF ReadHigh
<1>5. /\ d.pc = (IF Me.then \in {"init", "reset"} THEN "resetDec" ELSE "add")
      /\ d.torn = Me.torn /\ Goes(Me, d) /\ d.read = Me.read
  BY <1>2, <1>3 DEF Activation, Goes
<1>6. d.torn = FALSE
  BY <1>2, <1>5 DEF Ordered
<1>7. Timed(d)
  <2>1. AllFine'
    BY Zenon DEF Inv, AllFine, Fine, Timed, Halved, Due, ReadNotTorn, Halves
  <2>2. ctx' \in Seq(Activation)
    BY Zenon DEF Inv, TypeOK
  <2>3. 1 \in DOMAIN ctx'
    BY <1>4, <2>2, LenProperties DEF After
  <2> QED
    BY <1>4, <2>1, <2>3, Zenon DEF AllFine, Fine, After
<1>8. Dist(d.now, Milliseconds(Me.read)) = 0
  BY <1>5, <1>6, <1>7 DEF Timed, Dist
<1> QED
  BY <1>1, <1>4, <1>5, <1>6, <1>8

\* reset_timer_masked's two stores.
LEMMA ResetDecStep ==
  ASSUME Masked, Inv, Inv', DelayInv, ResetDec
  PROVE  /\ ctx # <<>> /\ Me.pc = "resetDec" /\ lastdec' = Me.now
         /\ UNCHANGED <<time, timestamp, elapsed, lag>>
         /\ \E d : /\ After(d) /\ Goes(Me, d) /\ d.torn = Me.torn /\ d.pc = "resetStamp"
                   /\ d.now = Me.now /\ d.sum = Me.sum
<1>1. /\ ctx # <<>> /\ Me.pc = "resetDec" /\ lastdec' = Me.now
      /\ UNCHANGED <<time, timestamp, elapsed, lag>>
  BY DEF ResetDec, At
<1>2. Me \in Activation
  BY <1>1, Alone
<1>3. PICK d : d = [Me EXCEPT !.pc = "resetStamp"]
  OBVIOUS
<1>4. After(d)
  BY <1>1, <1>3, GotoAlone DEF ResetDec
<1>5. Goes(Me, d) /\ d.torn = Me.torn /\ d.pc = "resetStamp" /\ d.now = Me.now /\ d.sum = Me.sum
  BY <1>2, <1>3 DEF Activation, Goes
<1> QED
  BY <1>1, <1>4, <1>5

LEMMA ResetStampStep ==
  ASSUME Masked, Inv, Inv', DelayInv, ResetStamp
  PROVE  /\ ctx # <<>> /\ Me.pc = "resetStamp" /\ timestamp' = 0
         /\ UNCHANGED <<time, lastdec, elapsed, lag>>
         /\ \E d : /\ After(d) /\ d.torn = FALSE
                   /\ \/ Me.then = "init" /\ d.pc = "done" /\ d.then = "init"
                      \/ /\ Me.then # "init" /\ d.pc = "low" /\ d.then = "loop"
                         /\ d.tmo = Me.tmo /\ d.req = Me.req
<1>1. /\ ctx # <<>> /\ Me.pc = "resetStamp" /\ timestamp' = 0
      /\ UNCHANGED <<time, lastdec, elapsed, lag>>
  BY DEF ResetStamp, At
<1>2. CASE Me.then = "init"
  <2>1. PICK d : d = [New(Me.irq, "init", 0) EXCEPT !.pc = "done"]
    OBVIOUS
  <2>2. After(d)
    BY <1>1, <1>2, <2>1, GotoAlone DEF ResetStamp
  <2>3. d.pc = "done" /\ d.then = "init" /\ d.torn = FALSE
    BY <2>1 DEF New
  <2> QED
    BY <1>1, <1>2, <2>2, <2>3
<1>3. CASE Me.then # "init"
  <2>1. PICK d : d = [New(Me.irq, "loop", Me.req) EXCEPT !.tmo = Me.tmo]
    OBVIOUS
  <2>2. After(d)
    BY <1>1, <1>3, <2>1, GotoAlone DEF ResetStamp
  <2>3. d.pc = "low" /\ d.then = "loop" /\ d.torn = FALSE /\ d.tmo = Me.tmo /\ d.req = Me.req
    BY <2>1 DEF New
  <2> QED
    BY <1>1, <1>3, <2>2, <2>3
<1> QED
  BY <1>2, <1>3

\* The sum of get_timer_masked, and its first store.
LEMMA AddStep ==
  ASSUME Masked, Inv, Inv', DelayInv, Add
  PROVE  /\ ctx # <<>> /\ Me.pc = "add"
         /\ UNCHANGED <<time, timestamp, lastdec, elapsed, lag>>
         /\ \E d : /\ After(d) /\ Goes(Me, d) /\ d.torn = FALSE /\ d.pc = "store" /\ d.now = Me.now
                   /\ d.sum = (timestamp + AdvanceFrom(Me.now, lastdec)) % M
<1>1. /\ ctx # <<>> /\ Me.pc = "add"
      /\ UNCHANGED <<time, timestamp, lastdec, elapsed, lag>>
  BY DEF Add, At
<1>2. Me \in Activation
  BY <1>1, Alone
<1>3. PICK s : s = (timestamp + AdvanceFrom(Me.now, lastdec)) % M
  OBVIOUS
<1>4. s = (timestamp + Advance(Me.now)) % M
  BY <1>3 DEF Advance, AdvanceFrom
<1>5. PICK d : d = [Me EXCEPT !.pc = "store", !.read = 0, !.torn = FALSE, !.sum = s]
  OBVIOUS
<1>6. After(d)
  BY <1>1, <1>4, <1>5, GotoAlone DEF Add
<1>7. Goes(Me, d) /\ d.torn = FALSE /\ d.pc = "store" /\ d.now = Me.now /\ d.sum = s
  BY <1>2, <1>5 DEF Activation, Goes
<1> QED
  BY <1>1, <1>3, <1>6, <1>7

LEMMA StoreStep ==
  ASSUME Masked, Inv, Inv', DelayInv, Store
  PROVE  /\ ctx # <<>> /\ Me.pc = "store" /\ timestamp' = Me.sum
         /\ UNCHANGED <<time, lastdec, elapsed, lag>>
         /\ \E d : /\ After(d) /\ Goes(Me, d) /\ d.torn = Me.torn /\ d.pc = "dec"
                   /\ d.now = Me.now /\ d.sum = Me.sum
<1>1. /\ ctx # <<>> /\ Me.pc = "store" /\ timestamp' = Me.sum
      /\ UNCHANGED <<time, lastdec, elapsed, lag>>
  BY DEF Store, At
<1>2. Me \in Activation
  BY <1>1, Alone
<1>3. PICK d : d = [Me EXCEPT !.pc = "dec"]
  OBVIOUS
<1>4. After(d)
  BY <1>1, <1>3, GotoAlone DEF Store
<1>5. Goes(Me, d) /\ d.torn = Me.torn /\ d.pc = "dec" /\ d.now = Me.now /\ d.sum = Me.sum
  BY <1>2, <1>3 DEF Activation, Goes
<1> QED
  BY <1>1, <1>4, <1>5

\* How get_timer_masked's callers go on with the stamp c.sum: they poll for tmo, or end.
PollsFor(c, then, tmo) ==
  \/ c.then = "udelay" /\ (c.tmo + c.sum + 1) % M < c.sum /\ then = "reset" /\ tmo = c.tmo
  \/ /\ c.then = "udelay" /\ ~((c.tmo + c.sum + 1) % M < c.sum)
     /\ then = "loop" /\ tmo = (c.tmo + c.sum) % M
  \/ c.then = "loop" /\ c.sum < c.tmo /\ then = "loop" /\ tmo = c.tmo
  \/ c.then = "masked" /\ then = "maskedLoop" /\ tmo = (c.sum + c.tmo) % M
  \/ c.then = "maskedLoop" /\ then = "maskedLoop" /\ tmo = c.tmo

Ends(c) ==
  \/ c.then = "ticks"
  \/ c.then = "loop" /\ ~(c.sum < c.tmo)
  \/ c.then = "maskedLoop" /\ ~((c.tmo - c.sum) % M < M \div 2)

\* Its second store, and what its callers do next.
LEMMA DecStep ==
  ASSUME Masked, Inv, Inv', DelayInv, TicksDec \/ UdelayStart \/ UdelayLoop \/ MaskedStart \/ MaskedLoop
  PROVE  /\ ctx # <<>> /\ Me.pc = "dec" /\ lastdec' = Me.now
         /\ UNCHANGED <<time, timestamp, elapsed, lag>>
         /\ \E d : /\ After(d) /\ d.torn = FALSE /\ d.req = Me.req
                   /\ \/ d.pc = "low" /\ PollsFor(Me, d.then, d.tmo)
                      \/ d.pc = "done" /\ d.then = Me.then /\ d.tmo = d.req /\ Ends(Me)
<1>1. /\ ctx # <<>> /\ Me.pc = "dec" /\ lastdec' = Me.now
      /\ UNCHANGED <<time, timestamp, elapsed, lag>>
  BY DEF TicksDec, UdelayStart, UdelayLoop, MaskedStart, MaskedLoop, At, SetDec
<1>2. (\E then, tmo : Poll(then, tmo) /\ PollsFor(Me, then, tmo)) \/ (Done /\ Ends(Me))
  BY DEF TicksDec, UdelayStart, UdelayLoop, MaskedStart, MaskedLoop, PollsFor, Ends, Poll, Goto, Done
<1>3. CASE \E then, tmo : Poll(then, tmo) /\ PollsFor(Me, then, tmo)
  <2>1. PICK then, tmo : Poll(then, tmo) /\ PollsFor(Me, then, tmo)
    BY <1>3
  <2>2. PICK d : d = [New(Me.irq, then, Me.req) EXCEPT !.tmo = tmo]
    OBVIOUS
  <2>3. After(d)
    BY <1>1, <2>1, <2>2, GotoAlone DEF Poll
  <2>4. d.torn = FALSE /\ d.req = Me.req /\ d.pc = "low" /\ d.then = then /\ d.tmo = tmo
    BY <2>2 DEF New
  <2>5. PollsFor(Me, d.then, d.tmo)
    BY <2>1, <2>4
  <2> QED
    BY <1>1, <2>3, <2>4, <2>5
<1>4. CASE Done /\ Ends(Me)
  <2>1. PICK d : d = [New(Me.irq, Me.then, Me.req) EXCEPT !.pc = "done"]
    OBVIOUS
  <2>2. After(d)
    BY <1>1, <1>4, <2>1, GotoAlone DEF Done
  <2>3. d.torn = FALSE /\ d.req = Me.req /\ d.tmo = d.req /\ d.pc = "done" /\ d.then = Me.then
    BY <2>1 DEF New
  <2> QED
    BY <1>1, <1>4, <2>2, <2>3
<1> QED
  BY <1>2, <1>3, <1>4

\* goldfish_timer_read ends.
LEMMA TimerReadStep ==
  ASSUME Masked, Inv, Inv', DelayInv, TimerRead
  PROVE  /\ ctx # <<>> /\ Me.pc = "high"
         /\ UNCHANGED <<time, timestamp, lastdec, elapsed, lag>>
         /\ \E d : After(d) /\ d.torn = FALSE /\ d.pc = "done" /\ d.then = "read"
<1>1. ctx # <<>> /\ Me.pc = "high" /\ UNCHANGED <<time, timestamp, lastdec, elapsed, lag>>
  BY DEF TimerRead, At
<1>2. PICK d : d = [New(Me.irq, "read", 0) EXCEPT !.pc = "done", !.read = Me.read,
                                        !.now = (Me.lo + latch * M) % M]
  OBVIOUS
<1>3. After(d)
  BY <1>1, <1>2, GotoAlone DEF TimerRead
<1>4. d.torn = FALSE /\ d.pc = "done" /\ d.then = "read"
  BY <1>2 DEF New
<1> QED
  BY <1>1, <1>3, <1>4

\* A call.
LEMMA MainStep ==
  ASSUME Masked, Inv, Inv', Main
  PROVE  /\ ctx = <<>> /\ lag' = 0
         /\ UNCHANGED <<time, timestamp, lastdec, elapsed>>
         /\ \E d : /\ After(d) /\ d.torn = FALSE /\ d.pc = "low" /\ d.tmo = d.req
                   /\ d.then \in Reads \/ (d.then \in {"udelay", "masked"} /\ d.req \in Delays)
<1>1. PICK then, arg : /\ MainCall(then, arg)
                       /\ then \in Reads \/ (then \in {"udelay", "masked"} /\ arg \in Delays)
  BY DEF Main
<1>2. PICK d : d = New("main", then, arg)
  OBVIOUS
<1>3. /\ ctx = <<>> /\ lag' = 0 /\ ctx' = << d >>
      /\ UNCHANGED <<time, timestamp, lastdec, elapsed>>
  BY <1>1, <1>2 DEF MainCall
<1>4. ctx' \in Seq(Activation)
  BY Zenon DEF Inv, TypeOK
<1>5. ctx' # <<>> /\ Len(ctx') = 1 /\ ctx'[1] = d
  BY <1>3
<1>6. d \in Activation
  BY <1>4, <1>5, ElementOfSeq
<1>7. d.torn = FALSE /\ d.pc = "low" /\ d.tmo = arg /\ d.req = arg /\ d.then = then
  BY <1>2 DEF New
<1> QED
  BY <1>1, <1>3, <1>5, <1>6, <1>7 DEF After

\* With no handler there are no interrupts and no alarms.
LEMMA NoOthers ==
  ASSUME Masked, Inv, DelayInv,
         \/ \E irq \in Handlers : irq_handler(irq)
         \/ AlarmRead \/ AlarmWriteHigh \/ AlarmWriteLow
  PROVE  FALSE
<1>1. CASE \E irq \in Handlers : irq_handler(irq)
  BY <1>1 DEF Masked
<1>2. CASE AlarmRead \/ AlarmWriteHigh \/ AlarmWriteLow
  <2>1. ctx # <<>> /\ (Me.then = "alarm" \/ Me.pc \in {"alarmHigh", "alarmLow"})
    BY <1>2 DEF AlarmRead, AlarmWriteHigh, AlarmWriteLow, At
  <2> QED
    BY <2>1, Alone
<1> QED
  BY <1>1, <1>2

\* A return.
LEMMA ReturnStep ==
  ASSUME Masked, Inv, DelayInv, Return
  PROVE  ctx' = <<>> /\ elapsed' = 0
<1>1. ctx # <<>>
  BY DEF Return, At
<1>2. Len(ctx) = 1 /\ ctx \in Seq(Activation)
  BY <1>1, Alone
<1>3. ctx' = SubSeq(ctx, 1, 0)
  BY <1>2 DEF Return
<1>4. ctx' = <<>>
  BY <1>2, <1>3
<1> QED
  BY <1>2, <1>4 DEF Return

-----------------------------------------------------------------------------
(* What a delay waits for. *)

\* __udelay's test: a wake-up time that is not past the largest stamp but one.
LEMMA WakeUp ==
  ASSUME NEW r \in Nat, NEW s \in Nat, r + 1 < M, s < M, ~((r + s + 1) % M < s)
  PROVE  (r + s) % M = r + s /\ r + s <= M - 2
<1>1. PICK m \in Nat : m = M /\ m >= 1
  BY Sizes
<1>2. r + s + 1 < m
  <2> SUFFICES ASSUME r + s + 1 >= m PROVE FALSE
    BY <1>1
  <2>1. PICK x \in Nat : r + s + 1 = x + m
    <3>1. r + s + 1 - m \in Nat
      OBVIOUS
    <3> QED
      BY <3>1
  <2>2. x < m /\ x < s
    BY <1>1, <2>1
  <2>3. (r + s + 1) % m = x
    <3>1. (1 * m + x) % m = x
      BY <1>1, <2>2, DivisionUnique
    <3>2. 1 * m + x = r + s + 1
      BY <2>1
    <3> QED
      BY <3>1, <3>2
  <2> QED
    BY <1>1, <2>2, <2>3
<1>3. (0 * m + (r + s)) % m = r + s
  <2>1. PICK y \in Nat : y = r + s /\ y < m
    BY <1>2
  <2>2. (0 * m + y) % m = y
    BY <1>1, <2>1, DivisionUnique
  <2> QED
    BY <2>1, <2>2
<1>4. 0 * m + (r + s) = r + s
  BY <1>1
<1> QED
  BY <1>1, <1>2, <1>3, <1>4

\* udelay_masked's wake-up time is as far from its stamp as asked for.
LEMMA EndTime ==
  ASSUME NEW r \in Nat, NEW s \in Nat, NEW z, z = (s + r) % M
  PROVE  z \in Int /\ Dist(s, z - r) = 0
<1>1. PICK y \in Int : y = s + r
  OBVIOUS
<1>2. z = y % M /\ z \in Int /\ Dist(z, y) = 0
  BY <1>1, DistRem
<1>3. PICK x \in Int : x = z - r
  BY <1>2
<1>4. x - s = z - y
  BY <1>1, <1>2, <1>3
<1>5. Dist(x, s) = 0
  BY <1>2, <1>4, Zenon DEF Dist
<1>6. s \in Int
  OBVIOUS
<1>7. Dist(s, x) = Dist(s, s)
  BY <1>3, <1>5, <1>6, DistSame
<1>8. Dist(s, s) = 0
  BY <1>6, DistNear
<1> QED
  BY <1>2, <1>3, <1>7, <1>8

\* When __udelay's stamp has reached its wake-up time, as much has been counted as
\* was asked for; when udelay_masked's difference is negative, more.
LEMMA CountedLoop ==
  ASSUME NEW r \in Nat, NEW t \in Nat, NEW s \in Nat, r <= t, t <= s, s < M
  PROVE  r <= Dist(s, t - r)
<1>1. PICK x \in Int, m \in Nat : x = t - r /\ m = M
  BY Sizes
<1>2. s >= x /\ s - x < M /\ s \in Int
  BY <1>1
<1>3. Dist(s, x) = s - x
  BY <1>2, DistNear
<1> QED
  BY <1>1, <1>3

LEMMA CountedMasked ==
  ASSUME NEW r \in Nat, NEW t \in Nat, NEW s \in Nat, r < 2^(W - 1), ~((t - s) % M < M \div 2)
  PROVE  r + 1 <= Dist(s, t - r)
<1>1. PICK h \in Nat : M = 2 * h /\ h >= 1 /\ M \in Nat /\ h = 2^(W - 1)
  BY Half
<1>2. M \div 2 = h
  BY <1>1
<1>3. t \in Int /\ s \in Int
  OBVIOUS
<1>4. PICK k \in Int, e \in Nat : t - s = k * M + e /\ e = Dist(t, s) /\ e < M
  BY <1>3, DistOf
<1>5. e >= h
  <2>1. ~(e < h)
    BY <1>2, <1>4 DEF Dist
  <2> QED
    BY <2>1, <1>1
<1>6. PICK f \in Nat : f = M - e + r /\ r + 1 <= f /\ f < M
  BY <1>1, <1>4, <1>5
<1>7. (0 - k - 1) * M = 0 - k * M - M
  <2>1. (0 - (k + 1)) * M = 0 * M - (k + 1) * M /\ (k + 1) * M = k * M + 1 * M /\ k * M \in Int
    BY <1>1, Products
  <2> QED
    BY <1>1, <2>1
<1>8. PICK p \in Int, q \in Int, x \in Int : p = k * M /\ q = (0 - k - 1) * M /\ x = t - r
  BY <1>1, Products
<1>9. t - s = p + e /\ q = 0 - p - M
  BY <1>4, <1>7, <1>8, Zenon
<1>10. s - x = q + f
  BY <1>1, <1>6, <1>8, <1>9
<1>11. Dist(s, x) = f
  <2>1. 0 - k - 1 \in Int
    OBVIOUS
  <2>2. s - x = (0 - k - 1) * M + f
    BY <1>8, <1>10
  <2> QED
    BY <1>3, <1>6, <1>8, <2>1, <2>2, DistIs
<1> QED
  BY <1>6, <1>8, <1>11

-----------------------------------------------------------------------------
(* No step makes a delay early. *)

\* The invariant after a step.
LEMMA DelayAfter ==
  ASSUME NEW d, After(d), Ordered(d, timestamp', lastdec'),
         NotEarly(d, elapsed', Milliseconds(time'), timestamp', lastdec')
  PROVE  DelayInv'
BY DEF DelayInv, After

\* The types of what a delay depends on.
LEMMA StateTypes ==
  ASSUME StateOK
  PROVE  /\ elapsed \in 0 .. Horizon /\ timestamp \in Word /\ lastdec \in Word /\ time \in Time
         /\ Milliseconds(time) \in Nat /\ lag \in 0 .. MaxLag
BY MillisecondsNat DEF StateOK

\* Time passes.
LEMMA TickDelay ==
  ASSUME Masked, Inv, DelayInv, Tick, ctx # <<>>
  PROVE  DelayInv'
<1>1. /\ Me = ctx[1] /\ Me \in Activation /\ Len(ctx) = 1 /\ StateOK
      /\ Ordered(Me, timestamp, lastdec)
      /\ NotEarly(Me, elapsed, Milliseconds(time), timestamp, lastdec)
  BY Alone
<1>2. UNCHANGED <<timestamp, lastdec, ctx>> /\ time' = (time + 1) % 2^(W + H)
  BY DEF Tick
<1>3. /\ elapsed \in 0 .. Horizon /\ timestamp \in Word /\ lastdec \in Word /\ time \in Time
      /\ Milliseconds(time) \in Nat
  BY <1>1, StateTypes
<1>4. PICK b \in {0, 1} : b = 1 <=> time' % 2^S = 0
  <2>1. 1 \in {0, 1} /\ 0 \in {0, 1} /\ 0 # 1
    OBVIOUS
  <2> QED
    BY <2>1, Zenon
<1>5. elapsed' = IF b = 1 THEN Capped(elapsed) ELSE elapsed
  BY <1>2, <1>4 DEF Tick
<1>6. PICK ms \in Nat, ms2 \in Nat : ms = Milliseconds(time) /\ ms2 = Milliseconds(time')
  BY <1>2, <1>3, TickCounts DEF Masked
<1>7. Dist(ms2, ms) <= b
  <2>1. CASE b = 1
    <3>1. Dist(ms2, ms + 1) = 0
      BY <1>2, <1>3, <1>4, <1>6, <2>1, TickCounts DEF Masked
    <3>2. ms \in Int /\ ms2 \in Int /\ ms + 1 \in Int
      OBVIOUS
    <3>3. Dist(ms2, ms) = Dist(ms + 1, ms)
      BY <3>1, <3>2, DistSame
    <3>4. M >= 2
      BY Half
    <3>5. Dist(ms + 1, ms) = 1
      <4>1. ms + 1 >= ms /\ ms + 1 - ms < M /\ ms + 1 - ms = 1
        BY <3>4, Half
      <4> QED
        BY <3>2, <4>1, DistNear
    <3> QED
      BY <2>1, <3>3, <3>5
  <2>2. CASE b = 0
    <3>1. ms2 = ms
      BY <1>2, <1>3, <1>4, <1>6, <2>2, TickCounts DEF Masked
    <3>2. ms \in Int
      OBVIOUS
    <3>3. Dist(ms, ms) = 0
      BY <3>2, DistNear
    <3> QED
      BY <2>2, <3>1, <3>3
  <2> QED
    BY <2>1, <2>2
<1>8. NotEarly(Me, elapsed', ms2, timestamp, lastdec)
  BY <1>1, <1>3, <1>5, <1>6, <1>7, EarlyTick
<1>9. After(Me)
  BY <1>1, <1>2 DEF After
<1> QED
  BY <1>1, <1>2, <1>6, <1>8, <1>9, DelayAfter

\* The timer is read.
LEMMA ReadDelay ==
  ASSUME Masked, Inv, Inv', DelayInv, ReadLow \/ ReadHigh \/ TimerRead
  PROVE  DelayInv'
<1>1. ctx # <<>>
  BY DEF ReadLow, ReadHigh, TimerRead, At
<1>2. /\ Me \in Activation /\ StateOK
      /\ Ordered(Me, timestamp, lastdec)
      /\ NotEarly(Me, elapsed, Milliseconds(time), timestamp, lastdec)
  BY <1>1, Alone
<1>3. /\ elapsed \in 0 .. Horizon /\ timestamp \in Word /\ lastdec \in Word /\ time \in Time
      /\ Milliseconds(time) \in Nat
  BY <1>2, StateTypes
<1>4. CASE ReadLow
  <2>1. Me.pc = "low" /\ UNCHANGED <<time, timestamp, lastdec, elapsed>>
    BY <1>4, ReadLowStep
  <2>2. PICK d : After(d) /\ Goes(Me, d) /\ d.pc = "high" /\ d.read = time /\ d.torn = Me.torn
    BY <1>4, ReadLowStep
  <2>3. d \in Activation
    BY <2>2 DEF After
  <2>4. NotEarly(d, elapsed, Milliseconds(time), timestamp, lastdec)
    BY <1>2, <1>3, <2>1, <2>2, <2>3, EarlyReadLow
  <2>5. Ordered(d, timestamp, lastdec)
    BY <1>2, <2>2 DEF Ordered, Goes
  <2> QED
    BY <2>1, <2>2, <2>4, <2>5, DelayAfter
<1>5. CASE ReadHigh
  <2>1. Me.pc = "high" /\ UNCHANGED <<time, timestamp, lastdec, elapsed>>
    BY <1>5, ReadHighStep
  <2>2. PICK d : /\ After(d) /\ Goes(Me, d) /\ d.torn = FALSE
                 /\ d.pc = (IF Me.then \in {"init", "reset"} THEN "resetDec" ELSE "add")
                 /\ Dist(d.now, Milliseconds(Me.read)) = 0
    BY <1>5, ReadHighStep
  <2>3. d \in Activation /\ d.pc \in {"add", "resetDec"}
    BY <2>2 DEF After
  <2>4. NotEarly(d, elapsed, Milliseconds(time), timestamp, lastdec)
    BY <1>2, <1>3, <2>1, <2>2, <2>3, EarlyReadHigh
  <2>5. Ordered(d, timestamp, lastdec)
    BY <1>2, <2>2 DEF Ordered, Goes
  <2> QED
    BY <2>1, <2>2, <2>4, <2>5, DelayAfter
<1>6. CASE TimerRead
  <2>1. UNCHANGED <<time, timestamp, lastdec, elapsed>>
    BY <1>6, TimerReadStep
  <2>2. PICK d : After(d) /\ d.torn = FALSE /\ d.pc = "done" /\ d.then = "read"
    BY <1>6, TimerReadStep
  <2>3. NotEarly(d, elapsed, Milliseconds(time), timestamp, lastdec)
    BY <2>2 DEF NotEarly, HasRead
  <2>4. Ordered(d, timestamp, lastdec)
    BY <2>2 DEF Ordered, Starts, Loops
  <2> QED
    BY <2>1, <2>2, <2>3, <2>4, DelayAfter
<1> QED
  BY <1>4, <1>5, <1>6

\* A delay is below half a word.
LEMMA DelaySmall ==
  ASSUME NEW r \in Delays
  PROVE  r \in Nat /\ r < 2^(W - 1) /\ r + 1 < M
<1>1. PICK h \in Nat : M = 2 * h /\ h >= 1 /\ h = 2^(W - 1)
  BY Half
<1>2. r \in 0 .. h - 1
  BY <1>1, InputAssumption
<1> QED
  BY <1>1, <1>2

\* The stamp and lastdec are set.
LEMMA StoreDelay ==
  ASSUME Masked, Inv, Inv', DelayInv, ResetDec \/ ResetStamp \/ Add \/ Store
  PROVE  DelayInv'
<1>1. ctx # <<>>
  BY DEF ResetDec, ResetStamp, Add, Store, At
<1>2. /\ Me \in Activation /\ StateOK
      /\ Ordered(Me, timestamp, lastdec)
      /\ NotEarly(Me, elapsed, Milliseconds(time), timestamp, lastdec)
  BY <1>1, Alone
<1>3. /\ elapsed \in 0 .. Horizon /\ timestamp \in Word /\ lastdec \in Word /\ time \in Time
      /\ Milliseconds(time) \in Nat
  BY <1>2, StateTypes
<1>4. CASE ResetDec
  <2>1. Me.pc = "resetDec" /\ lastdec' = Me.now /\ UNCHANGED <<time, timestamp, elapsed>>
    BY <1>4, ResetDecStep
  <2>2. PICK d : /\ After(d) /\ Goes(Me, d) /\ d.torn = Me.torn /\ d.pc = "resetStamp"
                 /\ d.now = Me.now /\ d.sum = Me.sum
    BY <1>4, ResetDecStep
  <2>3. Me.then \notin Loops
    BY <1>2, <2>1 DEF Ordered, Loops
  <2>4. NotEarly(d, elapsed, Milliseconds(time), timestamp, lastdec')
    BY <1>2, <2>1, <2>2, <2>3, EarlyStore
  <2>5. Ordered(d, timestamp, lastdec')
    BY <1>2, <2>1, <2>2 DEF Ordered, Goes
  <2> QED
    BY <2>1, <2>2, <2>4, <2>5, DelayAfter
<1>5. CASE ResetStamp
  <2>1. Me.pc = "resetStamp" /\ timestamp' = 0 /\ UNCHANGED <<time, lastdec, elapsed>>
    BY <1>5, ResetStampStep
  <2>2. PICK d : /\ After(d) /\ d.torn = FALSE
                 /\ \/ Me.then = "init" /\ d.pc = "done" /\ d.then = "init"
                    \/ /\ Me.then # "init" /\ d.pc = "low" /\ d.then = "loop"
                       /\ d.tmo = Me.tmo /\ d.req = Me.req
    BY <1>5, ResetStampStep
  <2>3. d \in Activation
    BY <2>2 DEF After
  <2>4. CASE Me.then = "init"
    <3>1. NotEarly(d, elapsed, Milliseconds(time), 0, lastdec)
      BY <2>2, <2>4 DEF NotEarly, HasRead
    <3>2. Ordered(d, 0, lastdec)
      BY <2>2, <2>4 DEF Ordered, Starts, Loops
    <3> QED
      BY <2>1, <2>2, <3>1, <3>2, DelayAfter
  <2>5. CASE Me.then # "init"
    <3>1. Me.then = "reset" /\ Me.tmo = Me.req /\ Me.req \in Delays /\ lastdec = Me.now
      BY <1>2, <2>1, <2>5 DEF Ordered, Starts
    <3>2. Me.req \in Nat /\ Me.req + 1 < M
      BY <3>1, DelaySmall
    <3>3. d.tmo - d.req = 0
      BY <2>2, <2>5, <3>1, <3>2
    <3>4. Dist(0, d.tmo - d.req) = 0
      BY <3>3, DistNear
    <3>5. HasRead(Me) /\ Last(Me, lastdec) = lastdec /\ Counted(Me, timestamp, lastdec) = 0
      BY <2>1, <3>1 DEF HasRead, Last, Counted, Loops
    <3>6. NotEarly(d, elapsed, Milliseconds(time), 0, lastdec)
      <4>1. d.pc = "low" /\ (d.then \in Loops => Dist(0, d.tmo - d.req) <= Counted(Me, timestamp, lastdec))
        BY <2>2, <2>5, <3>4, <3>5
      <4> QED
        BY <1>2, <1>3, <2>3, <3>5, <4>1, Zeros, EarlyPoll
    <3>7. Ordered(d, 0, lastdec)
      <4>1. M \in Nat /\ d.req <= d.tmo /\ d.tmo <= M - 2
        BY <2>2, <2>5, <3>1, <3>2, Sizes
      <4> QED
        BY <2>2, <2>5, <3>1, <4>1 DEF Ordered, Starts, Loops
    <3> QED
      BY <2>1, <2>2, <3>6, <3>7, DelayAfter
  <2> QED
    BY <2>4, <2>5
<1>6. CASE Add
  <2>1. Me.pc = "add" /\ UNCHANGED <<time, timestamp, lastdec, elapsed>>
    BY <1>6, AddStep
  <2>2. PICK d : /\ After(d) /\ Goes(Me, d) /\ d.torn = FALSE /\ d.pc = "store" /\ d.now = Me.now
                 /\ d.sum = (timestamp + AdvanceFrom(Me.now, lastdec)) % M
    BY <1>6, AddStep
  <2>3. d \in Activation
    BY <2>2 DEF After
  <2>4. NotEarly(d, elapsed, Milliseconds(time), timestamp, lastdec)
    BY <1>2, <1>3, <2>1, <2>2, <2>3, EarlyAdd
  <2>5. Ordered(d, timestamp, lastdec)
    BY <1>2, <2>2 DEF Ordered, Goes
  <2> QED
    BY <2>1, <2>2, <2>4, <2>5, DelayAfter
<1>7. CASE Store
  <2>1. Me.pc = "store" /\ timestamp' = Me.sum /\ UNCHANGED <<time, lastdec, elapsed>>
    BY <1>7, StoreStep
  <2>2. PICK d : /\ After(d) /\ Goes(Me, d) /\ d.torn = Me.torn /\ d.pc = "dec"
                 /\ d.now = Me.now /\ d.sum = Me.sum
    BY <1>7, StoreStep
  <2>3. NotEarly(d, elapsed, Milliseconds(time), timestamp', lastdec)
    BY <1>2, <2>1, <2>2, EarlyStore
  <2>4. Ordered(d, timestamp', lastdec)
    BY <1>2, <2>1, <2>2 DEF Ordered, Goes
  <2> QED
    BY <2>1, <2>2, <2>3, <2>4, DelayAfter
<1> QED
  BY <1>4, <1>5, <1>6, <1>7

\* What the callers of get_timer_masked go on to wait for.
LEMMA PollOrdered ==
  ASSUME NEW c \in Activation, NEW d \in Activation, NEW st, NEW ld, Ordered(c, st, ld), c.pc = "dec",
         d.torn = FALSE, d.req = c.req, d.pc = "low", PollsFor(c, d.then, d.tmo), NEW ld2
  PROVE  /\ Ordered(d, st, ld2)
         /\ c.then = "udelay" /\ d.then = "loop" => d.tmo - d.req = c.sum /\ c.sum <= d.tmo
         /\ c.then \in Starts \cup Loops
<1>1. c.then \in Starts \cup Loops /\ c.req \in Delays
  BY DEF PollsFor, Ordered, Starts, Loops
<1>2. c.req \in Nat /\ c.req + 1 < M /\ c.sum \in Nat /\ c.sum < M /\ M \in Nat
  BY <1>1, DelaySmall, Fields, Words, Sizes
<1>3. d.then \in {"reset", "loop", "maskedLoop"}
  BY DEF PollsFor
<1>4. CASE c.then = "udelay" /\ d.then = "loop"
  <2>1. c.tmo = c.req
    BY <1>4 DEF Ordered, Starts
  <2>2. ~((c.req + c.sum + 1) % M < c.sum) /\ d.tmo = (c.req + c.sum) % M
    BY <1>4, <2>1 DEF PollsFor
  <2>3. (c.req + c.sum) % M = c.req + c.sum /\ c.req + c.sum <= M - 2
    BY <1>2, <2>2, WakeUp
  <2>4. d.req <= d.tmo /\ d.tmo <= M - 2 /\ d.tmo - d.req = c.sum /\ c.sum <= d.tmo
    BY <1>2, <2>2, <2>3
  <2> QED
    BY <1>1, <1>4, <2>4 DEF Ordered, Starts, Loops
<1>5. CASE c.then = "udelay" /\ d.then = "reset"
  <2>1. d.tmo = d.req
    BY <1>5 DEF Ordered, PollsFor, Starts
  <2> QED
    BY <1>1, <1>5, <2>1 DEF Ordered, Starts, Loops
<1>6. CASE c.then = "loop" /\ d.then = "loop"
  <2>1. d.tmo = c.tmo
    BY <1>6 DEF PollsFor
  <2> QED
    BY <1>1, <1>6, <2>1 DEF Ordered, Starts, Loops
<1>7. CASE d.then = "maskedLoop"
  BY <1>1, <1>7 DEF Ordered, Starts, Loops
<1> QED
  BY <1>3, <1>4, <1>5, <1>6, <1>7 DEF PollsFor

\* get_timer_masked returns.
LEMMA DecDelay ==
  ASSUME Masked, Inv, Inv', DelayInv, TicksDec \/ UdelayStart \/ UdelayLoop \/ MaskedStart \/ MaskedLoop
  PROVE  DelayInv'
<1>1. ctx # <<>>
  BY DecStep
<1>2. /\ Me \in Activation /\ StateOK
      /\ Ordered(Me, timestamp, lastdec)
      /\ NotEarly(Me, elapsed, Milliseconds(time), timestamp, lastdec)
  BY <1>1, Alone
<1>3. /\ elapsed \in 0 .. Horizon /\ timestamp \in Word /\ lastdec \in Word /\ time \in Time
      /\ Milliseconds(time) \in Nat
  BY <1>2, StateTypes
<1>4. Me.pc = "dec" /\ lastdec' = Me.now /\ UNCHANGED <<time, timestamp, elapsed>>
  BY DecStep
<1>5. PICK d : /\ After(d) /\ d.torn = FALSE /\ d.req = Me.req
               /\ \/ d.pc = "low" /\ PollsFor(Me, d.then, d.tmo)
                  \/ d.pc = "done" /\ d.then = Me.then /\ d.tmo = d.req /\ Ends(Me)
  BY DecStep
<1>6. d \in Activation
  BY <1>5 DEF After
<1>7. PICK c \in Activation : c = Me
  BY <1>2
<1>8. /\ c.req \in Nat /\ c.tmo \in Nat /\ c.sum \in Nat /\ c.sum < M /\ timestamp = c.sum
      /\ c.now \in Word
  BY <1>2, <1>4, <1>7, Fields, Words DEF Ordered
<1>9. Counted(c, timestamp, lastdec) \in Nat /\ HasRead(c) /\ Last(c, lastdec) = c.now
  BY <1>3, <1>4, <1>7, Numbers DEF HasRead, Last
<1>10. c.then \in Loops => Counted(c, timestamp, lastdec) = Dist(c.sum, c.tmo - c.req)
  BY <1>4, <1>7 DEF Counted
<1>11. CASE d.pc = "low" /\ PollsFor(Me, d.then, d.tmo)
  <2>1. /\ Ordered(d, timestamp, c.now)
        /\ c.then = "udelay" /\ d.then = "loop" => d.tmo - d.req = c.sum /\ c.sum <= d.tmo
    BY <1>2, <1>4, <1>5, <1>6, <1>7, <1>11, PollOrdered
  <2>2. d.then \in Loops => Dist(timestamp, d.tmo - d.req) <= Counted(c, timestamp, lastdec)
    <3>1. CASE c.then = "udelay" /\ d.then = "loop"
      <4>1. Dist(c.sum, c.sum) = 0
        BY <1>8, DistNear
      <4> QED
        BY <1>8, <1>9, <2>1, <3>1, <4>1
    <3>2. CASE c.then \in Loops
      <4>1. d.tmo = c.tmo
        BY <1>7, <1>11, <3>2 DEF PollsFor, Loops
      <4>2. Dist(timestamp, d.tmo - d.req) = Counted(c, timestamp, lastdec)
        BY <1>5, <1>7, <1>8, <1>10, <3>2, <4>1
      <4> QED
        BY <1>9, <4>2
    <3>3. CASE c.then = "masked"
      <4>1. d.tmo = (c.sum + c.req) % M
        BY <1>2, <1>7, <1>11, <3>3 DEF PollsFor, Ordered, Starts
      <4>2. Dist(c.sum, d.tmo - c.req) = 0
        BY <1>8, <4>1, EndTime
      <4> QED
        BY <1>5, <1>7, <1>8, <1>9, <4>2
    <3>4. CASE d.then = "reset"
      BY <3>4 DEF Loops
    <3> QED
      BY <1>7, <1>11, <3>1, <3>2, <3>3, <3>4 DEF PollsFor, Loops
  <2>3. NotEarly(d, elapsed, Milliseconds(time), timestamp, c.now)
    BY <1>2, <1>3, <1>6, <1>7, <1>8, <1>9, <1>11, <2>2, EarlyPoll
  <2> QED
    BY <1>4, <1>5, <1>7, <2>1, <2>3, DelayAfter
<1>12. CASE d.pc = "done" /\ d.then = Me.then /\ d.tmo = d.req /\ Ends(Me)
  <2>1. c.then \in {"ticks", "loop", "maskedLoop"}
    BY <1>7, <1>12 DEF Ends
  <2>2. d.then = "loop" => d.req <= Counted(c, timestamp, lastdec)
    <3> SUFFICES ASSUME d.then = "loop" PROVE d.req <= Counted(c, timestamp, lastdec)
      OBVIOUS
    <3>1. c.then = "loop" /\ c.tmo <= c.sum /\ c.req <= c.tmo
      BY <1>2, <1>7, <1>8, <1>12 DEF Ends, Ordered
    <3>2. c.req <= Dist(c.sum, c.tmo - c.req)
      BY <1>8, <3>1, CountedLoop
    <3> QED
      BY <1>5, <1>7, <1>10, <3>1, <3>2 DEF Loops
  <2>3. d.then = "maskedLoop" => d.req + 1 <= Counted(c, timestamp, lastdec)
    <3> SUFFICES ASSUME d.then = "maskedLoop" PROVE d.req + 1 <= Counted(c, timestamp, lastdec)
      OBVIOUS
    <3>1. c.then = "maskedLoop" /\ ~((c.tmo - c.sum) % M < M \div 2) /\ c.req \in Delays
      BY <1>2, <1>7, <1>12 DEF Ends, Ordered, Loops
    <3>2. c.req < 2^(W - 1)
      BY <3>1, DelaySmall
    <3>3. c.req + 1 <= Dist(c.sum, c.tmo - c.req)
      BY <1>8, <3>1, <3>2, CountedMasked
    <3> QED
      BY <1>5, <1>7, <1>10, <3>1, <3>3 DEF Loops
  <2>4. NotEarly(d, elapsed, Milliseconds(time), timestamp, c.now)
    BY <1>2, <1>3, <1>6, <1>7, <1>9, <1>12, <2>2, <2>3, EarlyDone
  <2>5. Ordered(d, timestamp, c.now)
    <3>1. d.then = "loop" => d.req <= d.tmo /\ d.tmo <= M - 2
      <4> SUFFICES ASSUME d.then = "loop" PROVE d.req <= d.tmo /\ d.tmo <= M - 2
        OBVIOUS
      <4>1. c.req \in Delays
        BY <1>2, <1>7, <1>12 DEF Ordered, Loops
      <4>2. d.req \in Nat /\ d.req + 1 < M /\ M \in Nat
        BY <1>5, <1>7, <4>1, DelaySmall, Sizes
      <4> QED
        BY <1>12, <4>2
    <3> QED
      BY <1>2, <1>5, <1>7, <1>12, <2>1, <3>1 DEF Ordered, Starts, Loops
  <2> QED
    BY <1>4, <1>5, <1>7, <2>4, <2>5, DelayAfter
<1> QED
  BY <1>5, <1>11, <1>12

\* A call.
LEMMA MainDelay ==
  ASSUME Masked, Inv, Inv', Main
  PROVE  DelayInv'
<1>1. UNCHANGED <<time, timestamp, lastdec, elapsed>>
  BY MainStep
<1>2. PICK d : /\ After(d) /\ d.torn = FALSE /\ d.pc = "low" /\ d.tmo = d.req
               /\ d.then \in Reads \/ (d.then \in {"udelay", "masked"} /\ d.req \in Delays)
  BY MainStep
<1>3. d.then \notin Loops /\ (d.then \in Starts => d.req \in Delays)
  BY <1>2, InputAssumption DEF Loops, Starts
<1>4. Ordered(d, timestamp, lastdec)
  BY <1>2, <1>3 DEF Ordered, Loops
<1>5. NotEarly(d, elapsed, Milliseconds(time), timestamp, lastdec)
  BY <1>2, <1>3 DEF NotEarly, HasRead
<1> QED
  BY <1>1, <1>2, <1>4, <1>5, DelayAfter

LEMMA InitDelay ==
  ASSUME Init
  PROVE  DelayInv
<1>1. CASE ctx = <<>>
  BY <1>1 DEF DelayInv
<1>2. CASE ctx = << New("main", "init", 0) >>
  <2>1. PICK d : d = New("main", "init", 0)
    OBVIOUS
  <2>2. d.pc = "low" /\ d.then = "init" /\ d.torn = FALSE
    BY <2>1 DEF New
  <2>3. Ordered(d, timestamp, lastdec) /\ NotEarly(d, elapsed, Milliseconds(time), timestamp, lastdec)
    BY <2>2 DEF Ordered, NotEarly, HasRead, Starts, Loops
  <2>4. Len(ctx) = 1 /\ ctx[1] = d
    BY <1>2, <2>1
  <2> QED
    BY <2>3, <2>4 DEF DelayInv
<1> QED
  BY <1>1, <1>2 DEF Init

LEMMA NextDelay ==
  ASSUME Masked, Inv, Inv', DelayInv, [Next]_vars
  PROVE  DelayInv'
<1>1. CASE Tick
  <2>1. CASE ctx = <<>>
    BY <1>1, <2>1 DEF Tick, DelayInv
  <2> QED
    BY <1>1, <2>1, TickDelay
<1>2. CASE Main
  BY <1>2, MainDelay
<1>3. CASE (\E irq \in Handlers : irq_handler(irq)) \/ AlarmRead \/ AlarmWriteHigh \/ AlarmWriteLow
  BY <1>3, NoOthers
<1>4. CASE ReadLow \/ ReadHigh \/ TimerRead
  BY <1>4, ReadDelay
<1>5. CASE ResetDec \/ ResetStamp \/ Add \/ Store
  BY <1>5, StoreDelay
<1>6. CASE TicksDec \/ UdelayStart \/ UdelayLoop \/ MaskedStart \/ MaskedLoop
  BY <1>6, DecDelay
<1>7. CASE Return
  BY <1>7, ReturnStep DEF DelayInv
<1>8. CASE UNCHANGED vars
  BY <1>8 DEF DelayInv, vars
<1> QED
  BY <1>1, <1>2, <1>3, <1>4, <1>5, <1>6, <1>7, <1>8 DEF Next, Cpu

\* The inductive invariant holds.
LEMMA DelayInvHolds ==
  ASSUME Masked
  PROVE  Spec => [](Inv /\ DelayInv)
<1>1. Init => Inv /\ DelayInv
  BY InitInv, InitDelay
<1>2. (Inv /\ DelayInv) /\ [Next]_vars => (Inv /\ DelayInv)'
  <2> SUFFICES ASSUME Inv, DelayInv, [Next]_vars PROVE Inv' /\ DelayInv'
    OBVIOUS
  <2>1. Inv'
    BY NextInv
  <2> QED
    BY <2>1, NextDelay
<1> QED
  BY <1>1, <1>2, PTL DEF Spec

\* When main's delay has returned, its activation is there and is the only one.
LEMMA Finished ==
  ASSUME NEW t, MainDone(t)
  PROVE  Len(ctx) = 1 /\ ctx[1].pc = "done" /\ ctx[1].then = t /\ ctx # <<>>
<1>1. Len(ctx) = 1 /\ ctx[1].pc = "done" /\ ctx[1].then = t
  BY DEF MainDone
<1>2. ctx # <<>>
  <2> SUFFICES ASSUME ctx = <<>> PROVE FALSE
    OBVIOUS
  <2>1. Len(<<>>) = 0
    BY EmptySeq
  <2> QED
    BY <1>1, <2>1
<1> QED
  BY <1>1, <1>2

\* With interrupts masked __udelay never returns early: for every width, every delay the
\* history variable can count, every state of the counter and of the stamp when it is
\* called (rollovers of either included) and however far apart its polls are.
THEOREM UdelayNotEarlyHolds == Masked => (Spec => []UdelayNotEarly)
<1> SUFFICES ASSUME Masked PROVE Spec => []UdelayNotEarly
  OBVIOUS
<1>1. Inv /\ DelayInv => UdelayNotEarly
  <2> SUFFICES ASSUME Inv, DelayInv, MainDone("loop") PROVE elapsed >= ctx[1].req
    BY DEF UdelayNotEarly
  <2>1. Len(ctx) = 1 /\ ctx[1].pc = "done" /\ ctx[1].then = "loop" /\ ctx # <<>>
    BY Finished
  <2>2. /\ Ordered(ctx[1], timestamp, lastdec)
        /\ NotEarly(ctx[1], elapsed, Milliseconds(time), timestamp, lastdec)
    BY <2>1 DEF DelayInv
  <2>3. ctx[1].req \in 0 .. Horizon /\ Reached(elapsed, ctx[1].req)
    BY <2>1, <2>2 DEF Ordered, NotEarly, Masked, Starts, Loops
  <2>4. elapsed \in 0 .. Horizon
    BY DEF Inv, TypeOK
  <2> QED
    BY <2>3, <2>4, InputAssumption DEF Reached
<1>2. Spec => [](Inv /\ DelayInv)
  BY DelayInvHolds
<1> QED
  BY <1>1, <1>2, PTL

\* The same of udelay_masked, whose signed difference is right wherever the stamp rolls
\* over, and which waits one millisecond more.
THEOREM MaskedNotEarlyHolds == Masked => (Spec => []MaskedNotEarly)
<1> SUFFICES ASSUME Masked PROVE Spec => []MaskedNotEarly
  OBVIOUS
<1>1. Inv /\ DelayInv => MaskedNotEarly
  <2> SUFFICES ASSUME Inv, DelayInv, MainDone("maskedLoop")
               PROVE  elapsed > ctx[1].req \/ elapsed = Horizon
    BY DEF MaskedNotEarly
  <2>1. Len(ctx) = 1 /\ ctx[1].pc = "done" /\ ctx[1].then = "maskedLoop" /\ ctx # <<>>
    BY Finished
  <2>2. /\ Ordered(ctx[1], timestamp, lastdec)
        /\ NotEarly(ctx[1], elapsed, Milliseconds(time), timestamp, lastdec)
    BY <2>1 DEF DelayInv
  <2>3. ctx[1].req \in 0 .. Horizon /\ Reached(elapsed, ctx[1].req + 1)
    BY <2>1, <2>2 DEF Ordered, NotEarly, Masked, Starts, Loops
  <2>4. elapsed \in 0 .. Horizon
    BY DEF Inv, TypeOK
  <2> QED
    BY <2>3, <2>4, InputAssumption DEF Reached
<1>2. Spec => [](Inv /\ DelayInv)
  BY DelayInvHolds
<1> QED
  BY <1>1, <1>2, PTL

-----------------------------------------------------------------------------
(* Delays while no handler runs: __udelay is not late. *)

\* The timer is read at least once a millisecond.
Swift == Masked /\ MaxLag <= 2^S

\* The milliseconds that may begin in two gaps between readings.
Gap == (2 * MaxLag + 2^S - 1) \div 2^S

\* At most x milliseconds, and the counts since the last one began, fit into n counts
\* and the part of a millisecond before them.
Within(x, t, n) == 2^S * x + (t % 2^S) <= 2^S - 1 + n

\* At most n milliseconds have begun besides those that the stamp has advanced, adv, and
\* those before it was read; or one more, lost when the count rolled over below last.
Behind(e, n, adv, last) == e <= Gap + adv + n \/ (e <= Gap + adv + n + 1 /\ last <= adv)

\* Fewer milliseconds, or more counts.
LEMMA WithinLess ==
  ASSUME NEW x \in Int, NEW y \in Int, NEW t \in Time, NEW n \in Int, NEW k \in Int,
         y <= x, n <= k, Within(x, t, n)
  PROVE  Within(y, t, k)
<1>1. PICK p \in Nat, r \in Nat : p = 2^S /\ r = t % 2^S
  BY Sizes, MillisecondsNat
<1>2. PICK z \in Nat : x = y + z
  <2>1. x - y \in Nat /\ x = y + (x - y)
    OBVIOUS
  <2> QED
    BY <2>1
<1>3. p * x = p * y + p * z /\ p * z \in Nat /\ p * y \in Int /\ p * x \in Int
  BY <1>2
<1>4. p * x + r <= p - 1 + n
  BY <1>1 DEF Within
<1>5. p * y + r <= p - 1 + k
  BY <1>3, <1>4
<1> QED
  BY <1>1, <1>5 DEF Within

\* One more count.
LEMMA WithinTick ==
  ASSUME S <= H, NEW x \in Int, NEW t \in Time, NEW n \in Int, Within(x, t, n),
         NEW u, u = (t + 1) % 2^(W + H), NEW b \in {0, 1}, b = 1 <=> u % 2^S = 0
  PROVE  Within(x + b, u, n + 1)
<1>1. PICK p \in Nat, r \in Nat : p = 2^S /\ r = t % 2^S
  BY Sizes, MillisecondsNat
<1>2. p * x \in Int /\ p * (x + 1) = p * x + p /\ p * (x + 0) = p * x
  OBVIOUS
<1>3. p * x + r <= p - 1 + n
  BY <1>1 DEF Within
<1>4. CASE b = 1
  <2>1. r = p - 1 /\ u % 2^S = 0
    BY <1>1, <1>4, TickCounts
  <2>2. p * (x + 1) + 0 <= p - 1 + (n + 1)
    BY <1>2, <1>3, <2>1
  <2> QED
    BY <1>1, <1>4, <2>1, <2>2 DEF Within
<1>5. CASE b = 0
  <2>1. u % 2^S = r + 1
    BY <1>1, <1>5, TickCounts
  <2>2. p * (x + 0) + (r + 1) <= p - 1 + (n + 1)
    BY <1>2, <1>3
  <2> QED
    BY <1>1, <1>5, <2>1, <2>2 DEF Within
<1> QED
  BY <1>4, <1>5

\* None have begun.
LEMMA WithinNow ==
  ASSUME NEW t \in Time
  PROVE  Within(0, t, 0)
<1>1. PICK p \in Nat, r \in Nat : p = 2^S /\ r = t % 2^S /\ r <= p - 1
  BY Sizes, MillisecondsNat
<1>2. p * 0 + r <= p - 1 + 0
  BY <1>1
<1> QED
  BY <1>1, <1>2 DEF Within

\* In a gap of a millisecond at most one begins.
LEMMA WithinSmall ==
  ASSUME NEW x \in Int, NEW t \in Time, NEW n \in Int, Within(x, t, n), n <= 2^S
  PROVE  x <= 1
<1>1. PICK p \in Nat, r \in Nat : p = 2^S /\ p >= 1 /\ r = t % 2^S
  BY Sizes, MillisecondsNat
<1>2. p * x + r <= p - 1 + n /\ n <= p
  BY <1>1 DEF Within
<1>3. p * x \in Int
  OBVIOUS
<1>4. p * x < 2 * p
  BY <1>2, <1>3
<1> SUFFICES ASSUME x >= 2 PROVE FALSE
  OBVIOUS
<1>5. PICK z \in Nat : x = 2 + z
  <2>1. x - 2 \in Nat /\ x = 2 + (x - 2)
    OBVIOUS
  <2> QED
    BY <2>1
<1>6. p * x = 2 * p + p * z /\ p * z \in Nat
  BY <1>5
<1> QED
  BY <1>4, <1>6

\* In two gaps at most Gap.
LEMMA WithinGap ==
  ASSUME NEW x \in Int, NEW t \in Time, NEW n \in Int, Within(x, t, n), n <= 2 * MaxLag
  PROVE  x <= Gap
<1>1. PICK p \in Nat, r \in Nat, l \in Nat : p = 2^S /\ p >= 1 /\ r = t % 2^S /\ l = MaxLag
  BY Sizes, MillisecondsNat, InputAssumption
<1>2. p * x + r <= p - 1 + n /\ n <= 2 * l
  BY <1>1 DEF Within
<1>3. PICK y \in Nat : y = 2 * l + p - 1
  BY <1>1
<1>4. PICK k \in Nat, q \in Nat : y = k * p + q /\ k = y \div p /\ q = y % p /\ q < p
  BY <1>1, Divided
<1>5. Gap = k
  BY <1>1, <1>3, <1>4 DEF Gap
<1>6. p * x \in Int /\ k * p \in Nat
  OBVIOUS
<1>7. p * x < k * p + p
  BY <1>2, <1>3, <1>4, <1>6
<1> SUFFICES ASSUME x >= k + 1 PROVE FALSE
  BY <1>5
<1>8. PICK z \in Nat : x = (k + 1) + z
  <2>1. x - (k + 1) \in Nat /\ x = (k + 1) + (x - (k + 1))
    OBVIOUS
  <2> QED
    BY <2>1
<1>9. p * x = (k * p + p) + p * z /\ p * z \in Nat
  BY <1>8
<1> QED
  BY <1>6, <1>7, <1>9

LEMMA GapNat == Gap \in Nat
<1>1. PICK p \in Nat, l \in Nat : p = 2^S /\ p >= 1 /\ l = MaxLag
  BY Sizes, InputAssumption
<1>2. PICK y \in Nat : y = 2 * l + p - 1
  BY <1>1
<1>3. y \div p \in Nat
  BY <1>1
<1> QED
  BY <1>1, <1>2, <1>3 DEF Gap

\* A count that goes on by b is b further from everything, up to a word.
LEMMA DistStep ==
  ASSUME NEW x \in Int, NEW y \in Int, NEW z \in Int, NEW b \in Nat, Dist(y, x + b) = 0, Dist(x, z) + b < M
  PROVE  Dist(y, z) = Dist(x, z) + b
<1>1. x + b \in Int
  OBVIOUS
<1>2. PICK v \in Int : v = x + b
  BY <1>1
<1>3. Dist(y, z) = Dist(v, z)
  BY <1>2, DistSame
<1>4. PICK k \in Int, r \in Nat : x - z = k * M + r /\ r = Dist(x, z) /\ r < M
  BY DistOf
<1>5. v - z = k * M + (r + b) /\ r + b \in Nat /\ r + b < M
  <2>1. PICK q \in Int : q = k * M
    BY Sizes, Products
  <2>2. x - z = q + r
    BY <1>4, <2>1
  <2> QED
    BY <1>2, <1>4, <2>1, <2>2
<1>6. PICK s \in Nat : s = r + b
  BY <1>5
<1>7. Dist(v, z) = s
  BY <1>5, <1>6, DistIs
<1> QED
  BY <1>3, <1>4, <1>6, <1>7

\* The last reading is as old as lag says.
Recent(c, t, ld, lg) ==
  HasRead(c) => Within(Dist(Milliseconds(t), Last(c, ld)), t, lg)

\* Before the stamp that the loop waits from has been taken.
Begun(c, e, t, ld, lg) ==
  /\ c.then = "udelay" /\ c.pc = "low" => Within(e, t, lg)
  /\ (c.then = "reset" /\ c.pc = "low") \/ (c.then = "udelay" /\ HasRead(c)) => Within(e, t, MaxLag + lg)
  /\ c.then \in {"udelay", "reset"} /\ HasRead(c) => e <= Gap + Dist(Milliseconds(t), Last(c, ld))

\* In the loop before the stamp is updated: the wake-up time has not been reached, but
\* for a delay of 0, and one reading adds at most one millisecond.
Waits(c, e, t, st, ld) ==
  LET n == Dist(Last(c, ld), ld) + Dist(Milliseconds(t), Last(c, ld))
  IN  /\ c.tmo - c.req <= st /\ st <= c.tmo
      /\ Dist(Last(c, ld), ld) <= 1
      /\ Behind(e, n, st - (c.tmo - c.req), ld)
      /\ st < c.tmo \/ e <= Gap + n

\* And once its new value is known.
Sums(c, e, t) ==
  /\ c.tmo - c.req <= c.sum
  /\ Behind(e, Dist(Milliseconds(t), c.now), c.sum - (c.tmo - c.req), c.now)

OnTime(c, e, t, st, ld, lg) ==
  c.then = "loop" =>
    /\ c.pc \in {"low", "high", "add"} => Waits(c, e, t, st, ld)
    /\ c.pc \in {"store", "dec"} => Sums(c, e, t)
    /\ c.pc # "low" => Within(e - Gap - c.req, t, MaxLag + lg)

NotLate(c, e, t, st, ld, lg) ==
  Recent(c, t, ld, lg) /\ Begun(c, e, t, ld, lg) /\ OnTime(c, e, t, st, ld, lg)

\* The inductive invariant.
LateInv ==
  IF ctx = <<>> THEN elapsed = 0
  ELSE NotLate(ctx[1], elapsed, time, timestamp, lastdec, lag)

\* Time passes.
LEMMA LateTick ==
  ASSUME Swift, NEW c \in Activation, NEW e \in Nat, NEW f \in Nat, NEW t \in Time, NEW u \in Time,
         NEW st \in Word, NEW ld \in Word, NEW lg \in Nat, lg < MaxLag,
         NotLate(c, e, t, st, ld, lg), u = (t + 1) % 2^(W + H),
         NEW b \in {0, 1}, b = 1 <=> u % 2^S = 0, f <= e + b
  PROVE  NotLate(c, f, u, st, ld, lg + 1)
<1>1. PICK l \in Int, d \in Int, ms \in Int, ms2 \in Int :
        l = Last(c, ld) /\ d = ld /\ ms = Milliseconds(t) /\ ms2 = Milliseconds(u)
  BY Numbers, MillisecondsNat
<1>2. S <= H /\ MaxLag \in Nat /\ MaxLag <= 2^S /\ 2^S \in Nat /\ Gap \in Nat /\ b \in Nat
  BY InputAssumption, Sizes, GapNat DEF Swift, Masked
<1>3. Dist(ms2, ms + b) = 0
  <2>1. CASE b = 1
    BY <1>1, <1>2, <2>1, TickCounts
  <2>2. CASE b = 0
    <3>1. ms2 = ms
      BY <1>1, <1>2, <2>2, TickCounts
    <3> QED
      BY <2>2, <3>1, DistNear
  <2> QED
    BY <2>1, <2>2
<1>4. Dist(ms, l) \in Nat /\ Dist(ms2, l) \in Nat /\ Dist(l, d) \in Nat
  BY DistWord
<1>5. ASSUME HasRead(c)
      PROVE  Dist(ms2, l) = Dist(ms, l) + b /\ Within(Dist(ms2, l), u, lg + 1)
  <2>1. PICK x \in Int : x = Dist(ms, l)
    BY <1>4
  <2>2. Within(x, t, lg)
    BY <1>1, <1>5, <2>1 DEF NotLate, Recent
  <2>3. Within(x + b, u, lg + 1)
    BY <1>2, <2>2, WithinTick
  <2>4. PICK y \in Int, n \in Int : y = x + b /\ n = lg + 1 /\ n <= 2^S
    BY <1>2, <2>1
  <2>5. y <= 1
    BY <2>3, <2>4, WithinSmall
  <2>6. Dist(ms, l) + b < M
    <3>1. M >= 2 /\ M \in Nat
      BY Half
    <3> QED
      BY <2>1, <2>4, <2>5, <3>1
  <2>7. Dist(ms2, l) = Dist(ms, l) + b
    BY <1>2, <1>3, <2>6, DistStep
  <2> QED
    BY <2>1, <2>3, <2>7
<1>6. ASSUME NEW x \in Int, NEW y \in Int, NEW n \in Int, Within(x, t, n), y <= x + b
      PROVE  Within(y, u, n + 1)
  <2>1. Within(x + b, u, n + 1)
    BY <1>2, <1>6, WithinTick
  <2>2. x + b \in Int /\ n + 1 \in Int /\ n + 1 <= n + 1
    OBVIOUS
  <2>3. PICK v \in Int, k \in Int : v = x + b /\ k = n + 1
    BY <2>2
  <2>4. Within(y, u, k)
    BY <1>6, <2>1, <2>3, WithinLess
  <2> QED
    BY <2>3, <2>4
<1>7. Recent(c, u, ld, lg + 1)
  BY <1>1, <1>5 DEF Recent
<1>8. Begun(c, f, u, ld, lg + 1)
  <2>1. Begun(c, e, t, ld, lg)
    BY DEF NotLate
  <2>2. ASSUME c.then = "udelay", c.pc = "low" PROVE Within(f, u, lg + 1)
    <3>1. Within(e, t, lg)
      BY <2>1, <2>2 DEF Begun
    <3> QED
      BY <3>1, <1>6
  <2>3. ASSUME Within(e, t, MaxLag + lg) PROVE Within(f, u, MaxLag + (lg + 1))
    <3>1. PICK n \in Int : n = MaxLag + lg /\ n + 1 = MaxLag + (lg + 1)
      BY <1>2
    <3> QED
      BY <1>6, <2>3, <3>1
  <2>4. ASSUME c.then \in {"udelay", "reset"}, HasRead(c) PROVE f <= Gap + Dist(ms2, l)
    <3>1. e <= Gap + Dist(ms, l)
      BY <1>1, <2>1, <2>4 DEF Begun
    <3> QED
      BY <1>2, <1>4, <1>5, <2>4, <3>1
  <2> QED
    BY <1>1, <2>1, <2>2, <2>3, <2>4, Zenon DEF Begun
<1>9. OnTime(c, f, u, st, ld, lg + 1)
  <2> SUFFICES ASSUME c.then = "loop" PROVE OnTime(c, f, u, st, ld, lg + 1)
    BY DEF OnTime
  <2>1. OnTime(c, e, t, st, ld, lg) /\ c.then \in Loops
    BY DEF NotLate, Loops
  <2>2. PICK tmo \in Int, req \in Int, s \in Int, sum \in Int, now \in Int :
          tmo = c.tmo /\ req = c.req /\ s = st /\ sum = c.sum /\ now = c.now
    <3>1. c.tmo \in Int /\ c.req \in Int /\ st \in Int /\ c.sum \in Int /\ c.now \in Int
      BY Numbers
    <3> QED
      BY <3>1
  <2>3. ASSUME c.pc \in {"low", "high", "add"} PROVE Waits(c, f, u, st, ld)
    <3>1. HasRead(c)
      BY <2>1, <2>3 DEF HasRead
    <3>2. Dist(ms2, l) = Dist(ms, l) + b
      BY <1>5, <3>1
    <3>3. PICK n \in Nat, n2 \in Nat : n = Dist(l, d) + Dist(ms, l) /\ n2 = Dist(l, d) + Dist(ms2, l) /\ n2 = n + b
      BY <1>2, <1>4, <3>2
    <3>4. /\ tmo - req <= s /\ s <= tmo /\ Dist(l, d) <= 1
          /\ Behind(e, n, s - (tmo - req), d) /\ (s < tmo \/ e <= Gap + n)
      BY <1>1, <2>1, <2>2, <2>3, <3>3 DEF OnTime, Waits
    <3>5. Behind(f, n2, s - (tmo - req), d) /\ (s < tmo \/ f <= Gap + n2)
      BY <1>2, <3>3, <3>4 DEF Behind
    <3> QED
      BY <1>1, <2>2, <3>3, <3>4, <3>5, Zenon DEF Waits
  <2>4. ASSUME c.pc \in {"store", "dec"} PROVE Sums(c, f, u)
    <3>1. HasRead(c) /\ l = now
      BY <1>1, <2>2, <2>4 DEF HasRead, Last
    <3>2. Dist(ms2, l) = Dist(ms, l) + b
      BY <1>5, <3>1
    <3>3. tmo - req <= sum /\ Behind(e, Dist(ms, l), sum - (tmo - req), now)
      BY <1>1, <2>1, <2>2, <2>4, <3>1 DEF OnTime, Sums
    <3>4. Behind(f, Dist(ms2, l), sum - (tmo - req), now)
      BY <1>2, <1>4, <3>2, <3>3 DEF Behind
    <3> QED
      BY <1>1, <2>2, <3>1, <3>3, <3>4, Zenon DEF Sums
  <2>5. ASSUME c.pc # "low" PROVE Within(f - Gap - req, u, MaxLag + (lg + 1))
    <3>1. PICK x \in Int, y \in Int, n \in Int :
            x = e - Gap - req /\ y = f - Gap - req /\ n = MaxLag + lg /\ n + 1 = MaxLag + (lg + 1) /\ y <= x + b
      BY <1>2
    <3>2. Within(x, t, n)
      BY <2>1, <2>2, <2>5, <3>1 DEF OnTime
    <3>3. Within(y, u, n + 1)
      BY <1>6, <3>1, <3>2
    <3> QED
      BY <3>1, <3>3
  <2> QED
    BY <2>2, <2>3, <2>4, <2>5, Zenon DEF OnTime
<1> QED
  BY <1>7, <1>8, <1>9 DEF NotLate

\* The low half is read: the gap before it ends.
LEMMA LateReadLow ==
  ASSUME Swift, NEW c \in Activation, NEW d \in Activation, NEW e \in Nat, NEW t \in Time,
         NEW st \in Word, NEW ld \in Word, NEW lg \in Nat, lg <= MaxLag,
         NotLate(c, e, t, st, ld, lg), c.pc = "low", d.pc = "high", d.read = t, Goes(c, d)
  PROVE  NotLate(d, e, t, st, ld, 0)
<1>1. PICK l \in Int, ms \in Int, s \in Int, tmo \in Int, req \in Int :
        l = ld /\ ms = Milliseconds(t) /\ s = st /\ tmo = c.tmo /\ req = c.req
  <2>1. ld \in Int /\ Milliseconds(t) \in Int /\ st \in Int /\ c.tmo \in Int /\ c.req \in Int
    BY Numbers, MillisecondsNat
  <2> QED
    BY <2>1
<1>2. MaxLag \in Nat /\ MaxLag <= 2^S /\ 2^S \in Nat /\ Gap \in Nat
  BY InputAssumption, Sizes, GapNat DEF Swift
<1>3. Last(c, ld) = l /\ Last(d, ld) = ms
  BY <1>1 DEF Last
<1>4. Dist(ms, ms) = 0 /\ Dist(l, l) = 0
  BY DistNear
<1>5. Dist(ms, l) \in Nat
  BY DistWord
<1>6. d.then = c.then /\ d.tmo = tmo /\ d.req = req
  BY <1>1 DEF Goes
<1>7. Recent(d, t, ld, 0)
  BY <1>1, <1>3, <1>4, WithinNow DEF Recent
<1>8. Begun(d, e, t, ld, 0)
  <2>1. ASSUME c.then = "udelay" PROVE Within(e, t, MaxLag + 0) /\ e <= Gap
    <3>1. Within(e, t, lg)
      BY <2>1 DEF NotLate, Begun
    <3>2. e \in Int /\ lg \in Int /\ MaxLag + 0 \in Int /\ lg <= MaxLag + 0 /\ lg <= 2 * MaxLag /\ e <= e
      BY <1>2
    <3>3. Within(e, t, MaxLag + 0)
      BY <3>1, <3>2, WithinLess
    <3>4. e <= Gap
      BY <3>1, <3>2, WithinGap
    <3> QED
      BY <3>3, <3>4
  <2>2. ASSUME c.then = "reset" PROVE e <= Gap
    <3>1. Within(e, t, MaxLag + lg)
      BY <2>2 DEF NotLate, Begun
    <3>2. PICK n \in Int : n = MaxLag + lg /\ n <= 2 * MaxLag /\ e \in Int
      BY <1>2
    <3> QED
      BY <3>1, <3>2, WithinGap
  <2>3. Gap + Dist(ms, ms) = Gap
    BY <1>2, <1>4
  <2>4. d.pc # "low"
    OBVIOUS
  <2> QED
    BY <1>1, <1>3, <1>6, <2>1, <2>2, <2>3, <2>4 DEF Begun
<1>9. OnTime(d, e, t, st, ld, 0)
  <2> SUFFICES ASSUME c.then = "loop" PROVE OnTime(d, e, t, st, ld, 0)
    BY <1>6 DEF OnTime
  <2>1. Waits(c, e, t, st, ld) /\ HasRead(c)
    BY DEF NotLate, OnTime, HasRead, Loops
  <2>2. PICK n \in Nat : n = Dist(ms, l)
    BY <1>5
  <2>3. Within(n, t, lg)
    BY <1>1, <1>3, <2>1, <2>2 DEF NotLate, Recent
  <2>4. n <= 1
    <3>1. lg <= 2^S /\ lg \in Int /\ n \in Int
      BY <1>2
    <3> QED
      BY <2>3, <3>1, WithinSmall
  <2>5. Dist(l, l) + Dist(ms, l) = n /\ Dist(ms, l) + Dist(ms, ms) = n
    BY <1>4, <2>2
  <2>6. /\ tmo - req <= s /\ s <= tmo
        /\ Behind(e, n, s - (tmo - req), l) /\ (s < tmo \/ e <= Gap + n)
    BY <1>1, <1>3, <2>1, <2>5, Zenon DEF Waits
  <2>7. Waits(d, e, t, st, ld)
    BY <1>1, <1>3, <1>6, <2>2, <2>4, <2>5, <2>6, Zenon DEF Waits
  <2>8. Within(e - Gap - req, t, MaxLag + 0)
    <3>1. PICK x \in Int, k \in Int : x = e - Gap - req /\ k = MaxLag + 0 /\ lg <= k
      BY <1>2
    <3>2. x <= n
      <4>1. req \in Nat
        BY <1>1, Numbers
      <4> QED
        BY <1>2, <2>6, <3>1, <4>1 DEF Behind
    <3>3. lg \in Int /\ n \in Int
      OBVIOUS
    <3>4. Within(x, t, k)
      BY <2>3, <3>1, <3>2, <3>3, WithinLess
    <3> QED
      BY <3>1, <3>4
  <2> QED
    BY <1>6, <2>7, <2>8 DEF OnTime
<1> QED
  BY <1>7, <1>8, <1>9 DEF NotLate

\* The high half is read.
LEMMA LateReadHigh ==
  ASSUME NEW c \in Activation, NEW d \in Activation, NEW e \in Nat, NEW t \in Time,
         NEW st \in Word, NEW ld \in Word, NEW lg \in Nat,
         NotLate(c, e, t, st, ld, lg), c.pc = "high", Dist(d.now, Milliseconds(c.read)) = 0, Goes(c, d),
         d.pc = (IF c.then \in {"init", "reset"} THEN "resetDec" ELSE "add")
  PROVE  NotLate(d, e, t, st, ld, lg)
<1>1. PICK l \in Int, ms \in Int, r \in Int, n \in Int :
        l = ld /\ ms = Milliseconds(t) /\ r = Milliseconds(c.read) /\ n = d.now
  <2>1. ld \in Int /\ Milliseconds(t) \in Int /\ Milliseconds(c.read) \in Int
    BY Numbers, MillisecondsNat
  <2>2. d.now \in Int
    BY Numbers
  <2> QED
    BY <2>1, <2>2
<1>2. Last(c, ld) = r /\ Last(d, ld) = n
  BY <1>1 DEF Last
<1>3. Dist(n, r) = 0
  BY <1>1
<1>4. Dist(n, l) = Dist(r, l) /\ Dist(ms, n) = Dist(ms, r)
  BY <1>3, DistSame
<1>5. HasRead(c) /\ HasRead(d) /\ d.pc \in {"add", "resetDec"} /\ d.pc # "low" /\ c.pc # "low"
  BY DEF HasRead
<1>6. d.then = c.then /\ d.tmo = c.tmo /\ d.req = c.req
  BY DEF Goes
<1>7. Recent(d, t, ld, lg)
  BY <1>1, <1>2, <1>4, <1>5, Zenon DEF NotLate, Recent
<1>8. Begun(d, e, t, ld, lg)
  <2>1. Begun(c, e, t, ld, lg)
    BY DEF NotLate
  <2> QED
    BY <1>1, <1>2, <1>4, <1>5, <1>6, <2>1, Zenon DEF Begun
<1>9. OnTime(d, e, t, st, ld, lg)
  <2> SUFFICES ASSUME c.then = "loop" PROVE OnTime(d, e, t, st, ld, lg)
    BY <1>6 DEF OnTime
  <2>1. Waits(c, e, t, st, ld) /\ Within(e - Gap - c.req, t, MaxLag + lg)
    BY DEF NotLate, OnTime
  <2>2. Waits(d, e, t, st, ld)
    BY <1>1, <1>2, <1>4, <1>6, <2>1, Zenon DEF Waits
  <2>3. d.pc = "add"
    OBVIOUS
  <2> QED
    BY <1>6, <2>1, <2>2, <2>3 DEF OnTime
<1> QED
  BY <1>7, <1>8, <1>9 DEF NotLate

\* The stamp's sum does not pass the largest stamp, and loses one millisecond at most.
LEMMA LateSum ==
  ASSUME NEW st \in Nat, NEW ld \in Word, NEW now \in Word, NEW tmo \in Nat, NEW req \in Nat,
         NEW e \in Nat, NEW k \in Nat, NEW sum,
         req < 2^(W - 1), tmo <= M - 2, tmo - req <= st, st <= tmo, Dist(now, ld) <= 1,
         Behind(e, Dist(now, ld) + k, st - (tmo - req), ld),
         sum = (st + AdvanceFrom(now, ld)) % M
  PROVE  tmo - req <= sum /\ Behind(e, k, sum - (tmo - req), now)
<1>1. PICK h \in Nat : M = 2 * h /\ h >= 1 /\ M \in Nat /\ h = 2^(W - 1)
  BY Half
<1>2. now \in Nat /\ now < M /\ ld \in Nat /\ ld < M /\ Gap \in Nat
  BY Words, GapNat
<1>3. PICK a \in Nat, g \in Nat : a = AdvanceFrom(now, ld) /\ g = Dist(now, ld)
  <2>1. AdvanceFrom(now, ld) \in Nat
    BY AdvanceDist
  <2>2. now \in Int /\ ld \in Int
    BY <1>2
  <2>3. Dist(now, ld) \in Nat
    BY <2>2, DistWord
  <2> QED
    BY <2>1, <2>3
<1>4. a <= g /\ (now >= ld => a = g) /\ (now < ld => a + 1 = g)
  BY <1>3, AdvanceDist
<1>5. st + a < M
  BY <1>1, <1>3, <1>4
<1>6. sum = st + a
  <2>1. PICK y \in Nat : y = st + a
    OBVIOUS
  <2>2. y % M = y
    BY <1>1, <1>5, <2>1
  <2> QED
    BY <1>3, <2>1, <2>2
<1>7. PICK v \in Int : v = st - (tmo - req) /\ v >= 0 /\ v <= req /\ sum - (tmo - req) = v + a
  BY <1>6
<1>8. e <= Gap + v + (g + k) \/ (e <= Gap + v + (g + k) + 1 /\ ld <= v)
  BY <1>3, <1>7 DEF Behind
<1>9. e <= Gap + (v + a) + k \/ (e <= Gap + (v + a) + k + 1 /\ now <= v + a)
  <2>1. CASE now >= ld
    <3>1. a = g /\ g = now - ld
      <4>1. AdvanceFrom(now, ld) = now - ld
        BY <2>1 DEF AdvanceFrom
      <4> QED
        BY <1>3, <1>4, <2>1, <4>1
    <3> QED
      BY <1>2, <1>7, <1>8, <3>1
  <2>2. CASE now < ld
    <3>1. a = 0 /\ g = 1
      BY <1>2, <1>3, <1>4, <2>2
    <3>2. a = now + (M - 1) - ld
      BY <1>3, <1>2, <2>2 DEF AdvanceFrom
    <3>3. now = 0 /\ ld = M - 1
      <4>1. PICK m \in Nat : m = M
        BY <1>1
      <4>2. 0 = now + (m - 1) - ld /\ now >= 0 /\ ld < m
        BY <1>2, <3>1, <3>2, <4>1
      <4>3. now = 0 /\ ld = m - 1
        BY <1>2, <4>2
      <4> QED
        BY <4>1, <4>3
    <3>4. ~(ld <= v)
      BY <1>1, <1>7, <3>3
    <3> QED
      BY <1>2, <1>7, <1>8, <3>1, <3>3, <3>4
  <2> QED
    BY <1>2, <2>1, <2>2
<1> QED
  BY <1>6, <1>7, <1>9 DEF Behind

\* The stamp's sum.
LEMMA LateAdd ==
  ASSUME NEW c \in Activation, NEW d \in Activation, NEW e \in Nat, NEW t \in Time,
         NEW st \in Word, NEW ld \in Word, NEW lg \in Nat,
         NotLate(c, e, t, st, ld, lg), Ordered(c, st, ld), c.pc = "add", d.pc = "store",
         d.now = c.now, Goes(c, d), d.sum = (st + AdvanceFrom(c.now, ld)) % M
  PROVE  NotLate(d, e, t, st, ld, lg)
<1>1. Last(c, ld) = c.now /\ Last(d, ld) = c.now /\ HasRead(c) /\ HasRead(d)
  BY DEF Last, HasRead
<1>2. d.then = c.then /\ d.tmo = c.tmo /\ d.req = c.req /\ c.pc # "low" /\ d.pc # "low"
  BY DEF Goes
<1>3. Recent(d, t, ld, lg)
  BY <1>1, Zenon DEF NotLate, Recent
<1>4. Begun(d, e, t, ld, lg)
  <2>1. Begun(c, e, t, ld, lg)
    BY DEF NotLate
  <2> QED
    BY <1>1, <1>2, <2>1, Zenon DEF Begun
<1>5. OnTime(d, e, t, st, ld, lg)
  <2> SUFFICES ASSUME c.then = "loop" PROVE OnTime(d, e, t, st, ld, lg)
    BY <1>2 DEF OnTime
  <2>1. Waits(c, e, t, st, ld) /\ Within(e - Gap - c.req, t, MaxLag + lg)
    BY DEF NotLate, OnTime
  <2>2. c.tmo <= M - 2 /\ c.req \in Delays
    BY DEF Ordered, Loops
  <2>3. c.req \in Nat /\ c.req < 2^(W - 1)
    BY <2>2, DelaySmall
  <2>4. c.tmo \in Nat /\ st \in Nat /\ c.now \in Word
    BY Numbers, Fields
  <2>5. PICK k \in Nat : k = Dist(Milliseconds(t), c.now)
    <3>1. Milliseconds(t) \in Int /\ c.now \in Int
      BY Numbers, MillisecondsNat
    <3> QED
      BY <3>1, DistWord
  <2>6. /\ c.tmo - c.req <= st /\ st <= c.tmo /\ Dist(c.now, ld) <= 1
        /\ Behind(e, Dist(c.now, ld) + k, st - (c.tmo - c.req), ld)
    BY <1>1, <2>1, <2>5 DEF Waits
  <2>7. c.tmo - c.req <= d.sum /\ Behind(e, k, d.sum - (c.tmo - c.req), c.now)
    BY <2>2, <2>3, <2>4, <2>6, LateSum
  <2>8. Sums(d, e, t)
    BY <1>2, <2>5, <2>7 DEF Sums
  <2> QED
    BY <1>2, <2>1, <2>8 DEF OnTime
<1> QED
  BY <1>3, <1>4, <1>5 DEF NotLate

\* The stores.
LEMMA LateStore ==
  ASSUME NEW c, NEW d, NEW e, NEW t, NEW st, NEW st2, NEW ld, NEW ld2, NEW lg,
         NotLate(c, e, t, st, ld, lg), d.now = c.now, d.sum = c.sum, Goes(c, d),
         \/ c.pc = "store" /\ d.pc = "dec"
         \/ c.pc = "resetDec" /\ d.pc = "resetStamp" /\ c.then \notin Loops
  PROVE  NotLate(d, e, t, st2, ld2, lg)
<1>1. Last(d, ld2) = Last(c, ld) /\ HasRead(c) /\ HasRead(d) /\ c.pc # "low" /\ d.pc # "low"
  BY DEF Last, HasRead
<1>2. d.then = c.then /\ d.tmo = c.tmo /\ d.req = c.req
  BY DEF Goes
<1>3. Recent(d, t, ld2, lg)
  BY <1>1, Zenon DEF NotLate, Recent
<1>4. Begun(d, e, t, ld2, lg)
  <2>1. Begun(c, e, t, ld, lg)
    BY DEF NotLate
  <2> QED
    BY <1>1, <1>2, <2>1, Zenon DEF Begun
<1>5. OnTime(d, e, t, st2, ld2, lg)
  <2> SUFFICES ASSUME c.then = "loop" PROVE OnTime(d, e, t, st2, ld2, lg)
    BY <1>2 DEF OnTime
  <2>1. c.pc = "store" /\ d.pc = "dec"
    BY DEF Loops
  <2>2. Sums(c, e, t) /\ Within(e - Gap - c.req, t, MaxLag + lg)
    BY <2>1 DEF NotLate, OnTime
  <2>3. Sums(d, e, t)
    BY <1>2, <2>2, Zenon DEF Sums
  <2> QED
    BY <1>2, <2>1, <2>2, <2>3 DEF OnTime
<1> QED
  BY <1>3, <1>4, <1>5 DEF NotLate

\* The loop begins: its stamp is the one just taken.
LEMMA LateBegin ==
  ASSUME NEW c \in Activation, NEW d \in Activation, NEW e \in Nat, NEW t \in Time,
         NEW st \in Word, NEW ld \in Word, NEW lg \in Nat,
         NotLate(c, e, t, st, ld, lg), HasRead(c), c.then \in {"udelay", "reset"},
         NEW st2 \in Word, NEW ld2 \in Word, ld2 = Last(c, ld),
         d.pc = "low", d.then = "loop", d.tmo - d.req = st2, st2 <= d.tmo
  PROVE  NotLate(d, e, t, st2, ld2, lg)
<1>1. PICK l \in Int, ms \in Int, s \in Nat : l = ld2 /\ ms = Milliseconds(t) /\ s = st2
  <2>1. ld2 \in Int /\ Milliseconds(t) \in Int /\ st2 \in Nat
    BY Numbers, MillisecondsNat
  <2> QED
    BY <2>1
<1>2. Last(d, ld2) = l
  BY <1>1 DEF Last
<1>3. Dist(l, l) = 0
  BY DistNear
<1>4. PICK n \in Nat : n = Dist(ms, l) /\ Gap \in Nat
  BY DistWord, GapNat
<1>5. Dist(l, l) + Dist(ms, l) = n /\ s - s = 0
  BY <1>3, <1>4
<1>6. e <= Gap + n /\ Within(n, t, lg)
  BY <1>1, <1>4 DEF NotLate, Begun, Recent
<1>7. Recent(d, t, ld2, lg)
  BY <1>1, <1>2, <1>4, <1>6 DEF Recent
<1>8. Begun(d, e, t, ld2, lg)
  BY DEF Begun
<1>9. Behind(e, n, 0, l)
  BY <1>4, <1>6 DEF Behind
<1>10. Waits(d, e, t, st2, ld2)
  <2>1. d.tmo - d.req = s /\ s <= s /\ s <= d.tmo /\ Dist(l, l) <= 1
    BY <1>1, <1>3
  <2>2. Behind(e, Dist(l, l) + Dist(ms, l), s - (d.tmo - d.req), l) /\ e <= Gap + (Dist(l, l) + Dist(ms, l))
    BY <1>5, <1>6, <1>9, <2>1
  <2> QED
    BY <1>1, <1>2, <2>1, <2>2, Zenon DEF Waits
<1> QED
  BY <1>7, <1>8, <1>10 DEF NotLate, OnTime

\* The loop polls again.
LEMMA LatePoll ==
  ASSUME NEW c \in Activation, NEW d \in Activation, NEW e \in Nat, NEW t \in Time,
         NEW ld \in Word, NEW lg \in Nat,
         NotLate(c, e, t, c.sum, ld, lg), c.pc = "dec", c.then = "loop", c.sum < c.tmo,
         d.pc = "low", Goes(c, d)
  PROVE  NotLate(d, e, t, c.sum, c.now, lg)
<1>1. PICK l \in Int, ms \in Int, s \in Nat : l = c.now /\ ms = Milliseconds(t) /\ s = c.sum
  <2>1. c.now \in Int /\ Milliseconds(t) \in Int /\ c.sum \in Nat
    BY Numbers, MillisecondsNat
  <2> QED
    BY <2>1
<1>2. Last(d, c.now) = l /\ Last(c, ld) = l /\ HasRead(c)
  BY <1>1 DEF Last, HasRead
<1>3. Dist(l, l) = 0
  BY DistNear
<1>4. PICK n \in Nat : n = Dist(ms, l) /\ Gap \in Nat
  BY DistWord, GapNat
<1>5. Dist(l, l) + Dist(ms, l) = n
  BY <1>3, <1>4
<1>6. d.then = c.then /\ d.tmo = c.tmo /\ d.req = c.req
  BY DEF Goes
<1>7. Recent(d, t, c.now, lg)
  BY <1>1, <1>2, Zenon DEF NotLate, Recent
<1>8. Begun(d, e, t, c.now, lg)
  BY <1>6 DEF Begun
<1>9. Sums(c, e, t)
  BY DEF NotLate, OnTime
<1>10. c.tmo - c.req <= s /\ Behind(e, n, s - (c.tmo - c.req), l)
  BY <1>1, <1>4, <1>9 DEF Sums
<1>11. Waits(d, e, t, c.sum, c.now)
  <2>1. s <= c.tmo /\ s < c.tmo /\ Dist(l, l) <= 1
    BY <1>1, <1>3, Numbers
  <2>2. Behind(e, Dist(l, l) + Dist(ms, l), s - (c.tmo - c.req), l)
    BY <1>5, <1>10
  <2> QED
    BY <1>1, <1>2, <1>6, <1>10, <2>1, <2>2, Zenon DEF Waits
<1> QED
  BY <1>6, <1>7, <1>8, <1>11 DEF NotLate, OnTime

\* A call ends.
LEMMA LateDone ==
  ASSUME NEW c, NEW d, NEW e, NEW t, NEW st, NEW st2, NEW ld, NEW ld2, NEW lg,
         NotLate(c, e, t, st, ld, lg), c.pc # "low", d.pc = "done",
         d.then \notin {"udelay", "reset"}, d.then = "loop" => c.then = "loop" /\ d.req = c.req
  PROVE  NotLate(d, e, t, st2, ld2, lg)
<1>1. ~HasRead(d) /\ d.pc # "low"
  BY DEF HasRead
<1>2. Recent(d, t, ld2, lg) /\ Begun(d, e, t, ld2, lg)
  BY <1>1 DEF Recent, Begun
<1>3. d.then = "loop" => Within(e - Gap - d.req, t, MaxLag + lg)
  BY DEF NotLate, OnTime
<1> QED
  BY <1>2, <1>3 DEF NotLate, OnTime

\* Calls that are no delays, and __udelay before and between its readings.
LEMMA LateIdle ==
  ASSUME NEW d, NEW e, NEW t, NEW st, NEW ld, NEW lg, d.pc = "low", d.then \notin Loops,
         d.then = "udelay" => Within(e, t, lg),
         d.then = "reset" => Within(e, t, MaxLag + lg)
  PROVE  NotLate(d, e, t, st, ld, lg)
<1>1. ~HasRead(d) /\ d.then # "loop"
  BY DEF HasRead, Loops
<1> QED
  BY <1>1 DEF NotLate, Recent, Begun, OnTime

\* udelay_masked polls: nothing is claimed of it but that its reading is recent.
LEMMA LateMasked ==
  ASSUME NEW c, NEW d, NEW e, NEW t, NEW st, NEW st2, NEW ld, NEW lg, NotLate(c, e, t, st, ld, lg),
         c.pc = "dec", d.pc = "low", d.then = "maskedLoop"
  PROVE  NotLate(d, e, t, st2, c.now, lg)
<1>1. HasRead(c) /\ Last(c, ld) = c.now /\ Last(d, c.now) = c.now
  BY DEF HasRead, Last
<1>2. Recent(d, t, c.now, lg)
  BY <1>1 DEF NotLate, Recent
<1> QED
  BY <1>2 DEF NotLate, Begun, OnTime

-----------------------------------------------------------------------------
(* No step makes __udelay late. *)

\* The invariant after a step.
LEMMA LateAfter ==
  ASSUME NEW d, After(d), NotLate(d, elapsed', time', timestamp', lastdec', lag')
  PROVE  LateInv'
BY DEF LateInv, After

\* Main's activation, alone on the stack.
LEMMA LateNow ==
  ASSUME Swift, Inv, DelayInv, LateInv, ctx # <<>>
  PROVE  /\ Me \in Activation /\ Ordered(Me, timestamp, lastdec)
         /\ NotLate(Me, elapsed, time, timestamp, lastdec, lag)
         /\ elapsed \in Nat /\ time \in Time /\ timestamp \in Word /\ lastdec \in Word
         /\ lag \in Nat /\ lag <= MaxLag
<1>1. Me = ctx[1] /\ Me \in Activation /\ StateOK /\ Ordered(Me, timestamp, lastdec)
  BY Alone DEF Swift
<1>2. NotLate(Me, elapsed, time, timestamp, lastdec, lag)
  BY <1>1 DEF LateInv
<1>3. /\ elapsed \in 0 .. Horizon /\ time \in Time /\ timestamp \in Word /\ lastdec \in Word
      /\ lag \in 0 .. MaxLag
  BY <1>1, StateTypes
<1>4. elapsed \in Nat /\ lag \in Nat /\ lag <= MaxLag
  BY <1>3, InputAssumption
<1> QED
  BY <1>1, <1>2, <1>3, <1>4

\* Time passes.
LEMMA TickLate ==
  ASSUME Swift, Inv, Inv', DelayInv, LateInv, Tick, ctx # <<>>
  PROVE  LateInv'
<1>1. /\ Me \in Activation /\ NotLate(Me, elapsed, time, timestamp, lastdec, lag)
      /\ elapsed \in Nat /\ time \in Time /\ timestamp \in Word /\ lastdec \in Word /\ lag \in Nat
  BY LateNow
<1>2. /\ UNCHANGED <<timestamp, lastdec, ctx>> /\ time' = (time + 1) % 2^(W + H)
      /\ lag < MaxLag /\ lag' = lag + 1
  BY DEF Tick
<1>3. PICK b \in {0, 1} : b = 1 <=> time' % 2^S = 0
  <2>1. 1 \in {0, 1} /\ 0 \in {0, 1} /\ 0 # 1
    OBVIOUS
  <2> QED
    BY <2>1, Zenon
<1>4. elapsed' \in Nat /\ elapsed' <= elapsed + b
  <2>1. elapsed' = IF b = 1 THEN Capped(elapsed) ELSE elapsed
    BY <1>2, <1>3 DEF Tick
  <2> QED
    BY <1>1, <2>1 DEF Capped
<1>5. time' \in Time
  BY Zenon DEF Inv, TypeOK
<1>6. NotLate(Me, elapsed', time', timestamp, lastdec, lag + 1)
  BY <1>1, <1>2, <1>3, <1>4, <1>5, LateTick
<1>7. After(Me)
  <2>1. Me = ctx[1] /\ Len(ctx) = 1
    BY Alone DEF Swift
  <2> QED
    BY <1>1, <1>2, <2>1 DEF After
<1> QED
  BY <1>2, <1>6, <1>7, LateAfter

\* The timer is read.
LEMMA ReadLate ==
  ASSUME Swift, Inv, Inv', DelayInv, LateInv, ReadLow \/ ReadHigh \/ TimerRead
  PROVE  LateInv'
<1>0. Masked
  BY DEF Swift
<1>1. ctx # <<>>
  BY DEF ReadLow, ReadHigh, TimerRead, At
<1>2. /\ Me \in Activation /\ NotLate(Me, elapsed, time, timestamp, lastdec, lag)
      /\ elapsed \in Nat /\ time \in Time /\ timestamp \in Word /\ lastdec \in Word
      /\ lag \in Nat /\ lag <= MaxLag
  BY <1>1, LateNow
<1>3. CASE ReadLow
  <2>1. Me.pc = "low" /\ UNCHANGED <<time, timestamp, lastdec, elapsed>> /\ lag' = 0
    BY <1>0, <1>3, ReadLowStep
  <2>2. PICK d : After(d) /\ Goes(Me, d) /\ d.pc = "high" /\ d.read = time /\ d.torn = Me.torn
    BY <1>0, <1>3, ReadLowStep
  <2>3. d \in Activation
    BY <2>2 DEF After
  <2>4. NotLate(d, elapsed, time, timestamp, lastdec, 0)
    BY <1>2, <2>1, <2>2, <2>3, LateReadLow
  <2> QED
    BY <2>1, <2>2, <2>4, LateAfter
<1>4. CASE ReadHigh
  <2>1. Me.pc = "high" /\ UNCHANGED <<time, timestamp, lastdec, elapsed, lag>>
    BY <1>0, <1>4, ReadHighStep
  <2>2. PICK d : /\ After(d) /\ Goes(Me, d) /\ d.torn = FALSE
                 /\ d.pc = (IF Me.then \in {"init", "reset"} THEN "resetDec" ELSE "add")
                 /\ Dist(d.now, Milliseconds(Me.read)) = 0
    BY <1>0, <1>4, ReadHighStep
  <2>3. d \in Activation
    BY <2>2 DEF After
  <2>4. NotLate(d, elapsed, time, timestamp, lastdec, lag)
    BY <1>2, <2>1, <2>2, <2>3, LateReadHigh
  <2> QED
    BY <2>1, <2>2, <2>4, LateAfter
<1>5. CASE TimerRead
  <2>1. Me.pc = "high" /\ UNCHANGED <<time, timestamp, lastdec, elapsed, lag>>
    BY <1>0, <1>5, TimerReadStep
  <2>2. PICK d : After(d) /\ d.torn = FALSE /\ d.pc = "done" /\ d.then = "read"
    BY <1>0, <1>5, TimerReadStep
  <2>3. Me.pc # "low" /\ d.then \notin {"udelay", "reset"} /\ d.then # "loop"
    BY <2>1, <2>2
  <2>4. NotLate(d, elapsed, time, timestamp, lastdec, lag)
    BY <1>2, <2>2, <2>3, LateDone
  <2> QED
    BY <2>1, <2>2, <2>4, LateAfter
<1> QED
  BY <1>3, <1>4, <1>5

\* The stamp and lastdec are set.
LEMMA StoreLate ==
  ASSUME Swift, Inv, Inv', DelayInv, LateInv, ResetDec \/ ResetStamp \/ Add \/ Store
  PROVE  LateInv'
<1>0. Masked
  BY DEF Swift
<1>1. ctx # <<>>
  BY DEF ResetDec, ResetStamp, Add, Store, At
<1>2. /\ Me \in Activation /\ NotLate(Me, elapsed, time, timestamp, lastdec, lag)
      /\ Ordered(Me, timestamp, lastdec)
      /\ elapsed \in Nat /\ time \in Time /\ timestamp \in Word /\ lastdec \in Word /\ lag \in Nat
  BY <1>1, LateNow
<1>3. CASE ResetDec
  <2>1. Me.pc = "resetDec" /\ UNCHANGED <<time, timestamp, elapsed, lag>>
    BY <1>0, <1>3, ResetDecStep
  <2>2. PICK d : /\ After(d) /\ Goes(Me, d) /\ d.torn = Me.torn /\ d.pc = "resetStamp"
                 /\ d.now = Me.now /\ d.sum = Me.sum
    BY <1>0, <1>3, ResetDecStep
  <2>3. Me.then \notin Loops
    BY <1>2, <2>1 DEF Ordered, Loops
  <2>4. NotLate(d, elapsed, time, timestamp, lastdec', lag)
    BY <1>2, <2>1, <2>2, <2>3, LateStore
  <2> QED
    BY <2>1, <2>2, <2>4, LateAfter
<1>4. CASE ResetStamp
  <2>1. Me.pc = "resetStamp" /\ timestamp' = 0 /\ UNCHANGED <<time, lastdec, elapsed, lag>>
    BY <1>0, <1>4, ResetStampStep
  <2>2. PICK d : /\ After(d) /\ d.torn = FALSE
                 /\ \/ Me.then = "init" /\ d.pc = "done" /\ d.then = "init"
                    \/ /\ Me.then # "init" /\ d.pc = "low" /\ d.then = "loop"
                       /\ d.tmo = Me.tmo /\ d.req = Me.req
    BY <1>0, <1>4, ResetStampStep
  <2>3. d \in Activation
    BY <2>2 DEF After
  <2>4. CASE Me.then = "init"
    <3>1. Me.pc # "low" /\ d.pc = "done" /\ d.then \notin {"udelay", "reset"} /\ d.then # "loop"
      BY <2>1, <2>2, <2>4
    <3>2. NotLate(d, elapsed, time, 0, lastdec, lag)
      BY <1>2, <3>1, LateDone
    <3> QED
      BY <2>1, <2>2, <3>2, LateAfter
  <2>5. CASE Me.then # "init"
    <3>1. Me.then = "reset" /\ Me.tmo = Me.req /\ lastdec = Me.now
      BY <1>2, <2>1, <2>5 DEF Ordered, Starts
    <3>2. Me.req \in Nat
      BY <1>2, Numbers
    <3>3. d.pc = "low" /\ d.then = "loop" /\ d.tmo - d.req = 0 /\ 0 <= d.tmo
      BY <2>2, <2>5, <3>1, <3>2
    <3>4. HasRead(Me) /\ Last(Me, lastdec) = lastdec
      BY <2>1, <3>1 DEF HasRead, Last
    <3>5. NotLate(d, elapsed, time, 0, lastdec, lag)
      BY <1>2, <2>3, <3>1, <3>3, <3>4, Zeros, LateBegin
    <3> QED
      BY <2>1, <2>2, <3>5, LateAfter
  <2> QED
    BY <2>4, <2>5
<1>5. CASE Add
  <2>1. Me.pc = "add" /\ UNCHANGED <<time, timestamp, lastdec, elapsed, lag>>
    BY <1>0, <1>5, AddStep
  <2>2. PICK d : /\ After(d) /\ Goes(Me, d) /\ d.torn = FALSE /\ d.pc = "store" /\ d.now = Me.now
                 /\ d.sum = (timestamp + AdvanceFrom(Me.now, lastdec)) % M
    BY <1>0, <1>5, AddStep
  <2>3. d \in Activation
    BY <2>2 DEF After
  <2>4. NotLate(d, elapsed, time, timestamp, lastdec, lag)
    BY <1>2, <2>1, <2>2, <2>3, LateAdd
  <2> QED
    BY <2>1, <2>2, <2>4, LateAfter
<1>6. CASE Store
  <2>1. Me.pc = "store" /\ UNCHANGED <<time, lastdec, elapsed, lag>>
    BY <1>0, <1>6, StoreStep
  <2>2. PICK d : /\ After(d) /\ Goes(Me, d) /\ d.torn = Me.torn /\ d.pc = "dec"
                 /\ d.now = Me.now /\ d.sum = Me.sum
    BY <1>0, <1>6, StoreStep
  <2>3. NotLate(d, elapsed, time, timestamp', lastdec, lag)
    BY <1>2, <2>1, <2>2, LateStore
  <2> QED
    BY <2>1, <2>2, <2>3, LateAfter
<1> QED
  BY <1>3, <1>4, <1>5, <1>6

\* get_timer_masked returns.
LEMMA DecLate ==
  ASSUME Swift, Inv, Inv', DelayInv, LateInv,
         TicksDec \/ UdelayStart \/ UdelayLoop \/ MaskedStart \/ MaskedLoop
  PROVE  LateInv'
<1>0. Masked
  BY DEF Swift
<1>1. ctx # <<>>
  BY <1>0, DecStep
<1>2. /\ Me \in Activation /\ NotLate(Me, elapsed, time, timestamp, lastdec, lag)
      /\ Ordered(Me, timestamp, lastdec)
      /\ elapsed \in Nat /\ time \in Time /\ timestamp \in Word /\ lastdec \in Word /\ lag \in Nat
  BY <1>1, LateNow
<1>3. Me.pc = "dec" /\ lastdec' = Me.now /\ UNCHANGED <<time, timestamp, elapsed, lag>>
  BY <1>0, DecStep
<1>4. PICK d : /\ After(d) /\ d.torn = FALSE /\ d.req = Me.req
               /\ \/ d.pc = "low" /\ PollsFor(Me, d.then, d.tmo)
                  \/ d.pc = "done" /\ d.then = Me.then /\ d.tmo = d.req /\ Ends(Me)
  BY <1>0, DecStep
<1>5. d \in Activation
  BY <1>4 DEF After
<1>6. PICK c \in Activation : c = Me
  BY <1>2
<1>7. timestamp = c.sum /\ HasRead(c) /\ Last(c, lastdec) = c.now /\ c.now \in Word
  BY <1>2, <1>3, <1>6, Fields DEF Ordered, HasRead, Last
<1>8. CASE d.pc = "low" /\ PollsFor(Me, d.then, d.tmo)
  <2>1. c.then = "udelay" /\ d.then = "loop" => d.tmo - d.req = c.sum /\ c.sum <= d.tmo
    BY <1>2, <1>3, <1>4, <1>5, <1>6, <1>8, PollOrdered
  <2>2. NotLate(d, elapsed, time, timestamp, c.now, lag)
    <3>1. CASE c.then = "udelay" /\ d.then = "loop"
      BY <1>2, <1>5, <1>6, <1>7, <1>8, <2>1, <3>1, LateBegin
    <3>2. CASE c.then = "udelay" /\ d.then = "reset"
      <4>1. Within(elapsed, time, MaxLag + lag)
        BY <1>2, <1>6, <1>7, <3>2 DEF NotLate, Begun
      <4>2. d.then \notin Loops /\ d.then # "udelay"
        BY <3>2 DEF Loops
      <4> QED
        BY <1>8, <4>1, <4>2, LateIdle
    <3>3. CASE c.then = "loop"
      <4>1. c.sum < c.tmo /\ Goes(c, d)
        BY <1>4, <1>6, <1>8, <3>3 DEF PollsFor, Goes
      <4>2. NotLate(c, elapsed, time, c.sum, lastdec, lag) /\ c.pc = "dec"
        BY <1>2, <1>3, <1>6, <1>7
      <4>3. NotLate(d, elapsed, time, c.sum, c.now, lag)
        BY <1>2, <1>5, <1>8, <3>3, <4>1, <4>2, LatePoll
      <4> QED
        BY <1>7, <4>3
    <3>4. CASE d.then = "maskedLoop"
      BY <1>2, <1>3, <1>6, <1>8, <3>4, LateMasked
    <3> QED
      BY <1>6, <1>8, <3>1, <3>2, <3>3, <3>4 DEF PollsFor
  <2> QED
    BY <1>3, <1>4, <1>6, <2>2, LateAfter
<1>9. CASE d.pc = "done" /\ d.then = Me.then /\ d.tmo = d.req /\ Ends(Me)
  <2>1. Me.pc # "low" /\ d.then \notin {"udelay", "reset"}
    BY <1>3, <1>9 DEF Ends
  <2>2. NotLate(d, elapsed, time, timestamp, c.now, lag)
    BY <1>2, <1>4, <1>9, <2>1, LateDone
  <2> QED
    BY <1>3, <1>4, <1>6, <2>2, LateAfter
<1> QED
  BY <1>4, <1>8, <1>9

\* A call: no millisecond of it has begun.
LEMMA MainLate ==
  ASSUME Swift, Inv, Inv', LateInv, Main
  PROVE  LateInv'
<1>0. Masked
  BY DEF Swift
<1>1. ctx = <<>> /\ UNCHANGED <<time, timestamp, lastdec, elapsed>> /\ lag' = 0
  BY <1>0, MainStep
<1>2. PICK d : /\ After(d) /\ d.torn = FALSE /\ d.pc = "low" /\ d.tmo = d.req
               /\ d.then \in Reads \/ (d.then \in {"udelay", "masked"} /\ d.req \in Delays)
  BY <1>0, MainStep
<1>3. d.then \notin Loops /\ d.then # "reset"
  BY <1>2, InputAssumption DEF Loops
<1>4. elapsed = 0 /\ time \in Time
  BY <1>1 DEF LateInv, Inv, TypeOK
<1>5. Within(elapsed, time, 0)
  BY <1>4, WithinNow
<1>6. NotLate(d, elapsed, time, timestamp, lastdec, 0)
  BY <1>2, <1>3, <1>5, LateIdle
<1> QED
  BY <1>1, <1>2, <1>6, LateAfter

LEMMA InitLate ==
  ASSUME Init
  PROVE  LateInv
<1>1. CASE ctx = <<>>
  BY <1>1 DEF LateInv, Init
<1>2. CASE ctx = << New("main", "init", 0) >>
  <2>1. PICK d : d = New("main", "init", 0)
    OBVIOUS
  <2>2. d.pc = "low" /\ d.then = "init"
    BY <2>1 DEF New
  <2>3. d.then \notin Loops /\ d.then \notin {"udelay", "reset"}
    BY <2>2 DEF Loops
  <2>4. NotLate(d, elapsed, time, timestamp, lastdec, lag)
    BY <2>2, <2>3, LateIdle
  <2>5. ctx # <<>> /\ ctx[1] = d
    BY <1>2, <2>1
  <2> QED
    BY <2>4, <2>5 DEF LateInv
<1> QED
  BY <1>1, <1>2 DEF Init

LEMMA NextLate ==
  ASSUME Swift, Inv, Inv', DelayInv, LateInv, [Next]_vars
  PROVE  LateInv'
<1>0. Masked
  BY DEF Swift
<1>1. CASE Tick
  <2>1. CASE ctx = <<>>
    BY <1>1, <2>1 DEF Tick, LateInv
  <2> QED
    BY <1>1, <2>1, TickLate
<1>2. CASE Main
  BY <1>2, MainLate
<1>3. CASE (\E irq \in Handlers : irq_handler(irq)) \/ AlarmRead \/ AlarmWriteHigh \/ AlarmWriteLow
  BY <1>0, <1>3, NoOthers
<1>4. CASE ReadLow \/ ReadHigh \/ TimerRead
  BY <1>4, ReadLate
<1>5. CASE ResetDec \/ ResetStamp \/ Add \/ Store
  BY <1>5, StoreLate
<1>6. CASE TicksDec \/ UdelayStart \/ UdelayLoop \/ MaskedStart \/ MaskedLoop
  BY <1>6, DecLate
<1>7. CASE Return
  BY <1>0, <1>7, ReturnStep DEF LateInv
<1>8. CASE UNCHANGED vars
  BY <1>8 DEF LateInv, vars
<1> QED
  BY <1>1, <1>2, <1>3, <1>4, <1>5, <1>6, <1>7, <1>8 DEF Next, Cpu

\* With interrupts masked and the timer read at least once a millisecond, __udelay is
\* never late by more than the milliseconds that begin in its four outer gaps, for every
\* width, delay and state of the counter and of the stamp: the test before the loop keeps
\* the stamp from being stepped over at its rollover, and the millisecond lost when the
\* count rolls over is lost once.
THEOREM UdelayNotLateHolds == Swift => (Spec => []UdelayNotLate)
<1> SUFFICES ASSUME Swift PROVE Spec => []UdelayNotLate
  OBVIOUS
<1>1. Masked
  BY DEF Swift
<1>2. Init => Inv /\ DelayInv /\ LateInv
  BY InitInv, InitDelay, InitLate
<1>3. (Inv /\ DelayInv /\ LateInv) /\ [Next]_vars => (Inv /\ DelayInv /\ LateInv)'
  <2> SUFFICES ASSUME Inv, DelayInv, LateInv, [Next]_vars PROVE Inv' /\ DelayInv' /\ LateInv'
    OBVIOUS
  <2>1. Inv'
    BY NextInv
  <2> QED
    BY <1>1, <2>1, NextDelay, NextLate
<1>4. Inv /\ DelayInv /\ LateInv => UdelayNotLate
  <2> SUFFICES ASSUME Inv, DelayInv, LateInv, MainDone("loop")
               PROVE  elapsed <= ctx[1].req + 2 * ((2 * MaxLag + 2^S - 1) \div 2^S)
    BY DEF UdelayNotLate
  <2>1. ctx # <<>> /\ ctx[1].pc = "done" /\ ctx[1].then = "loop"
    BY Finished
  <2>2. /\ Me \in Activation /\ NotLate(Me, elapsed, time, timestamp, lastdec, lag)
        /\ elapsed \in Nat /\ time \in Time /\ lag \in Nat /\ lag <= MaxLag
    BY <2>1, LateNow
  <2>3. Me = ctx[1]
    BY <1>1, <2>1, Alone
  <2>4. PICK r \in Nat, g \in Nat, l \in Nat : r = ctx[1].req /\ g = Gap /\ l = MaxLag
    <3>1. ctx[1].req \in Nat
      BY <2>2, <2>3, Fields, Words
    <3> QED
      BY <3>1, GapNat, InputAssumption
  <2>5. PICK x \in Int, n \in Int : x = elapsed - g - r /\ n = l + lag /\ n <= 2 * l
    BY <2>2, <2>4
  <2>6. Within(x, time, n)
    BY <2>1, <2>2, <2>3, <2>4, <2>5 DEF NotLate, OnTime
  <2>7. x <= g
    BY <2>2, <2>4, <2>5, <2>6, WithinGap
  <2>8. elapsed <= r + 2 * g
    BY <2>2, <2>5, <2>7
  <2> QED
    BY <2>4, <2>8 DEF Gap
<1> QED
  BY <1>2, <1>3, <1>4, PTL DEF Spec
=============================================================================
