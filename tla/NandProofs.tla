----------------------------- MODULE NandProofs -----------------------------
(***************************************************************************)
(* The geometry, the addresses and the commands of Nand, and that it       *)
(* implements Mtd, for any devices and requests.                           *)
(***************************************************************************)
EXTENDS Nand, SequenceTheorems, WellFoundedInduction, TLAPS

-----------------------------------------------------------------------------
(* Arithmetic. *)

\* Quotient and remainder.
LEMMA Division ==
  ASSUME NEW x \in Nat, NEW y \in Nat, y >= 1
  PROVE  /\ x \div y \in Nat /\ x % y \in 0 .. y - 1
         /\ x = (x \div y) * y + (x % y)
OBVIOUS

LEMMA Multiple ==
  ASSUME NEW k \in Nat, NEW y \in Nat, y >= 1
  PROVE  (k * y) \div y = k /\ (k * y) % y = 0 /\ k * y \in Nat
OBVIOUS

LEMMA Order ==
  ASSUME NEW a \in Nat, NEW b \in Nat, NEW y \in Nat, a <= b
  PROVE  a * y <= b * y /\ a * y \in Nat /\ b * y \in Nat
OBVIOUS

LEMMA OrderBack ==
  ASSUME NEW a \in Nat, NEW b \in Nat, NEW y \in Nat, y >= 1, a * y <= b * y
  PROVE  a <= b
<1>1. b + 1 <= a => (b + 1) * y <= a * y
  BY Order
<1>2. (b + 1) * y = b * y + y /\ a * y \in Nat /\ b * y \in Nat
  BY Order
<1> QED
  BY <1>1, <1>2

\* Exact division.
LEMMA Whole ==
  ASSUME NEW x \in Nat, NEW y \in Nat, y >= 1, x % y = 0
  PROVE  x \div y \in Nat /\ x = (x \div y) * y
<1> DEFINE k == x \div y
<1>1. k \in Nat /\ x = k * y + (x % y)
  BY Division
<1> HIDE DEF k
<1>2. x = k * y
  BY <1>1, Order
<1> QED
  BY <1>1, <1>2 DEF k

\* A remainder is no more than what is divided.
LEMMA RemainderBound ==
  ASSUME NEW x \in Nat, NEW y \in Nat, y >= 1
  PROVE  x % y \in Nat /\ x % y <= x
<1> DEFINE k == x \div y
<1>1. k \in Nat /\ x = k * y + (x % y) /\ x % y \in 0 .. y - 1
  BY Division
<1> HIDE DEF k
<1>2. k * y \in Nat
  BY <1>1, Order
<1> QED
  BY <1>1, <1>2

\* The quotient is the only one with a remainder below the divisor.
LEMMA Quotient ==
  ASSUME NEW q \in Nat, NEW y \in Nat, y >= 1, NEW r \in Nat, r < y
  PROVE  (q * y + r) \div y = q
<1>1. PICK x \in Nat : x = q * y + r
  BY Order
<1>2. PICK k \in Nat, t \in Nat : k = x \div y /\ x = k * y + t /\ t < y
  BY Division
<1>3. q * y \in Nat /\ k * y \in Nat /\ (k + 1) * y = k * y + y /\ (q + 1) * y = q * y + y
  BY Order
<1>4. ~(k + 1 <= q)
  <2>1. k + 1 <= q => (k + 1) * y <= q * y
    BY Order
  <2> QED
    BY <1>1, <1>2, <1>3, <2>1
<1>5. ~(q + 1 <= k)
  <2>1. q + 1 <= k => (q + 1) * y <= k * y
    BY Order
  <2> QED
    BY <1>1, <1>2, <1>3, <2>1
<1> QED
  BY <1>1, <1>2, <1>4, <1>5

\* A number below the modulus is its own remainder.
LEMMA SmallRemainder ==
  ASSUME NEW x \in Nat, NEW m \in Nat, x < m
  PROVE  x % m = x
<1>1. PICK q \in Nat, t \in Nat : t = x % m /\ x = q * m + t
  BY Division
<1>2. q >= 1 => 1 * m <= q * m /\ 1 * m = m
  BY Order
<1>3. q * m \in Nat
  BY Order
<1>4. q = 0
  BY <1>1, <1>2, <1>3
<1>5. 0 * m = 0
  OBVIOUS
<1> QED
  BY <1>1, <1>4, <1>5

LEMMA Least ==
  ASSUME NEW T, T \subseteq Nat, T # {}
  PROVE  \E x \in T : \A y \in T : x <= y
<1>1. PICK R : R = OpToRel(<, Nat)
  OBVIOUS
<1>2. \A x, y \in Nat : x < y => <<x, y>> \in R
  BY <1>1 DEF OpToRel
<1>3. IsWellFoundedOn(R, Nat)
  BY <1>1, NatLessThanWellFounded
<1>4. PICK x \in T : \A y \in T : ~(<<y, x>> \in R)
  BY <1>3, WFMin
<1>5. ASSUME NEW y \in T PROVE x <= y
  <2>1. x \in Nat /\ y \in Nat
    OBVIOUS
  <2>2. ~(<<y, x>> \in R)
    BY <1>4
  <2>3. ~(y < x)
    BY <1>2, <2>1, <2>2, Zenon
  <2> QED
    BY <2>1, <2>3
<1> QED
  BY <1>5

\* Whole pages of the data areas, with their OOB areas, are bytes of the device.
LEMMA PagesFit ==
  ASSUME NEW page \in Nat, page >= 1, NEW extra \in Nat, NEW bytes \in Nat,
         NEW k \in Nat, NEW j \in Nat,
         k * page + j * page <= (bytes \div (page + extra)) * page
  PROVE  k * (page + extra) + j * (page + extra) <= bytes
<1>1. PICK raw_page \in Nat : raw_page = page + extra /\ raw_page >= 1
  OBVIOUS
<1>2. PICK pages \in Nat : pages = bytes \div raw_page /\ pages * raw_page <= bytes
  <2> DEFINE q == bytes \div raw_page
  <2>1. q \in Nat /\ bytes = q * raw_page + (bytes % raw_page) /\ bytes % raw_page \in 0 .. raw_page - 1
    BY <1>1, Division
  <2>2. q * raw_page \in Nat
    BY <1>1, <2>1, Order
  <2> QED
    BY <1>1, <2>1, <2>2
<1>3. (k + j) * page = k * page + j * page /\ (k + j) * raw_page = k * raw_page + j * raw_page
  BY <1>1
<1>4. k + j <= pages
  BY <1>1, <1>2, <1>3, OrderBack
<1>5. (k + j) * raw_page <= pages * raw_page /\ (k + j) * raw_page \in Nat /\ pages * raw_page \in Nat
  BY <1>1, <1>2, <1>4, Order
<1> QED
  BY <1>1, <1>2, <1>3, <1>5

-----------------------------------------------------------------------------
(* Geometry. *)

LEMMA ChipFacts ==
  ASSUME NEW d \in Ids
  PROVE  /\ Chip[d].page \in Nat /\ Chip[d].page >= 1 /\ Chip[d].extra \in Nat /\ Chip[d].raw \in Nat
         /\ Chip[d].erase \in Nat /\ Chip[d].erase >= 1
         /\ Chip[d].erase % (Chip[d].page + Chip[d].extra) = 0
         /\ Chip[d].name \in Seq(STRING \ {NUL})
BY ChipAssumption

\* The limits of words and of wide numbers.
LEMMA Limits ==
  /\ 2^WordBits \in Nat /\ 2^WideBits \in Nat
  /\ \A d \in Ids : /\ Chip[d].page + Chip[d].extra < 2^WordBits
                   /\ Chip[d].raw + 2^WordBits < 2^WideBits
BY ChipAssumption

LEMMA WordFacts ==
  ASSUME NEW x \in Nat
  PROVE  Word(x) \in Nat /\ Word(x) <= x /\ (x < 2^WordBits => Word(x) = x)
<1>1. PICK m \in Nat : m = 2^WordBits /\ m >= 1
  BY ChipAssumption
<1>2. x % m \in Nat /\ x % m <= x
  BY <1>1, RemainderBound
<1>3. x < m => x % m = x
  BY SmallRemainder
<1> QED
  BY <1>1, <1>2, <1>3 DEF Word

LEMMA WideFacts ==
  ASSUME NEW x \in Nat
  PROVE  Wide(x) \in Nat /\ Wide(x) <= x /\ (x < 2^WideBits => Wide(x) = x)
<1>1. PICK m \in Nat : m = 2^WideBits /\ m >= 1
  BY ChipAssumption
<1>2. x % m \in Nat /\ x % m <= x
  BY <1>1, RemainderBound
<1>3. x < m => x % m = x
  BY SmallRemainder
<1> QED
  BY <1>1, <1>2, <1>3 DEF Wide

\* The end of a request is judged right when the sum does not wrap.
LEMMA PastEndFacts ==
  ASSUME NEW d, NEW ofs \in Nat, NEW len \in Nat, ofs + len < 2^WideBits
  PROVE  PastEnd(d, ofs, len) <=> ofs + len > mtd[d].size
BY WideFacts DEF PastEnd

\* A block is one page or more, a device's data areas are whole pages.
LEMMA BlockFacts ==
  ASSUME NEW d \in Ids, NEW block, block = Chip[d].erase \div (Chip[d].page + Chip[d].extra),
         NEW pages, pages = Chip[d].raw \div (Chip[d].page + Chip[d].extra)
  PROVE  /\ block \in Nat /\ block >= 1 /\ Chip[d].erase = block * (Chip[d].page + Chip[d].extra)
         /\ block * Chip[d].page \in Nat /\ block * Chip[d].page >= 1
         /\ (block * Chip[d].page) % Chip[d].page = 0 /\ (block * Chip[d].page) \div Chip[d].page = block
         /\ pages \in Nat /\ DataSize(d) = pages * Chip[d].page /\ DataSize(d) \in Nat
         /\ DataSize(d) % Chip[d].page = 0 /\ DataSize(d) \div Chip[d].page = pages
         /\ DataSize(d) <= Chip[d].raw
<1>1. PICK page \in Nat, raw_page \in Nat :
        page = Chip[d].page /\ raw_page = Chip[d].page + Chip[d].extra /\ page >= 1 /\ raw_page >= 1
  BY ChipFacts
<1>2. block \in Nat /\ Chip[d].erase = block * raw_page
  <2>1. PICK erase \in Nat : erase = Chip[d].erase /\ erase % raw_page = 0 /\ block = erase \div raw_page
    BY <1>1, ChipFacts
  <2>2. raw_page >= 1 /\ erase % raw_page = 0
    BY <1>1, <2>1
  <2>3. erase \div raw_page \in Nat /\ erase = (erase \div raw_page) * raw_page
    BY <2>2, Whole
  <2> QED
    BY <2>1, <2>3
<1>3. block >= 1
  <2>1. 0 * raw_page = 0 /\ Chip[d].erase # 0
    BY <1>1, ChipFacts
  <2>2. block # 0
    BY <1>2, <2>1
  <2> QED
    BY <1>2, <2>2
<1>4. /\ block * page \in Nat /\ (block * page) % page = 0 /\ (block * page) \div page = block
  BY <1>1, <1>2, Multiple
<1>5. 1 * page <= block * page /\ 1 * page = page
  BY <1>1, <1>2, <1>3, Order
<1>6. pages \in Nat /\ DataSize(d) = pages * page
  BY <1>1, ChipFacts, Division DEF DataSize
<1>7. DataSize(d) \in Nat /\ DataSize(d) % page = 0 /\ DataSize(d) \div page = pages
  <2>1. pages * page \in Nat /\ (pages * page) % page = 0 /\ (pages * page) \div page = pages
    BY <1>1, <1>6, Multiple
  <2> QED
    BY <1>6, <2>1
<1>8. DataSize(d) <= Chip[d].raw
  <2>1. PICK extra \in Nat, bytes \in Nat : extra = Chip[d].extra /\ bytes = Chip[d].raw
    BY ChipFacts
  <2>2. pages * page + 0 * page <= (bytes \div (page + extra)) * page
    BY <1>1, <1>6, <2>1, Order
  <2>3. pages * (page + extra) + 0 * (page + extra) <= bytes
    BY <1>1, <1>6, <2>1, <2>2, PagesFit
  <2>4. /\ pages * (page + extra) = pages * page + pages * extra
        /\ pages * page \in Nat /\ pages * extra \in Nat /\ 0 * (page + extra) = 0
    BY <1>6, Order
  <2> QED
    BY <1>6, <2>1, <2>3, <2>4
<1> QED
  BY <1>1, <1>2, <1>3, <1>4, <1>5, <1>6, <1>7, <1>8

\* A request for whole pages of the data areas: the pages' raw bytes are in the device.
LEMMA AddressFits ==
  ASSUME NEW d \in Ids, Probed(d), NEW ofs \in Nat, NEW len \in Nat, NEW pages,
         ~Misaligned(d, ofs), len % mtd[d].writesize = 0, ofs + len <= mtd[d].size,
         pages = len \div mtd[d].writesize
  PROVE  /\ Address(d, ofs) = (ofs \div mtd[d].writesize) * (mtd[d].writesize + mtd[d].oobsize)
         /\ Address(d, ofs) \in Nat /\ pages \in Nat
         /\ pages * (mtd[d].writesize + mtd[d].oobsize) \in Nat
         /\ Address(d, ofs) + pages * (mtd[d].writesize + mtd[d].oobsize) <= Chip[d].raw
<1>1. PICK page \in Nat, extra \in Nat :
        page = mtd[d].writesize /\ extra = mtd[d].oobsize /\ page >= 1
        /\ page = Chip[d].page /\ extra = Chip[d].extra
  BY ChipFacts DEF Probed
<1>2. PICK k \in Nat : k = ofs \div page /\ ofs = k * page
  BY <1>1, Whole DEF Misaligned
<1>3. pages \in Nat /\ len = pages * page
  BY <1>1, Whole
<1>4. k * page + pages * page <= (Chip[d].raw \div (page + extra)) * page
  BY <1>1, <1>2, <1>3 DEF Probed, DataSize
<1>5. k * (page + extra) + pages * (page + extra) <= Chip[d].raw
  BY <1>1, <1>2, <1>3, <1>4, PagesFit, ChipFacts
<1>6. Address(d, ofs) = Wide(k * (page + extra))
  BY <1>1, <1>2 DEF Address
<1>7. k * (page + extra) \in Nat /\ pages * (page + extra) \in Nat
  <2>1. PICK raw_page \in Nat : raw_page = page + extra
    BY <1>1
  <2>2. \A a \in Nat : a * raw_page \in Nat
    BY Order
  <2> QED
    BY <1>3, <2>1, <2>2
<1>8. Address(d, ofs) = k * (page + extra)
  <2>1. PICK addr \in Nat, more \in Nat :
          addr = k * (page + extra) /\ more = pages * (page + extra) /\ addr + more <= Chip[d].raw
    BY <1>5, <1>7
  <2>2. addr < 2^WideBits
    BY <2>1, ChipFacts, Limits
  <2> QED
    BY <1>6, <2>1, <2>2, WideFacts
<1> QED
  BY <1>1, <1>2, <1>3, <1>5, <1>7, <1>8

\* A block's address is in the device.
LEMMA BlockAddressFits ==
  ASSUME NEW d \in Ids, Probed(d), NEW ofs \in Nat, ~NoBlock(d, ofs)
  PROVE  BlockAddress(d, ofs) \in Nat /\ BlockAddress(d, ofs) <= Chip[d].raw
<1>1. PICK page \in Nat, extra \in Nat :
        page = mtd[d].writesize /\ extra = mtd[d].oobsize /\ page >= 1
        /\ page = Chip[d].page /\ extra = Chip[d].extra
  BY ChipFacts DEF Probed
<1>2. PICK block : block = Chip[d].erase \div (page + extra)
  OBVIOUS
<1>3. /\ block \in Nat /\ block * page \in Nat /\ block * page >= 1
      /\ (block * page) \div page = block /\ mtd[d].erasesize = block * page
      /\ DataSize(d) \in Nat
  BY <1>1, <1>2, BlockFacts DEF Probed
<1>4. PICK b \in Nat : b = ofs \div (block * page) /\ ofs = b * (block * page)
  <2>1. PICK bytes \in Nat : bytes = block * page /\ bytes >= 1
    BY <1>3
  <2>2. ofs % bytes = 0
    BY <1>3, <2>1 DEF NoBlock
  <2>3. bytes >= 1
    BY <2>1
  <2>4. ofs \div bytes \in Nat /\ ofs = (ofs \div bytes) * bytes
    BY <2>2, <2>3, Whole
  <2> QED
    BY <2>1, <2>4
<1>5. PICK k \in Nat : k = b * block
  BY <1>3, <1>4, Order
<1>6. k * page = ofs
  BY <1>1, <1>3, <1>4, <1>5
<1>7. k * page + 0 * page <= (Chip[d].raw \div (page + extra)) * page
  BY <1>1, <1>3, <1>6 DEF NoBlock, Probed, DataSize
<1>8. k * (page + extra) + 0 * (page + extra) <= Chip[d].raw
  BY <1>1, <1>7, PagesFit, ChipFacts
<1>9. BlockAddress(d, ofs) = k * (page + extra)
  BY <1>1, <1>3, <1>4, <1>5 DEF BlockAddress
<1>10. PICK raw_page \in Nat : raw_page = page + extra
  BY <1>1
<1>11. k * raw_page \in Nat /\ 0 * raw_page = 0
  BY <1>5, <1>10, Order
<1> QED
  BY <1>8, <1>9, <1>10, <1>11

-----------------------------------------------------------------------------
(* Results and bytes. *)

Commands == [dev : Ids, addr : Nat, len : Nat]
RawOK(r) == DOMAIN r = Ids /\ \A d \in Ids : r[d] \in [0 .. Chip[d].raw - 1 -> Byte]

LEMMA CommandFields ==
  ASSUME NEW d, NEW addr, NEW len
  PROVE  /\ Command(d, addr, len).dev = d /\ Command(d, addr, len).addr = addr
         /\ Command(d, addr, len).len = len
         /\ d \in Ids /\ addr \in Nat /\ len \in Nat => Command(d, addr, len) \in Commands
BY DEF Command, Commands

\* What a command takes of a buffer.
LEMMA TakenBytes ==
  ASSUME NEW c \in Commands, NEW buf \in Bufs(c.dev, c.len), NEW k \in Result(c)
  PROVE  /\ k \in Nat /\ k <= c.len
         /\ SubSeq(buf, 1, k) \in Seq(Byte) /\ Len(SubSeq(buf, 1, k)) = k
<1>1. PICK len \in Nat, addr \in Nat, bytes \in Nat :
        len = c.len /\ addr = c.addr /\ bytes = Chip[c.dev].raw
  BY ChipFacts DEF Commands
<1>2. k \in 0 .. len /\ (k = 0 \/ addr + k <= bytes)
  BY <1>1 DEF Result
<1>3. PICK n \in Nat : n = (IF len <= bytes THEN len ELSE bytes) /\ k <= n /\ k \in Nat
  BY <1>2
<1>4. buf \in [1 .. n -> Byte]
  BY <1>1, <1>3 DEF Bufs
<1>5. \A j \in 1 .. k : buf[j] \in Byte
  BY <1>3, <1>4
<1>6. SubSeq(buf, 1, k) \in Seq(Byte) /\ Len(SubSeq(buf, 1, k)) = k
  BY <1>3, <1>5, SubSeqProperties
<1> QED
  BY <1>1, <1>2, <1>6

LEMMA StoredOK ==
  ASSUME NEW r, RawOK(r), NEW c \in Commands, NEW bytes \in Seq(Byte)
  PROVE  RawOK(Stored(r, c, bytes))
<1>1. c.dev \in Ids /\ c.addr \in Nat /\ Len(bytes) \in Nat
  BY LenProperties DEF Commands
<1> DEFINE after == [a \in DOMAIN r[c.dev] |-> IF a >= c.addr /\ a < c.addr + Len(bytes)
                                               THEN bytes[a - c.addr + 1] ELSE r[c.dev][a]]
<1>2. Stored(r, c, bytes) = [r EXCEPT ![c.dev] = after]
  BY DEF Stored
<1>3. after \in [0 .. Chip[c.dev].raw - 1 -> Byte]
  <2>1. ASSUME NEW a \in 0 .. Chip[c.dev].raw - 1, a >= c.addr, a < c.addr + Len(bytes)
        PROVE  bytes[a - c.addr + 1] \in Byte
    <3>1. a - c.addr + 1 \in 1 .. Len(bytes)
      BY <1>1, <2>1
    <3> QED
      BY <3>1, ElementOfSeq
  <2> QED
    BY <1>1, <2>1 DEF RawOK
<1> HIDE DEF after
<1> QED
  BY <1>1, <1>2, <1>3 DEF RawOK

\* What Stored leaves: the bytes given, from the address on, and all others as they were.
LEMMA StoredBytes ==
  ASSUME NEW r, RawOK(r), NEW c \in Commands, NEW bytes, Len(bytes) \in Nat, NEW e \in Ids,
         NEW a \in 0 .. Chip[e].raw - 1
  PROVE  Stored(r, c, bytes)[e][a] =
           IF e = c.dev /\ a >= c.addr /\ a < c.addr + Len(bytes)
           THEN bytes[a - c.addr + 1] ELSE r[e][a]
<1>1. c.dev \in Ids /\ DOMAIN r = Ids /\ DOMAIN r[e] = 0 .. Chip[e].raw - 1
  BY DEF Commands, RawOK
<1> DEFINE after == [x \in DOMAIN r[c.dev] |-> IF x >= c.addr /\ x < c.addr + Len(bytes)
                                               THEN bytes[x - c.addr + 1] ELSE r[c.dev][x]]
<1>2. Stored(r, c, bytes) = [r EXCEPT ![c.dev] = after]
  BY DEF Stored
<1>3. CASE e = c.dev
  <2>1. Stored(r, c, bytes)[e] = after
    BY <1>1, <1>2, <1>3
  <2> QED
    BY <1>1, <1>3, <2>1
<1>4. CASE e # c.dev
  <2> HIDE DEF after
  <2>1. Stored(r, c, bytes)[e] = r[e]
    BY <1>1, <1>2, <1>4
  <2> QED
    BY <1>4, <2>1
<1> QED
  BY <1>3, <1>4

\* What a call leaves as it was.
LEMMA CallKeeps ==
  ASSUME TypeOK, ProbedSoFar, pc = "run", UNCHANGED Calling,
         RawOK(raw'), DOMAIN bad' = Ids, \A d \in Ids : bad'[d] \subseteq Nat, cmds' \in Seq(Commands)
  PROVE  TypeOK' /\ ProbedSoFar'
<1>1. UNCHANGED <<hw, pc, i, count, mtd, names, listed>>
  BY DEF Calling
<1>2. TypeOK'
  BY <1>1 DEF TypeOK, RawOK, Commands, Row
<1>3. ProbedSoFar'
  BY <1>1 DEF ProbedSoFar, Probed, DataSize
<1> QED
  BY <1>2, <1>3

\* A request that is rejected sends no command.
LEMMA InvalidCall ==
  ASSUME TypeOK, ProbedSoFar, pc = "run", UNCHANGED Calling, NEW r, Invalid(r)
  PROVE  TypeOK' /\ ProbedSoFar' /\ CommandsInDevice'
<1>1. cmds' = <<>> /\ raw' = raw /\ bad' = bad
  BY DEF Invalid
<1>2. TypeOK' /\ ProbedSoFar'
  BY <1>1, CallKeeps, EmptySeq DEF TypeOK, RawOK
<1>3. CommandsInDevice'
  BY <1>1 DEF CommandsInDevice
<1> QED
  BY <1>2, <1>3

\* One command inside the device.
LEMMA OneCommand ==
  ASSUME TypeOK, ProbedSoFar, pc = "run", UNCHANGED Calling,
         RawOK(raw'), DOMAIN bad' = Ids, \A d \in Ids : bad'[d] \subseteq Nat,
         NEW c \in Commands, InDevice(c), cmds' = << c >>
  PROVE  TypeOK' /\ ProbedSoFar' /\ CommandsInDevice'
<1>1. cmds' \in Seq(Commands)
  OBVIOUS
<1>2. TypeOK' /\ ProbedSoFar'
  BY <1>1, CallKeeps
<1>3. CommandsInDevice'
  <2>1. \A k \in DOMAIN cmds' : cmds'[k] = c
    OBVIOUS
  <2> QED
    BY <2>1 DEF CommandsInDevice, InDevice
<1> QED
  BY <1>2, <1>3

\* What is known of a device in use and a request for it.
LEMMA InUse ==
  ASSUME TypeOK, ProbedSoFar, NEW d \in Working
  PROVE  /\ d \in Ids /\ Probed(d) /\ RawOK(raw) /\ DOMAIN bad = Ids /\ \A e \in Ids : bad[e] \subseteq Nat
         /\ mtd[d].writesize \in Nat /\ mtd[d].writesize >= 1 /\ mtd[d].oobsize \in Nat
         /\ mtd[d].size \in Nat /\ mtd[d].writesize = Chip[d].page /\ mtd[d].oobsize = Chip[d].extra
         /\ Offsets(d) \subseteq Nat /\ Lengths(d) \subseteq Nat /\ mtd[d].size < 2^WideBits
<1>1. d \in Ids /\ Probed(d)
  BY DEF Working, ProbedSoFar
<1>2. DataSize(d) \in Nat
  BY <1>1, BlockFacts
<1>3. /\ mtd[d].writesize = Chip[d].page /\ mtd[d].oobsize = Chip[d].extra
      /\ mtd[d].size = DataSize(d)
  BY <1>1 DEF Probed
<1>4. Chip[d].page \in Nat /\ Chip[d].page >= 1 /\ Chip[d].extra \in Nat
  BY <1>1, ChipFacts
<1>5. Offsets(d) \subseteq Nat /\ Lengths(d) \subseteq Nat
  <2>1. FarOffsets \subseteq Nat /\ FarLengths \subseteq Nat
    BY ChipAssumption
  <2>2. Word(2 * Chip[d].page) \in Nat
    BY <1>4, WordFacts
  <2>3. Offsets(d) \subseteq Nat
    <3>1. PICK end \in Nat : end = DataSize(d) + 1
      BY <1>2
    <3>2. Offsets(d) = (0 .. end) \cup FarOffsets
      BY <3>1 DEF Offsets
    <3>3. 0 .. end \subseteq Nat
      BY <3>1
    <3> QED
      BY <2>1, <3>2, <3>3
  <2>4. Lengths(d) \subseteq Nat
    <3>1. {0, 1, Chip[d].page, Word(2 * Chip[d].page)} \subseteq Nat
      BY <1>4, <2>2
    <3> QED
      BY <2>1, <3>1 DEF Lengths
  <2> QED
    BY <2>3, <2>4
<1>6. RawOK(raw) /\ DOMAIN bad = Ids /\ \A e \in Ids : bad[e] \subseteq Nat
  BY DEF TypeOK, RawOK
<1>7. mtd[d].size < 2^WideBits
  <2>1. PICK bytes \in Nat, m \in Nat, n \in Nat :
          bytes = Chip[d].raw /\ m = 2^WordBits /\ n = 2^WideBits /\ bytes + m < n
    BY <1>1, ChipFacts, Limits
  <2>2. DataSize(d) <= Chip[d].raw
    BY <1>1, BlockFacts
  <2> QED
    BY <1>2, <1>3, <2>1, <2>2
<1> QED
  BY <1>1, <1>2, <1>3, <1>4, <1>5, <1>6, <1>7

\* The fields of an OOB request are words.
LEMMA OpsTypes ==
  ASSUME TypeOK, ProbedSoFar, NEW d \in Working, NEW ops \in Ops(d)
  PROVE  /\ ops \in [len : Nat, ooblen : Nat, ooboffs : Nat, datbuf : BOOLEAN, oobbuf : BOOLEAN]
<1>1. Chip[d].page \in Nat /\ Chip[d].extra \in Nat /\ Word(Chip[d].page + 1) \in Nat
  BY InUse, ChipFacts, WordFacts
<1>2. CASE ops \in FarOps
  <2>1. ops \in AnyOps
    BY <1>2, ChipAssumption
  <2>2. 0 .. 2^WordBits - 1 \subseteq Nat
    BY Limits
  <2> QED
    BY <2>1, <2>2 DEF AnyOps
<1>3. CASE ops \notin FarOps
  BY <1>1, <1>3 DEF Ops
<1> QED
  BY <1>2, <1>3

\* An OOB request has the fields of its mtd_oob_ops.
LEMMA OobFields ==
  ASSUME TypeOK, ProbedSoFar, NEW d \in Working, NEW op, NEW ofs, NEW ops \in Ops(d), NEW r,
         r = With([op |-> op, dev |-> d, ofs |-> ofs], ops)
  PROVE  /\ DOMAIN r = {"op", "dev", "ofs", "len", "ooblen", "ooboffs", "datbuf", "oobbuf"}
         /\ r["op"] = op /\ r["dev"] = d /\ r["ofs"] = ofs
         /\ \A x \in {"len", "ooblen", "ooboffs", "datbuf", "oobbuf"} : r[x] = ops[x]
<1>1. PICK q : q = [op |-> op, dev |-> d, ofs |-> ofs]
  OBVIOUS
<1>2. DOMAIN q = {"op", "dev", "ofs"} /\ q["op"] = op /\ q["dev"] = d /\ q["ofs"] = ofs
  BY <1>1
<1>3. DOMAIN ops = {"len", "ooblen", "ooboffs", "datbuf", "oobbuf"}
  BY OpsTypes
<1>4. /\ DOMAIN r = DOMAIN q \cup DOMAIN ops
      /\ \A x \in DOMAIN q : r[x] = q[x]
      /\ \A x \in DOMAIN ops \ DOMAIN q : r[x] = ops[x]
  BY <1>1, Zenon DEF With
<1>5. DOMAIN r = {"op", "dev", "ofs", "len", "ooblen", "ooboffs", "datbuf", "oobbuf"}
  BY <1>2, <1>3, <1>4
<1>6. DOMAIN ops \ DOMAIN q = {"len", "ooblen", "ooboffs", "datbuf", "oobbuf"}
  BY <1>2, <1>3
<1> QED
  BY <1>2, <1>4, <1>5, <1>6

-----------------------------------------------------------------------------
(* The operations, when no sum made of the request wraps: each sends        *)
(* commands for bytes of its device only.                                   *)

LEMMA EraseFits ==
  ASSUME TypeOK, ProbedSoFar, pc = "run", NEW d \in Working, NEW ofs \in Nat, NEW asked \in Nat,
         goldfish_nand_erase(d, ofs, asked), ofs + Word(asked) < 2^WideBits
  PROVE  TypeOK' /\ ProbedSoFar' /\ CommandsInDevice'
<1>1. PICK m \in Nat : m = 2^WordBits /\ m >= 1
  BY ChipAssumption
<1>2. PICK len \in Nat : len = asked % m
  BY <1>1, RemainderBound
<1>3. PICK r : r = [op |-> "erase", dev |-> d, ofs |-> ofs, len |-> asked, callback |-> FALSE]
  OBVIOUS
<1>4. PICK c : c = Command(d, Address(d, ofs), RawLength(d, len))
  OBVIOUS
<1>5. /\ UNCHANGED Calling
      /\ IF ofs + len > mtd[d].size \/ Misaligned(d, ofs) \/ len % mtd[d].writesize # 0
         THEN Invalid(r)
         ELSE \E k \in Result(c) :
                /\ raw' = Stored(raw, c, [j \in 1 .. k |-> Erased])
                /\ cmds' = << c >> /\ UNCHANGED bad
  <2>1. len = Word(asked)
    BY <1>1, <1>2 DEF Word
  <2>2. PastEnd(d, ofs, len) <=> ofs + len > mtd[d].size
    BY <2>1, PastEndFacts
  <2> QED
    BY <1>3, <1>4, <2>1, <2>2 DEF goldfish_nand_erase
<1>6. CASE ofs + len > mtd[d].size \/ Misaligned(d, ofs) \/ len % mtd[d].writesize # 0
  BY <1>5, <1>6, InvalidCall
<1>7. CASE ~(ofs + len > mtd[d].size \/ Misaligned(d, ofs) \/ len % mtd[d].writesize # 0)
  <2>1. PICK k \in Result(c) : /\ raw' = Stored(raw, c, [j \in 1 .. k |-> Erased])
                               /\ cmds' = << c >> /\ UNCHANGED bad
    BY <1>5, <1>7
  <2>2. PICK pages : pages = len \div mtd[d].writesize
    OBVIOUS
  <2>3. PICK all : all = pages * (mtd[d].writesize + mtd[d].oobsize)
    OBVIOUS
  <2>4. /\ Address(d, ofs) \in Nat /\ all \in Nat /\ Address(d, ofs) + all <= Chip[d].raw
        /\ d \in Ids /\ Chip[d].raw \in Nat
    BY <1>7, <2>2, <2>3, InUse, AddressFits, ChipFacts
  <2>5. RawLength(d, len) = all % m
    BY <1>1, <2>2, <2>3 DEF RawLength, Word
  <2>6. RawLength(d, len) \in Nat /\ RawLength(d, len) <= all
    BY <1>1, <2>4, <2>5, RemainderBound
  <2>7. c \in Commands /\ InDevice(c) /\ c.len \in Nat
    BY <1>4, <2>4, <2>6, CommandFields DEF InDevice
  <2>8. k \in Nat /\ [j \in 1 .. k |-> Erased] \in Seq(Byte)
    BY <2>7, ChipAssumption DEF Result
  <2>9. RawOK(raw')
    BY <2>1, <2>7, <2>8, StoredOK, InUse
  <2> QED
    BY <1>5, <2>1, <2>7, <2>9, OneCommand, InUse
<1> QED
  BY <1>6, <1>7

\* The page of a read or a write is in the device.
LEMMA PageFits ==
  ASSUME TypeOK, ProbedSoFar, NEW d \in Working, NEW ofs \in Nat, NEW len \in Nat,
         ofs + len <= mtd[d].size, len = mtd[d].writesize, ~Misaligned(d, ofs)
  PROVE  /\ Address(d, ofs) \in Nat
         /\ Address(d, ofs) + mtd[d].writesize + mtd[d].oobsize <= Chip[d].raw
<1>1. PICK page \in Nat, extra \in Nat :
        page = mtd[d].writesize /\ extra = mtd[d].oobsize /\ page >= 1 /\ d \in Ids /\ Probed(d)
  BY InUse
<1>2. len % page = 0 /\ len \div page = 1
  <2>1. 1 * page = page
    BY <1>1
  <2> QED
    BY <1>1, <2>1, Multiple
<1>3. /\ Address(d, ofs) \in Nat /\ Address(d, ofs) + 1 * (page + extra) <= Chip[d].raw
  BY <1>1, <1>2, AddressFits
<1> QED
  BY <1>1, <1>3

LEMMA ReadFits ==
  ASSUME TypeOK, ProbedSoFar, pc = "run", NEW d \in Working, NEW from \in Nat, NEW len \in Nat,
         goldfish_nand_read(d, from, len), from + len < 2^WideBits
  PROVE  TypeOK' /\ ProbedSoFar' /\ CommandsInDevice'
<1>1. PICK r : r = [op |-> "read", dev |-> d, ofs |-> from, len |-> len]
  OBVIOUS
<1>2. PICK c : c = Command(d, Address(d, from), len)
  OBVIOUS
<1>3. /\ UNCHANGED Calling
      /\ IF from + len > mtd[d].size \/ len # mtd[d].writesize \/ Misaligned(d, from)
         THEN Invalid(r)
         ELSE cmds' = << c >> /\ UNCHANGED <<raw, bad>>
  BY <1>1, <1>2, PastEndFacts DEF goldfish_nand_read
<1>4. CASE from + len > mtd[d].size \/ len # mtd[d].writesize \/ Misaligned(d, from)
  BY <1>3, <1>4, InvalidCall
<1>5. CASE ~(from + len > mtd[d].size \/ len # mtd[d].writesize \/ Misaligned(d, from))
  <2>1. mtd[d].size \in Nat /\ mtd[d].writesize \in Nat /\ mtd[d].oobsize \in Nat /\ d \in Ids
    BY InUse
  <2>2. from + len <= mtd[d].size
    BY <1>5, <2>1
  <2>3. /\ Address(d, from) \in Nat
        /\ Address(d, from) + mtd[d].writesize + mtd[d].oobsize <= Chip[d].raw
    BY <1>5, <2>2, PageFits
  <2>4. Address(d, from) + len <= Chip[d].raw
    BY <1>5, <2>1, <2>3, ChipFacts
  <2>5. c \in Commands /\ InDevice(c)
    BY <1>2, <2>1, <2>3, <2>4, CommandFields DEF InDevice
  <2> QED
    BY <1>3, <1>5, <2>5, OneCommand, InUse
<1> QED
  BY <1>4, <1>5

LEMMA WriteFits ==
  ASSUME TypeOK, ProbedSoFar, pc = "run", NEW d \in Working, NEW to \in Nat, NEW len \in Nat,
         NEW buf \in Bufs(d, len), goldfish_nand_write(d, to, len, buf), to + len < 2^WideBits
  PROVE  TypeOK' /\ ProbedSoFar' /\ CommandsInDevice'
<1>1. PICK r : r = [op |-> "write", dev |-> d, ofs |-> to, len |-> len]
  OBVIOUS
<1>2. PICK c : c = Command(d, Address(d, to), len)
  OBVIOUS
<1>3. /\ UNCHANGED Calling
      /\ IF to + len > mtd[d].size \/ len # mtd[d].writesize \/ Misaligned(d, to)
         THEN Invalid(r)
         ELSE \E k \in Result(c) :
                /\ raw' = Stored(raw, c, SubSeq(buf, 1, k))
                /\ cmds' = << c >> /\ UNCHANGED bad
  BY <1>1, <1>2, PastEndFacts DEF goldfish_nand_write
<1>4. CASE to + len > mtd[d].size \/ len # mtd[d].writesize \/ Misaligned(d, to)
  BY <1>3, <1>4, InvalidCall
<1>5. CASE ~(to + len > mtd[d].size \/ len # mtd[d].writesize \/ Misaligned(d, to))
  <2>1. /\ mtd[d].size \in Nat /\ mtd[d].writesize \in Nat /\ mtd[d].oobsize \in Nat /\ d \in Ids
        /\ mtd[d].writesize = Chip[d].page /\ RawOK(raw)
    BY InUse
  <2>2. to + len <= mtd[d].size
    BY <1>5, <2>1
  <2>3. /\ Address(d, to) \in Nat
        /\ Address(d, to) + mtd[d].writesize + mtd[d].oobsize <= Chip[d].raw
    BY <1>5, <2>2, PageFits
  <2>4. Address(d, to) + len <= Chip[d].raw
    BY <1>5, <2>1, <2>3, ChipFacts
  <2>5. c \in Commands /\ InDevice(c) /\ c.dev = d /\ c.len = len
    BY <1>2, <2>1, <2>3, <2>4, CommandFields DEF InDevice
  <2>6. PICK k \in Result(c) : /\ raw' = Stored(raw, c, SubSeq(buf, 1, k))
                               /\ cmds' = << c >> /\ UNCHANGED bad
    BY <1>3, <1>5
  <2>7. SubSeq(buf, 1, k) \in Seq(Byte)
    BY <2>5, <2>6, TakenBytes
  <2>8. RawOK(raw')
    BY <2>1, <2>5, <2>6, <2>7, StoredOK
  <2> QED
    BY <1>3, <2>5, <2>6, <2>8, OneCommand, InUse
<1> QED
  BY <1>4, <1>5

\* The two calls about blocks.
LEMMA BlockFits ==
  ASSUME TypeOK, ProbedSoFar, pc = "run", NEW d \in Working, NEW ofs \in Nat,
         goldfish_nand_block_isbad(d, ofs) \/ goldfish_nand_block_markbad(d, ofs)
  PROVE  TypeOK' /\ ProbedSoFar' /\ CommandsInDevice'
<1>1. PICK c : c = Command(d, BlockAddress(d, ofs), 0)
  OBVIOUS
<1>2. /\ UNCHANGED Calling
      /\ IF NoBlock(d, ofs) THEN \E r : Invalid(r)
         ELSE /\ cmds' = << c >> /\ raw' = raw
              /\ bad' = bad \/ bad' = [bad EXCEPT ![d] = @ \cup {BlockOf(c)}]
  BY <1>1 DEF goldfish_nand_block_isbad, goldfish_nand_block_markbad
<1>3. CASE NoBlock(d, ofs)
  BY <1>2, <1>3, InvalidCall
<1>4. CASE ~NoBlock(d, ofs)
  <2>1. /\ d \in Ids /\ Probed(d) /\ RawOK(raw) /\ DOMAIN bad = Ids /\ \A e \in Ids : bad[e] \subseteq Nat
        /\ BlockAddress(d, ofs) \in Nat /\ BlockAddress(d, ofs) <= Chip[d].raw /\ Chip[d].raw \in Nat
    BY <1>4, InUse, BlockAddressFits, ChipFacts
  <2>2. c \in Commands /\ InDevice(c) /\ c.addr \in Nat /\ c.dev = d
    BY <1>1, <2>1, CommandFields DEF InDevice
  <2>3. BlockOf(c) \in Nat
    BY <2>1, <2>2, ChipFacts, Division DEF BlockOf
  <2>4. DOMAIN bad' = Ids /\ \A e \in Ids : bad'[e] \subseteq Nat
    BY <1>2, <1>4, <2>1, <2>3
  <2> QED
    BY <1>2, <1>4, <2>1, <2>2, <2>4, OneCommand
<1> QED
  BY <1>3, <1>4

\* Any offset of a page, even one just behind the last, has an address.
LEMMA AddressIsNat ==
  ASSUME TypeOK, ProbedSoFar, NEW d \in Working, NEW ofs \in Nat
  PROVE  Address(d, ofs) \in Nat
<1>1. PICK page \in Nat, raw_page \in Nat :
        page = mtd[d].writesize /\ raw_page = mtd[d].writesize + mtd[d].oobsize /\ page >= 1
  <2>1. mtd[d].writesize \in Nat /\ mtd[d].writesize >= 1 /\ mtd[d].oobsize \in Nat
    BY InUse
  <2> QED
    BY <2>1
<1>2. PICK k \in Nat : k = ofs \div page
  BY <1>1, Division
<1>3. k * raw_page \in Nat
  BY <1>1, <1>2, Order
<1> QED
  BY <1>1, <1>2, <1>3, WideFacts DEF Address

\* A page that begins before the end of the data areas ends there at the latest.
LEMMA LastPage ==
  ASSUME TypeOK, ProbedSoFar, NEW d \in Working, NEW ofs \in Nat,
         ofs < mtd[d].size, ~Misaligned(d, ofs)
  PROVE  ofs + mtd[d].writesize <= mtd[d].size
<1>1. PICK page \in Nat :
        page = mtd[d].writesize /\ page = Chip[d].page /\ page >= 1 /\ d \in Ids /\ Probed(d)
  BY InUse
<1>2. PICK pages : pages = Chip[d].raw \div (Chip[d].page + Chip[d].extra)
  OBVIOUS
<1>3. pages \in Nat /\ mtd[d].size = pages * page
  BY <1>1, <1>2, BlockFacts DEF Probed
<1>4. PICK k \in Nat : ofs = k * page
  <2>1. page >= 1 /\ ofs % page = 0
    BY <1>1 DEF Misaligned
  <2> QED
    BY <2>1, Whole
<1>5. pages <= k => pages * page <= k * page
  BY <1>1, <1>3, Order
<1>6. k + 1 <= pages
  BY <1>1, <1>3, <1>4, <1>5, Order
<1>7. (k + 1) * page <= pages * page /\ (k + 1) * page = k * page + page
  BY <1>1, <1>3, <1>4, <1>6, Order
<1> QED
  BY <1>1, <1>3, <1>4, <1>7

\* The commands of an OOB request, whatever its sums.
LEMMA OobSent ==
  ASSUME TypeOK, ProbedSoFar, NEW d \in Working, NEW ofs \in Nat, NEW ops \in Ops(d),
         NEW cs, cs = OobCommands(d, ofs, ops)
  PROVE  /\ cs[1] \in Commands /\ cs[1].dev = d /\ cs[1].len = DataLen(ops)
         /\ cs[1].addr = Address(d, ofs)
         /\ cs[2] \in Commands /\ cs[2].dev = d /\ cs[2].len = OobLen(ops)
         /\ cs[2].addr = Wide(Address(d, ofs) + Word(mtd[d].writesize + ops.ooboffs))
<1>1. /\ ops.len \in Nat /\ ops.ooblen \in Nat /\ ops.ooboffs \in Nat
      /\ ops.datbuf \in BOOLEAN /\ ops.oobbuf \in BOOLEAN
  BY OpsTypes
<1>2. DataLen(ops) \in Nat /\ OobLen(ops) \in Nat
  BY <1>1 DEF DataLen, OobLen
<1>3. PICK addr \in Nat, addr2 \in Nat :
        /\ addr = Address(d, ofs) /\ addr2 = Wide(addr + Word(mtd[d].writesize + ops.ooboffs))
  <2>1. Address(d, ofs) \in Nat /\ mtd[d].writesize \in Nat
    BY AddressIsNat, InUse
  <2>2. Word(mtd[d].writesize + ops.ooboffs) \in Nat
    BY <1>1, <2>1, WordFacts
  <2> QED
    BY <2>1, <2>2, WideFacts
<1>4. d \in Ids
  BY InUse
<1>5. cs[1] = Command(d, addr, DataLen(ops)) /\ cs[2] = Command(d, addr2, OobLen(ops))
  BY <1>3 DEF OobCommands
<1> QED
  BY <1>2, <1>3, <1>4, <1>5, CommandFields

OobException(d, ofs, ops) == ops.len = 0 /\ ofs = mtd[d].size

\* Neither sum made of an OOB request wraps.
NoOobWrap(ofs, ops) ==
  ofs + ops.len < 2^WideBits /\ ops.ooblen + ops.ooboffs < 2^WordBits

\* Then the end of the request is judged right, and its second command is for its OOB area.
LEMMA OobPlain ==
  ASSUME TypeOK, ProbedSoFar, NEW d \in Working, NEW ofs \in Nat, NEW ops \in Ops(d),
         NoOobWrap(ofs, ops)
  PROVE  /\ OobOutside(d, ofs, ops) <=>
              \/ ofs + ops.len > mtd[d].size \/ ops.ooblen + ops.ooboffs > mtd[d].oobsize
              \/ Misaligned(d, ofs)
         /\ ~OobOutside(d, ofs, ops) =>
              OobCommands(d, ofs, ops) =
                << Command(d, Address(d, ofs), DataLen(ops)),
                   Command(d, Address(d, ofs) + mtd[d].writesize + ops.ooboffs, OobLen(ops)) >>
<1>1. /\ ops.len \in Nat /\ ops.ooblen \in Nat /\ ops.ooboffs \in Nat
  BY OpsTypes
<1>2. PICK page \in Nat, extra \in Nat, size \in Nat :
        /\ page = mtd[d].writesize /\ extra = mtd[d].oobsize /\ size = mtd[d].size
        /\ page = Chip[d].page /\ extra = Chip[d].extra /\ page >= 1
        /\ d \in Ids /\ Probed(d)
  BY InUse
<1>3. OobOutside(d, ofs, ops) <=>
        ofs + ops.len > size \/ ops.ooblen + ops.ooboffs > extra \/ Misaligned(d, ofs)
  <2>1. PastEnd(d, ofs, ops.len) <=> ofs + ops.len > mtd[d].size
    BY <1>1, PastEndFacts DEF NoOobWrap
  <2>2. Word(ops.ooblen + ops.ooboffs) = ops.ooblen + ops.ooboffs
    BY <1>1, WordFacts DEF NoOobWrap
  <2> QED
    BY <1>2, <2>1, <2>2 DEF OobOutside
<1>4. ASSUME ~OobOutside(d, ofs, ops)
      PROVE  OobCommands(d, ofs, ops) =
               << Command(d, Address(d, ofs), DataLen(ops)),
                  Command(d, Address(d, ofs) + page + ops.ooboffs, OobLen(ops)) >>
  <2>1. ofs + 0 <= size /\ ops.ooblen + ops.ooboffs <= extra /\ ~Misaligned(d, ofs)
    BY <1>1, <1>2, <1>3, <1>4
  <2>2. 0 % page = 0 /\ 0 \div page = 0
    <3>1. 0 * page = 0 /\ (0 * page) % page = 0 /\ (0 * page) \div page = 0
      BY <1>2, Multiple
    <3> QED
      BY <3>1
  <2>3. PICK addr \in Nat, bytes \in Nat :
          addr = Address(d, ofs) /\ bytes = Chip[d].raw /\ addr <= bytes
    <3>1. 0 * (page + extra) = 0
      BY <1>2
    <3>2. Address(d, ofs) \in Nat /\ Address(d, ofs) + 0 * (page + extra) <= Chip[d].raw
      BY <1>2, <2>1, <2>2, AddressFits
    <3> QED
      BY <1>2, <3>1, <3>2, ChipFacts
  <2>4. PICK m \in Nat, n \in Nat :
          m = 2^WordBits /\ n = 2^WideBits /\ page + extra < m /\ bytes + m < n
    BY <1>2, <2>3, Limits
  <2>5. PICK o \in Nat : o = page + ops.ooboffs /\ o < m
    BY <1>1, <2>1, <2>4
  <2>6. Word(page + ops.ooboffs) = o
    BY <2>4, <2>5, WordFacts
  <2>7. Wide(addr + o) = addr + o
    BY <2>3, <2>4, <2>5, WideFacts
  <2>8. addr + o = addr + page + ops.ooboffs
    BY <1>1, <2>5
  <2> QED
    BY <1>2, <2>3, <2>6, <2>7, <2>8 DEF OobCommands
<1> QED
  BY <1>2, <1>3, <1>4

LEMMA OobFits ==
  ASSUME TypeOK, ProbedSoFar, NEW d \in Working, NEW ofs \in Nat, NEW ops \in Ops(d),
         NoOobWrap(ofs, ops),
         ~OobOutside(d, ofs, ops), ops.datbuf => ops.len = 0 \/ ops.len = mtd[d].writesize,
         NEW cs, cs = OobCommands(d, ofs, ops)
  PROVE  /\ cs[1] \in Commands /\ cs[2] \in Commands
         /\ cs[1].len = DataLen(ops) /\ cs[2].len = OobLen(ops)
         /\ ops.datbuf => InDevice(cs[1]) \/ OobException(d, ofs, ops)
         /\ ops.oobbuf => InDevice(cs[2]) \/ OobException(d, ofs, ops)
<1>1. /\ ops.len \in Nat /\ ops.ooblen \in Nat /\ ops.ooboffs \in Nat
      /\ ops.datbuf \in BOOLEAN /\ ops.oobbuf \in BOOLEAN
  BY OpsTypes
<1>2. PICK page \in Nat, extra \in Nat, size \in Nat, addr \in Nat :
        /\ page = mtd[d].writesize /\ extra = mtd[d].oobsize /\ size = mtd[d].size
        /\ addr = Address(d, ofs) /\ page = Chip[d].page /\ extra = Chip[d].extra
  BY InUse, AddressIsNat
<1>3. d \in Ids /\ Chip[d].raw \in Nat
  BY InUse, ChipFacts
<1>4. /\ ofs + ops.len <= size /\ ops.ooblen + ops.ooboffs <= extra /\ ~Misaligned(d, ofs)
  <2>1. ~(\/ ofs + ops.len > mtd[d].size \/ ops.ooblen + ops.ooboffs > mtd[d].oobsize
          \/ Misaligned(d, ofs))
    BY OobPlain
  <2> QED
    BY <1>1, <1>2, <2>1
<1>5. PICK len1 \in Nat, len2 \in Nat :
        /\ len1 = (IF ops.datbuf THEN ops.len ELSE 0) /\ len2 = (IF ops.oobbuf THEN ops.ooblen ELSE 0)
        /\ len1 = DataLen(ops) /\ len2 = OobLen(ops)
  BY <1>1 DEF DataLen, OobLen
<1>6. cs[1] = Command(d, addr, len1) /\ cs[2] = Command(d, addr + page + ops.ooboffs, len2)
  <2>1. cs = << Command(d, Address(d, ofs), DataLen(ops)),
                Command(d, Address(d, ofs) + mtd[d].writesize + ops.ooboffs, OobLen(ops)) >>
    BY OobPlain
  <2> QED
    BY <1>2, <1>5, <2>1
<1>7. addr + page + ops.ooboffs \in Nat
  BY <1>1
<1>8. /\ cs[1] \in Commands /\ cs[1].dev = d /\ cs[1].addr = addr /\ cs[1].len = len1
      /\ cs[2] \in Commands /\ cs[2].dev = d /\ cs[2].addr = addr + page + ops.ooboffs
      /\ cs[2].len = len2
  BY <1>3, <1>6, <1>7, CommandFields
<1>9. len1 <= page /\ len2 <= extra
  BY <1>1, <1>2, <1>4, <1>5
<1>10. ASSUME ofs < size
       PROVE  addr + page + extra <= Chip[d].raw
  <2>1. ofs + mtd[d].writesize <= mtd[d].size
    BY <1>2, <1>4, <1>10, LastPage
  <2> QED
    BY <1>2, <1>4, <2>1, PageFits
<1>11. CASE ofs < size
  <2>1. addr + page + extra <= Chip[d].raw
    BY <1>10, <1>11
  <2>2. len2 <= ops.ooblen
    BY <1>1, <1>5
  <2>3. InDevice(cs[1]) /\ InDevice(cs[2])
    BY <1>1, <1>3, <1>4, <1>8, <1>9, <2>1, <2>2 DEF InDevice
  <2> QED
    BY <1>5, <1>8, <2>3
<1>12. CASE ~(ofs < size)
  <2>1. PICK len \in Nat : len = ops.len /\ ofs + len <= size
    BY <1>1, <1>4
  <2>2. len = 0 /\ ofs = size
    BY <1>12, <2>1
  <2>3. OobException(d, ofs, ops)
    BY <1>2, <2>1, <2>2 DEF OobException
  <2> QED
    BY <1>5, <1>8, <2>3
<1> QED
  BY <1>11, <1>12

\* What is sent of two commands.
LEMMA IssuedCommands ==
  ASSUME NEW cs, cs[1] \in Commands, cs[2] \in Commands,
         NEW ops, ops.datbuf \in BOOLEAN, ops.oobbuf \in BOOLEAN
  PROVE  /\ Issued(cs, ops) \in Seq(Commands)
         /\ \A k \in DOMAIN Issued(cs, ops) : \/ Issued(cs, ops)[k] = cs[1] /\ ops.datbuf
                                              \/ Issued(cs, ops)[k] = cs[2] /\ ops.oobbuf
<1>1. ASSUME NEW c \in Commands, NEW buffer \in BOOLEAN
      PROVE  /\ Sent(c, buffer) \in Seq(Commands)
             /\ \A k \in 1 .. Len(Sent(c, buffer)) : Sent(c, buffer)[k] = c /\ buffer
  <2>1. CASE buffer
    <3>1. Sent(c, buffer) = << c >>
      BY <2>1 DEF Sent
    <3>2. << c >> \in Seq(Commands) /\ \A k \in 1 .. Len(<< c >>) : << c >>[k] = c
      OBVIOUS
    <3> QED
      BY <2>1, <3>1, <3>2, Zenon
  <2>2. CASE ~buffer
    <3>1. Sent(c, buffer) = << >>
      BY <2>2 DEF Sent
    <3> QED
      BY <3>1, EmptySeq
  <2> QED
    BY <2>1, <2>2
<1>2. PICK s \in Seq(Commands), t \in Seq(Commands) : s = Sent(cs[1], ops.datbuf) /\ t = Sent(cs[2], ops.oobbuf)
  BY <1>1
<1>3. Issued(cs, ops) = s \o t
  BY <1>2 DEF Issued
<1>4. /\ s \o t \in Seq(Commands) /\ Len(s \o t) = Len(s) + Len(t)
      /\ \A k \in 1 .. Len(s) + Len(t) : (s \o t)[k] = IF k <= Len(s) THEN s[k] ELSE t[k - Len(s)]
  BY ConcatProperties
<1>5. Len(s) \in Nat /\ Len(t) \in Nat /\ DOMAIN (s \o t) = 1 .. Len(s) + Len(t)
  BY <1>4, LenProperties
<1>6. ASSUME NEW k \in DOMAIN (s \o t)
      PROVE  \/ (s \o t)[k] = cs[1] /\ ops.datbuf
             \/ (s \o t)[k] = cs[2] /\ ops.oobbuf
  <2>1. CASE k <= Len(s)
    <3>1. (s \o t)[k] = s[k] /\ k \in 1 .. Len(s)
      BY <1>4, <1>5, <2>1
    <3> QED
      BY <1>1, <1>2, <3>1
  <2>2. CASE ~(k <= Len(s))
    <3>1. (s \o t)[k] = t[k - Len(s)] /\ k - Len(s) \in 1 .. Len(t)
      BY <1>4, <1>5, <2>2
    <3> QED
      BY <1>1, <1>2, <3>1
  <2> QED
    BY <2>1, <2>2
<1> QED
  BY <1>3, <1>4, <1>6

\* The calls about a page and its OOB area leave commands inside the device, or
\* the ones behind the last page that CommandsInDevice excepts.
LEMMA OobCall ==
  ASSUME TypeOK, ProbedSoFar, pc = "run", UNCHANGED Calling, NEW d \in Working, NEW ofs \in Nat,
         NEW ops \in Ops(d), NoOobWrap(ofs, ops), ~OobOutside(d, ofs, ops),
         ops.datbuf => ops.len = 0 \/ ops.len = mtd[d].writesize,
         NEW cs, cs = OobCommands(d, ofs, ops), cmds' = Issued(cs, ops),
         RawOK(raw'), bad' = bad, NEW op \in {"read_oob", "write_oob"}, NEW results,
         ret' = With(With([op |-> op, dev |-> d, ofs |-> ofs], ops), results)
  PROVE  TypeOK' /\ ProbedSoFar' /\ CommandsInDevice'
<1>1. /\ cs[1] \in Commands /\ cs[2] \in Commands
      /\ ops.datbuf \in BOOLEAN /\ ops.oobbuf \in BOOLEAN
      /\ ops.datbuf => InDevice(cs[1]) \/ OobException(d, ofs, ops)
      /\ ops.oobbuf => InDevice(cs[2]) \/ OobException(d, ofs, ops)
  BY OobFits, OpsTypes
<1>2. /\ cmds' \in Seq(Commands)
      /\ \A k \in DOMAIN cmds' : InDevice(cmds'[k]) \/ OobException(d, ofs, ops)
  BY <1>1, IssuedCommands
<1>3. TypeOK' /\ ProbedSoFar'
  BY <1>2, CallKeeps, InUse
<1>4. ret'.op = op /\ ret'.dev = d /\ ret'.ofs = ofs /\ ret'.len = ops.len
  <2>1. PICK r : r = [op |-> op, dev |-> d, ofs |-> ofs]
    OBVIOUS
  <2>2. DOMAIN r = {"op", "dev", "ofs"} /\ r["op"] = op /\ r["dev"] = d /\ r["ofs"] = ofs
    BY <2>1
  <2>3. "len" \in DOMAIN ops \ DOMAIN r
    BY <2>2, OpsTypes
  <2>4. PICK s : s = With(r, ops)
    OBVIOUS
  <2>5. /\ DOMAIN s = DOMAIN r \cup DOMAIN ops
        /\ \A x \in DOMAIN r : s[x] = r[x]
        /\ \A x \in DOMAIN ops \ DOMAIN r : s[x] = ops[x]
    BY <2>4, Zenon DEF With
  <2>6. ret' = With(s, results)
    BY <2>1, <2>4
  <2>7. \A x \in DOMAIN s : ret'[x] = s[x]
    BY <2>6, Zenon DEF With
  <2>8. ret'["op"] = op /\ ret'["dev"] = d /\ ret'["ofs"] = ofs
    BY <2>2, <2>5, <2>7
  <2>9. ret'["len"] = ops["len"]
    BY <2>3, <2>5, <2>7
  <2> QED
    BY <2>8, <2>9
<1>5. mtd' = mtd
  BY DEF Calling
<1>6. CommandsInDevice'
  BY <1>2, <1>4, <1>5 DEF CommandsInDevice, InDevice, OobException
<1> QED
  BY <1>3, <1>6

LEMMA ReadOobFits ==
  ASSUME TypeOK, ProbedSoFar, pc = "run", NEW d \in Working, NEW ofs \in Nat, NEW ops \in Ops(d),
         NoOobWrap(ofs, ops), goldfish_nand_read_oob(d, ofs, ops)
  PROVE  TypeOK' /\ ProbedSoFar' /\ CommandsInDevice'
<1>1. PICK cs : cs = OobCommands(d, ofs, ops)
  OBVIOUS
<1>2. PICK r : r = With([op |-> "read_oob", dev |-> d, ofs |-> ofs], ops)
  OBVIOUS
<1> DEFINE rejected ==
      OobOutside(d, ofs, ops) \/ (ops.datbuf /\ ops.len # 0 /\ ops.len # mtd[d].writesize)
<1>3. /\ UNCHANGED Calling
      /\ IF rejected THEN Invalid(r)
         ELSE /\ \E results : ret' = With(r, results)
              /\ cmds' = Issued(cs, ops) /\ UNCHANGED <<raw, bad>>
  BY <1>1, <1>2 DEF goldfish_nand_read_oob
<1>4. CASE rejected
  BY <1>3, <1>4, InvalidCall
<1>5. CASE ~rejected
  <2>1. PICK results : ret' = With(r, results)
    BY <1>3, <1>5
  <2>2. RawOK(raw)
    BY InUse
  <2> QED
    BY <1>1, <1>2, <1>3, <1>5, <2>1, <2>2, OobCall
<1> QED
  BY <1>4, <1>5

LEMMA WriteOobFits ==
  ASSUME TypeOK, ProbedSoFar, pc = "run", NEW d \in Working, NEW ofs \in Nat, NEW ops \in Ops(d),
         NEW buf \in Bufs(d, DataLen(ops)), NEW oobbuf \in Bufs(d, OobLen(ops)),
         NoOobWrap(ofs, ops), goldfish_nand_write_oob(d, ofs, ops, buf, oobbuf)
  PROVE  TypeOK' /\ ProbedSoFar' /\ CommandsInDevice'
<1>1. PICK cs : cs = OobCommands(d, ofs, ops)
  OBVIOUS
<1>2. PICK r : r = With([op |-> "write_oob", dev |-> d, ofs |-> ofs], ops)
  OBVIOUS
<1> DEFINE rejected ==
      OobOutside(d, ofs, ops) \/ (ops.len # 0 /\ ops.len # mtd[d].writesize)
<1>3. /\ UNCHANGED Calling
      /\ IF rejected THEN Invalid(r)
         ELSE \E k \in Result(cs[1]), n \in Result(cs[2]) :
                /\ raw' = Stored(Stored(raw, cs[1], SubSeq(buf, 1, k)),
                                 cs[2], SubSeq(oobbuf, 1, n))
                /\ \E results : ret' = With(r, results)
                /\ cmds' = Issued(cs, ops) /\ UNCHANGED bad
  BY <1>1, <1>2 DEF goldfish_nand_write_oob
<1>4. CASE rejected
  BY <1>3, <1>4, InvalidCall
<1>5. CASE ~rejected
  <2>1. PICK k \in Result(cs[1]), n \in Result(cs[2]) :
          /\ raw' = Stored(Stored(raw, cs[1], SubSeq(buf, 1, k)), cs[2], SubSeq(oobbuf, 1, n))
          /\ \E results : ret' = With(r, results)
          /\ cmds' = Issued(cs, ops) /\ UNCHANGED bad
    BY <1>3, <1>5
  <2>2. PICK results : ret' = With(r, results)
    BY <2>1
  <2>3. /\ cs[1] \in Commands /\ cs[2] \in Commands /\ cs[1].dev = d /\ cs[2].dev = d
        /\ cs[1].len = DataLen(ops) /\ cs[2].len = OobLen(ops)
    BY <1>1, OobSent
  <2>4. SubSeq(buf, 1, k) \in Seq(Byte) /\ SubSeq(oobbuf, 1, n) \in Seq(Byte)
    BY <2>3, TakenBytes
  <2>5. RawOK(raw')
    BY <2>1, <2>3, <2>4, StoredOK, InUse
  <2> QED
    BY <1>1, <1>2, <1>3, <1>5, <2>1, <2>2, <2>5, OobCall
<1> QED
  BY <1>4, <1>5

-----------------------------------------------------------------------------
(* Requests with a sum that wraps: most are rejected, the others may send   *)
(* any commands for their device.                                           *)

\* The reply to a request.
Replied(r, code) ==
  \E more : "rc" \in DOMAIN more /\ more["rc"] = code /\ ret' = With(r, more)

LEMMA RepliedFields ==
  ASSUME NEW r, "rc" \notin DOMAIN r, NEW code, Replied(r, code)
  PROVE  (\A x \in DOMAIN r : ret'[x] = r[x]) /\ ret'["rc"] = code
<1>1. PICK more : "rc" \in DOMAIN more \ DOMAIN r /\ more["rc"] = code /\ ret' = With(r, more)
  BY DEF Replied
<1>2. /\ \A x \in DOMAIN r : ret'[x] = r[x]
      /\ \A x \in DOMAIN more \ DOMAIN r : ret'[x] = more[x]
  BY <1>1, Zenon DEF With
<1> QED
  BY <1>1, <1>2

LEMMA RejectedReply ==
  ASSUME NEW r, Invalid(r)
  PROVE  Replied(r, "EINVAL") /\ raw' = raw /\ bad' = bad /\ cmds' = <<>>
<1>1. ret' = With(r, [rc |-> "EINVAL"]) /\ raw' = raw /\ bad' = bad /\ cmds' = <<>>
  BY DEF Invalid
<1>2. PICK more : more = [rc |-> "EINVAL"]
  OBVIOUS
<1>3. "rc" \in DOMAIN more /\ more["rc"] = "EINVAL"
  BY <1>2
<1> QED
  BY <1>1, <1>2, <1>3, Zenon DEF Replied

\* s has the bytes of r outside device d, and in it below an address.
Kept(r, s, d, from) ==
  /\ RawOK(s)
  /\ \A e \in Ids \ {d} : s[e] = r[e]
  /\ \A a \in 0 .. Chip[d].raw - 1 : a < from => s[d][a] = r[d][a]

LEMMA StoredKeeps ==
  ASSUME NEW r, NEW r0, NEW d \in Ids, NEW from \in Nat, RawOK(r), Kept(r0, r, d, from),
         NEW c \in Commands, c.dev = d, from <= c.addr, NEW bytes \in Seq(Byte)
  PROVE  Kept(r0, Stored(r, c, bytes), d, from)
<1> DEFINE s == Stored(r, c, bytes)
<1>1. RawOK(s)
  BY StoredOK
<1>2. ASSUME NEW e \in Ids \ {d}
      PROVE  s[e] = r0[e]
  BY <1>2 DEF Stored, Kept, RawOK
<1>3. ASSUME NEW a \in 0 .. Chip[d].raw - 1, a < from
      PROVE  s[d][a] = r0[d][a]
  <2>1. Len(bytes) \in Nat /\ c.addr \in Nat /\ Chip[d].raw \in Nat
    BY LenProperties, ChipFacts DEF Commands
  <2>2. s[d][a] = IF d = c.dev /\ a >= c.addr /\ a < c.addr + Len(bytes)
                  THEN bytes[a - c.addr + 1] ELSE r[d][a]
    BY <2>1, StoredBytes
  <2> HIDE DEF s
  <2>3. ~(a >= c.addr)
    BY <1>3, <2>1
  <2> QED
    BY <1>3, <2>2, <2>3 DEF Kept
<1> HIDE DEF s
<1>4. Kept(r0, s, d, from)
  BY <1>1, <1>2, <1>3 DEF Kept
<1> QED
  BY <1>4 DEF s

\* What the driver does for such a request; from is where the first of its commands
\* may write.
Harmless(d, r, from) ==
  /\ bad' = bad /\ cmds' \in Seq(Commands)
  /\ \/ Replied(r, "EINVAL") /\ raw' = raw
     \/ /\ Replied(r, "0") \/ Replied(r, "EIO")
        /\ r["op"] \in {"read", "read_oob"} => raw' = raw
        /\ Kept(raw, raw', d, from)

\* A request from these operations on a device in use.
Sized(d, r) ==
  /\ {"op", "dev", "ofs", "len"} \subseteq DOMAIN r /\ "rc" \notin DOMAIN r
  /\ r["op"] \in {"read", "write", "read_oob", "write_oob", "erase"}
  /\ r["dev"] = d /\ r["ofs"] \in Nat /\ r["len"] \in Nat
  /\ r["op"] \in {"read_oob", "write_oob"} =>
       /\ {"ooblen", "ooboffs"} \subseteq DOMAIN r
       /\ r["ooblen"] \in Nat /\ r["ooboffs"] \in Nat

LEMMA WrapsInReply ==
  ASSUME NEW d, NEW r, Sized(d, r), NEW code, Replied(r, code)
  PROVE  /\ M!Wraps(ret') <=> M!Wraps(r)
         /\ Sized(d, r) /\ ret'.op = r.op /\ ret'.dev = d /\ ret'.ofs = r.ofs /\ ret'.len = r.len
         /\ ret'.rc = code
         /\ r.op \in {"read_oob", "write_oob"} => ret'.ooblen = r.ooblen /\ ret'.ooboffs = r.ooboffs
<1>1. (\A x \in DOMAIN r : ret'[x] = r[x]) /\ ret'["rc"] = code
  BY RepliedFields DEF Sized
<1>2. /\ ret'["op"] = r["op"] /\ ret'["dev"] = r["dev"] /\ ret'["ofs"] = r["ofs"]
      /\ ret'["len"] = r["len"] /\ r["dev"] = d
      /\ r["op"] \in {"read_oob", "write_oob"} =>
           ret'["ooblen"] = r["ooblen"] /\ ret'["ooboffs"] = r["ooboffs"]
  BY <1>1 DEF Sized
<1>3. M!Wraps(ret') <=> M!Wraps(r)
  BY <1>2 DEF M!Wraps
<1> QED
  BY <1>1, <1>2, <1>3

LEMMA HarmlessCall ==
  ASSUME TypeOK, ProbedSoFar, pc = "run", UNCHANGED Calling, NEW d \in Working,
         NEW r, Sized(d, r), M!Wraps(r), NEW from, Harmless(d, r, from)
  PROVE  TypeOK' /\ ProbedSoFar' /\ CommandsInDevice'
<1>1. RawOK(raw) /\ DOMAIN bad = Ids /\ \A e \in Ids : bad[e] \subseteq Nat
  BY InUse
<1>2. RawOK(raw') /\ bad' = bad /\ cmds' \in Seq(Commands)
  BY <1>1 DEF Harmless, Kept
<1>3. TypeOK' /\ ProbedSoFar'
  BY <1>1, <1>2, CallKeeps
<1>4. PICK code : Replied(r, code)
  BY DEF Harmless
<1>5. M!Wraps(ret')
  BY <1>4, WrapsInReply
<1>6. CommandsInDevice'
  BY <1>5 DEF CommandsInDevice, M!Wraps
<1> QED
  BY <1>3, <1>6

LEMMA EraseWraps ==
  ASSUME TypeOK, ProbedSoFar, NEW d \in Working, NEW ofs \in Nat, NEW asked \in Nat,
         goldfish_nand_erase(d, ofs, asked), ofs + Word(asked) >= 2^WideBits
  PROVE  \E r : Sized(d, r) /\ M!Wraps(r) /\ Harmless(d, r, 0) /\ r["op"] # "write_oob"
<1>1. PICK r : r = [op |-> "erase", dev |-> d, ofs |-> ofs, len |-> asked, callback |-> FALSE]
  OBVIOUS
<1>2. /\ DOMAIN r = {"op", "dev", "ofs", "len", "callback"}
      /\ r["op"] = "erase" /\ r["dev"] = d /\ r["ofs"] = ofs /\ r["len"] = asked
  BY <1>1
<1>3. PICK len \in Nat : len = Word(asked)
  BY WordFacts
<1>4. PICK c : c = Command(d, Address(d, ofs), RawLength(d, len))
  OBVIOUS
<1>5. PICK called : called = mtd_erase_callback(r)
  OBVIOUS
<1>6. \/ Invalid(r)
      \/ \E k \in Result(c) :
           /\ raw' = Stored(raw, c, [j \in 1 .. k |-> Erased])
           /\ ret' = IF k # c.len THEN With(r, [rc |-> "EIO"]) ELSE With(called, [rc |-> "0"])
           /\ cmds' = << c >> /\ UNCHANGED bad
  BY <1>1, <1>3, <1>4, <1>5 DEF goldfish_nand_erase
<1>7. /\ DOMAIN called = DOMAIN r
      /\ called["op"] = "erase" /\ called["dev"] = d /\ called["ofs"] = ofs /\ called["len"] = asked
  BY <1>1, <1>5 DEF mtd_erase_callback
<1>8. ASSUME NEW q, DOMAIN q = DOMAIN r, q["op"] = "erase", q["dev"] = d, q["ofs"] = ofs, q["len"] = asked
      PROVE  Sized(d, q) /\ M!Wraps(q)
  <2>1. Sized(d, q)
    BY <1>2, <1>8 DEF Sized
  <2>2. q.op = "erase" /\ q.ofs + (q.len % 2^WordBits) >= 2^WideBits
    BY <1>8 DEF Word
  <2> QED
    BY <2>1, <2>2 DEF M!Wraps
<1>9. CASE Invalid(r)
  <2>1. Replied(r, "EINVAL") /\ raw' = raw /\ bad' = bad /\ cmds' \in Seq(Commands)
    BY <1>9, RejectedReply, EmptySeq
  <2> QED
    BY <1>2, <1>8, <2>1, Zenon DEF Harmless
<1>10. CASE \E k \in Result(c) :
             /\ raw' = Stored(raw, c, [j \in 1 .. k |-> Erased])
             /\ ret' = IF k # c.len THEN With(r, [rc |-> "EIO"]) ELSE With(called, [rc |-> "0"])
             /\ cmds' = << c >> /\ UNCHANGED bad
  <2>1. PICK k \in Result(c) :
             /\ raw' = Stored(raw, c, [j \in 1 .. k |-> Erased])
             /\ ret' = IF k # c.len THEN With(r, [rc |-> "EIO"]) ELSE With(called, [rc |-> "0"])
             /\ cmds' = << c >> /\ UNCHANGED bad
    BY <1>10
  <2>2. d \in Ids /\ RawOK(raw) /\ mtd[d].writesize \in Nat /\ mtd[d].writesize >= 1
        /\ mtd[d].oobsize \in Nat
    BY InUse
  <2>3. c \in Commands /\ c.dev = d /\ c.len \in Nat /\ c.addr \in Nat
    <3>1. RawLength(d, len) \in Nat
      <4>1. PICK page \in Nat, raw_page \in Nat :
              page = mtd[d].writesize /\ page >= 1 /\ raw_page = mtd[d].writesize + mtd[d].oobsize
        BY <2>2
      <4>2. PICK n \in Nat : n = len \div page
        BY <4>1, Division
      <4>3. n * raw_page \in Nat
        BY Order
      <4> QED
        BY <4>1, <4>2, <4>3, WordFacts DEF RawLength
    <3> QED
      BY <1>4, <2>2, <3>1, AddressIsNat, CommandFields
  <2>4. k \in Nat /\ [j \in 1 .. k |-> Erased] \in Seq(Byte)
    BY <2>3, ChipAssumption DEF Result
  <2>5. Kept(raw, raw', d, 0)
    <3>1. Kept(raw, raw, d, 0)
      BY <2>2 DEF Kept
    <3>2. 0 \in Nat /\ 0 <= c.addr
      BY <2>3
    <3>3. Kept(raw, Stored(raw, c, [j \in 1 .. k |-> Erased]), d, 0)
      BY <2>2, <2>3, <2>4, <3>1, <3>2, StoredKeeps
    <3> QED
      BY <2>1, <3>3
  <2>6. PICK q \in {r, called} : Replied(q, "0") \/ Replied(q, "EIO")
    <3>1. PICK code \in {"0", "EIO"}, q \in {r, called} : ret' = With(q, [rc |-> code])
      BY <2>1
    <3>2. PICK more : more = [rc |-> code]
      OBVIOUS
    <3>3. "rc" \in DOMAIN more /\ more["rc"] = code
      BY <3>2
    <3>4. Replied(q, code)
      BY <3>1, <3>2, <3>3, Zenon DEF Replied
    <3> QED
      BY <3>1, <3>4
  <2>7. Sized(d, q) /\ M!Wraps(q) /\ q["op"] = "erase"
    BY <1>2, <1>7, <1>8
  <2>8. cmds' \in Seq(Commands) /\ bad' = bad
    BY <2>1, <2>3
  <2> QED
    BY <2>5, <2>6, <2>7, <2>8, Zenon DEF Harmless
<1> QED
  BY <1>6, <1>9, <1>10

LEMMA ReadWraps ==
  ASSUME TypeOK, ProbedSoFar, NEW d \in Working, NEW from \in Nat, NEW len \in Nat,
         goldfish_nand_read(d, from, len), from + len >= 2^WideBits
  PROVE  \E r : Sized(d, r) /\ M!Wraps(r) /\ Harmless(d, r, 0) /\ r["op"] # "write_oob"
<1>1. PICK r : r = [op |-> "read", dev |-> d, ofs |-> from, len |-> len]
  OBVIOUS
<1>2. /\ DOMAIN r = {"op", "dev", "ofs", "len"}
      /\ r["op"] = "read" /\ r["dev"] = d /\ r["ofs"] = from /\ r["len"] = len
  BY <1>1
<1>3. Sized(d, r) /\ M!Wraps(r)
  <2>1. Sized(d, r)
    BY <1>2 DEF Sized
  <2>2. r.op = "read" /\ r.ofs + r.len >= 2^WideBits
    BY <1>1
  <2> QED
    BY <2>1, <2>2 DEF M!Wraps
<1>4. PICK c : c = Command(d, Address(d, from), len)
  OBVIOUS
<1>5. \/ Invalid(r)
      \/ \E k \in Result(c) :
           /\ ret' = With(r, [rc |-> "0", retlen |-> k, got |-> Bytes(c, k)])
           /\ cmds' = << c >> /\ UNCHANGED <<raw, bad>>
  BY <1>1, <1>4 DEF goldfish_nand_read
<1>6. c \in Commands /\ RawOK(raw)
  BY <1>4, InUse, AddressIsNat, CommandFields
<1>7. CASE Invalid(r)
  <2>1. Replied(r, "EINVAL") /\ raw' = raw /\ bad' = bad /\ cmds' \in Seq(Commands)
    BY <1>7, RejectedReply, EmptySeq
  <2> QED
    BY <1>2, <1>3, <2>1 DEF Harmless
<1>8. CASE ~Invalid(r)
  <2>1. PICK more, k : /\ more = [rc |-> "0", retlen |-> k, got |-> Bytes(c, k)]
                       /\ ret' = With(r, more) /\ cmds' = << c >> /\ UNCHANGED <<raw, bad>>
    BY <1>5, <1>8
  <2>2. "rc" \in DOMAIN more /\ more["rc"] = "0"
    BY <2>1
  <2>3. Replied(r, "0")
    BY <2>1, <2>2 DEF Replied
  <2>4. Kept(raw, raw', d, 0) /\ cmds' \in Seq(Commands) /\ bad' = bad /\ raw' = raw
    BY <1>6, <2>1 DEF Kept
  <2> QED
    BY <1>2, <1>3, <2>3, <2>4 DEF Harmless
<1> QED
  BY <1>7, <1>8

LEMMA WriteWraps ==
  ASSUME TypeOK, ProbedSoFar, NEW d \in Working, NEW to \in Nat, NEW len \in Nat,
         NEW buf \in Bufs(d, len), goldfish_nand_write(d, to, len, buf), to + len >= 2^WideBits
  PROVE  \E r : Sized(d, r) /\ M!Wraps(r) /\ Harmless(d, r, 0) /\ r["op"] # "write_oob"
<1>1. PICK r : r = [op |-> "write", dev |-> d, ofs |-> to, len |-> len]
  OBVIOUS
<1>2. /\ DOMAIN r = {"op", "dev", "ofs", "len"}
      /\ r["op"] = "write" /\ r["dev"] = d /\ r["ofs"] = to /\ r["len"] = len
  BY <1>1
<1>3. Sized(d, r) /\ M!Wraps(r)
  <2>1. Sized(d, r)
    BY <1>2 DEF Sized
  <2>2. r.op = "write" /\ r.ofs + r.len >= 2^WideBits
    BY <1>1
  <2> QED
    BY <2>1, <2>2 DEF M!Wraps
<1>4. PICK c : c = Command(d, Address(d, to), len)
  OBVIOUS
<1>5. \/ Invalid(r)
      \/ \E k \in Result(c) :
           /\ raw' = Stored(raw, c, SubSeq(buf, 1, k))
           /\ ret' = With(r, [rc |-> "0", retlen |-> k, put |-> buf])
           /\ cmds' = << c >> /\ UNCHANGED bad
  BY <1>1, <1>4 DEF goldfish_nand_write
<1>6. d \in Ids /\ RawOK(raw)
  BY InUse
<1>7. c \in Commands /\ c.dev = d /\ c.len = len /\ c.addr \in Nat
  BY <1>4, <1>6, AddressIsNat, CommandFields
<1>8. CASE Invalid(r)
  <2>1. Replied(r, "EINVAL") /\ raw' = raw /\ bad' = bad /\ cmds' \in Seq(Commands)
    BY <1>8, RejectedReply, EmptySeq
  <2> QED
    BY <1>2, <1>3, <2>1 DEF Harmless
<1>9. CASE ~Invalid(r)
  <2>1. PICK k \in Result(c) :
           /\ raw' = Stored(raw, c, SubSeq(buf, 1, k))
           /\ ret' = With(r, [rc |-> "0", retlen |-> k, put |-> buf])
           /\ cmds' = << c >> /\ UNCHANGED bad
    BY <1>5, <1>9
  <2>2. Replied(r, "0")
    <3>1. PICK more : more = [rc |-> "0", retlen |-> k, put |-> buf]
      OBVIOUS
    <3>2. "rc" \in DOMAIN more /\ more["rc"] = "0"
      BY <3>1
    <3> QED
      BY <2>1, <3>1, <3>2 DEF Replied
  <2>3. SubSeq(buf, 1, k) \in Seq(Byte)
    BY <1>7, TakenBytes
  <2>4. Kept(raw, raw', d, 0)
    <3>1. Kept(raw, raw, d, 0)
      BY <1>6 DEF Kept
    <3>2. 0 \in Nat /\ 0 <= c.addr
      BY <1>7
    <3>3. Kept(raw, Stored(raw, c, SubSeq(buf, 1, k)), d, 0)
      BY <1>6, <1>7, <2>3, <3>1, <3>2, StoredKeeps
    <3> QED
      BY <2>1, <3>3
  <2>5. cmds' \in Seq(Commands) /\ bad' = bad /\ r["op"] = "write"
    BY <1>2, <1>7, <2>1
  <2> QED
    BY <1>2, <1>3, <2>2, <2>4, <2>5 DEF Harmless
<1> QED
  BY <1>8, <1>9

\* An OOB request with such a sum.
LEMMA OobRequestWraps ==
  ASSUME TypeOK, ProbedSoFar, NEW d \in Working, NEW ofs \in Nat, NEW ops \in Ops(d),
         ~NoOobWrap(ofs, ops), NEW r,
         DOMAIN r = {"op", "dev", "ofs", "len", "ooblen", "ooboffs", "datbuf", "oobbuf"},
         r["op"] \in {"read_oob", "write_oob"}, r["dev"] = d, r["ofs"] = ofs,
         \A x \in {"len", "ooblen", "ooboffs", "datbuf", "oobbuf"} : r[x] = ops[x]
  PROVE  Sized(d, r) /\ M!Wraps(r) /\ r["len"] = ops["len"]
<1>2. PICK len \in Nat, ooblen \in Nat, ooboffs \in Nat :
        len = ops["len"] /\ ooblen = ops["ooblen"] /\ ooboffs = ops["ooboffs"]
  BY OpsTypes
<1>3. r["len"] = len /\ r["ooblen"] = ooblen /\ r["ooboffs"] = ooboffs
  BY <1>2
<1>4. Sized(d, r)
  BY <1>2, <1>3 DEF Sized
<1>5. PICK m \in Nat, n \in Nat : m = 2^WordBits /\ n = 2^WideBits
  BY Limits
<1>6. ~(ofs + len < n /\ ooblen + ooboffs < m)
  BY <1>2, <1>5 DEF NoOobWrap
<1>7. ofs + len >= n \/ ooblen + ooboffs >= m
  BY <1>2, <1>5, <1>6
<1>8. M!Wraps(r)
  BY <1>3, <1>5, <1>7 DEF M!Wraps
<1> QED
  BY <1>2, <1>3, <1>4, <1>8

LEMMA ReadOobWraps ==
  ASSUME TypeOK, ProbedSoFar, NEW d \in Working, NEW ofs \in Nat, NEW ops \in Ops(d),
         ~NoOobWrap(ofs, ops), goldfish_nand_read_oob(d, ofs, ops)
  PROVE  \E r : Sized(d, r) /\ M!Wraps(r) /\ Harmless(d, r, 0) /\ r["op"] # "write_oob"
<1>1. PICK cs : cs = OobCommands(d, ofs, ops)
  OBVIOUS
<1>2. PICK r : r = With([op |-> "read_oob", dev |-> d, ofs |-> ofs], ops)
  OBVIOUS
<1>3. Sized(d, r) /\ M!Wraps(r) /\ r["op"] = "read_oob"
  <2>1. /\ DOMAIN r = {"op", "dev", "ofs", "len", "ooblen", "ooboffs", "datbuf", "oobbuf"}
        /\ r["op"] = "read_oob" /\ r["dev"] = d /\ r["ofs"] = ofs
        /\ \A x \in {"len", "ooblen", "ooboffs", "datbuf", "oobbuf"} : r[x] = ops[x]
    BY <1>2, OobFields
  <2>2. r["op"] \in {"read_oob", "write_oob"}
    BY <2>1
  <2>3. Sized(d, r) /\ M!Wraps(r) /\ r["len"] = ops["len"]
    BY <2>1, <2>2, OobRequestWraps
  <2> QED
    BY <2>1, <2>3
<1>4. \/ Invalid(r)
      \/ \E k \in Result(cs[1]), n \in Result(cs[2]) :
           /\ ret' = With(r, [rc |-> "0", retlen |-> k, got |-> Bytes(cs[1], k),
                              oobretlen |-> n, oobgot |-> Bytes(cs[2], n)])
           /\ cmds' = Issued(cs, ops) /\ UNCHANGED <<raw, bad>>
  BY <1>1, <1>2 DEF goldfish_nand_read_oob
<1>5. RawOK(raw) /\ Issued(cs, ops) \in Seq(Commands)
  BY <1>1, InUse, OobSent, OpsTypes, IssuedCommands
<1>6. CASE Invalid(r)
  <2>1. Replied(r, "EINVAL") /\ raw' = raw /\ bad' = bad /\ cmds' \in Seq(Commands)
    BY <1>6, RejectedReply, EmptySeq
  <2> QED
    BY <1>3, <2>1 DEF Harmless
<1>7. CASE ~Invalid(r)
  <2>1. PICK more, k, n :
           /\ more = [rc |-> "0", retlen |-> k, got |-> Bytes(cs[1], k),
                      oobretlen |-> n, oobgot |-> Bytes(cs[2], n)]
           /\ ret' = With(r, more)
           /\ cmds' = Issued(cs, ops) /\ UNCHANGED <<raw, bad>>
    BY <1>4, <1>7
  <2>2. "rc" \in DOMAIN more /\ more["rc"] = "0"
    BY <2>1
  <2>3. Replied(r, "0")
    BY <2>1, <2>2 DEF Replied
  <2>4. Kept(raw, raw', d, 0) /\ cmds' \in Seq(Commands) /\ bad' = bad /\ raw' = raw
    BY <1>5, <2>1 DEF Kept
  <2> QED
    BY <1>3, <2>3, <2>4 DEF Harmless
<1> QED
  BY <1>6, <1>7

\* The address of an offset in the data areas of a page of the device, as no sum wraps it.
PageStart(d, ofs) == (ofs \div mtd[d].writesize) * (mtd[d].writesize + mtd[d].oobsize)

\* Where an OOB request that passes writes, if the end of its data was judged right:
\* not before its page.
LEMMA OobFromPage ==
  ASSUME TypeOK, ProbedSoFar, NEW d \in Working, NEW ofs \in Nat, NEW ops \in Ops(d),
         ofs + ops.len < 2^WideBits, ~OobOutside(d, ofs, ops),
         NEW cs, cs = OobCommands(d, ofs, ops)
  PROVE  /\ PageStart(d, ofs) \in Nat
         /\ PageStart(d, ofs) <= cs[1].addr /\ PageStart(d, ofs) <= cs[2].addr
<1>1. PICK page \in Nat, extra \in Nat, size \in Nat :
        /\ page = mtd[d].writesize /\ extra = mtd[d].oobsize /\ size = mtd[d].size
        /\ page = Chip[d].page /\ extra = Chip[d].extra /\ page >= 1
        /\ d \in Ids /\ Probed(d)
  BY InUse
<1>2. PICK len \in Nat, ooboffs \in Nat : len = ops.len /\ ooboffs = ops.ooboffs
  BY OpsTypes
<1>3. ofs + 0 <= size /\ ~Misaligned(d, ofs)
  <2>1. ~PastEnd(d, ofs, ops.len) /\ ~Misaligned(d, ofs)
    BY DEF OobOutside
  <2>2. PastEnd(d, ofs, ops.len) <=> ofs + ops.len > mtd[d].size
    BY <1>2, PastEndFacts
  <2> QED
    BY <1>1, <1>2, <2>1, <2>2
<1>4. 0 % page = 0 /\ 0 \div page = 0
  <2>1. 0 * page = 0 /\ (0 * page) % page = 0 /\ (0 * page) \div page = 0
    BY <1>1, Multiple
  <2> QED
    BY <2>1
<1>5. PICK addr \in Nat, bytes \in Nat :
        addr = Address(d, ofs) /\ addr = PageStart(d, ofs) /\ bytes = Chip[d].raw /\ addr <= bytes
  <2>1. 0 * (page + extra) = 0
    BY <1>1
  <2>2. /\ Address(d, ofs) \in Nat /\ Address(d, ofs) + 0 * (page + extra) <= Chip[d].raw
        /\ Address(d, ofs) = PageStart(d, ofs)
    BY <1>1, <1>3, <1>4, AddressFits DEF PageStart
  <2> QED
    BY <1>1, <2>1, <2>2, ChipFacts
<1>6. PICK o \in Nat, m \in Nat, n \in Nat :
        o = Word(page + ooboffs) /\ m = 2^WordBits /\ n = 2^WideBits /\ o < m /\ bytes + m < n
  <2>1. PICK m \in Nat, n \in Nat : m = 2^WordBits /\ n = 2^WideBits /\ m >= 1 /\ bytes + m < n
    BY <1>1, <1>5, Limits, ChipAssumption
  <2>2. PICK x \in Nat : x = page + ooboffs
    OBVIOUS
  <2>3. x % m \in 0 .. m - 1
    BY <2>1, Division
  <2> QED
    BY <2>1, <2>2, <2>3 DEF Word
<1>7. Wide(addr + o) = addr + o
  BY <1>5, <1>6, WideFacts
<1>8. cs[1].addr = addr /\ cs[2].addr = addr + o
  <2>1. /\ cs[1].addr = Address(d, ofs)
        /\ cs[2].addr = Wide(Address(d, ofs) + Word(mtd[d].writesize + ops.ooboffs))
    BY OobSent
  <2> QED
    BY <1>1, <1>2, <1>5, <1>6, <1>7, <2>1
<1> QED
  BY <1>5, <1>6, <1>8

LEMMA WriteOobWraps ==
  ASSUME TypeOK, ProbedSoFar, NEW d \in Working, NEW ofs \in Nat, NEW ops \in Ops(d),
         NEW buf \in Bufs(d, DataLen(ops)), NEW oobbuf \in Bufs(d, OobLen(ops)),
         ~NoOobWrap(ofs, ops), goldfish_nand_write_oob(d, ofs, ops, buf, oobbuf)
  PROVE  \E r : \E from \in Nat :
           /\ Sized(d, r) /\ M!Wraps(r) /\ Harmless(d, r, from)
           /\ r["ofs"] + r["len"] < 2^WideBits => PageStart(d, r["ofs"]) <= from
<1>1. PICK cs : cs = OobCommands(d, ofs, ops)
  OBVIOUS
<1>2. PICK r : r = With([op |-> "write_oob", dev |-> d, ofs |-> ofs], ops)
  OBVIOUS
<1>3. /\ Sized(d, r) /\ M!Wraps(r)
      /\ r["op"] = "write_oob" /\ r["ofs"] = ofs /\ r["len"] = ops["len"]
  <2>1. /\ DOMAIN r = {"op", "dev", "ofs", "len", "ooblen", "ooboffs", "datbuf", "oobbuf"}
        /\ r["op"] = "write_oob" /\ r["dev"] = d /\ r["ofs"] = ofs
        /\ \A x \in {"len", "ooblen", "ooboffs", "datbuf", "oobbuf"} : r[x] = ops[x]
    BY <1>2, OobFields
  <2>2. r["op"] \in {"read_oob", "write_oob"}
    BY <2>1
  <2>3. Sized(d, r) /\ M!Wraps(r) /\ r["len"] = ops["len"]
    BY <2>1, <2>2, OobRequestWraps
  <2> QED
    BY <2>1, <2>3
<1>4. \/ Invalid(r)
      \/ /\ ~OobOutside(d, ofs, ops)
         /\ \E k \in Result(cs[1]), n \in Result(cs[2]) :
              /\ raw' = Stored(Stored(raw, cs[1], SubSeq(buf, 1, k)),
                               cs[2], SubSeq(oobbuf, 1, n))
              /\ ret' = With(r, [rc |-> "0", retlen |-> k, oobretlen |-> n,
                                 put |-> buf, oobput |-> oobbuf])
              /\ cmds' = Issued(cs, ops) /\ UNCHANGED bad
  BY <1>1, <1>2 DEF goldfish_nand_write_oob
<1>5. d \in Ids /\ RawOK(raw) /\ Issued(cs, ops) \in Seq(Commands)
  <2>1. cs[1] \in Commands /\ cs[2] \in Commands
    BY <1>1, OobSent
  <2>2. ops.datbuf \in BOOLEAN /\ ops.oobbuf \in BOOLEAN
    BY OpsTypes
  <2> QED
    BY <2>1, <2>2, InUse, IssuedCommands
<1>6. /\ cs[1] \in Commands /\ cs[1].dev = d /\ cs[1].len = DataLen(ops) /\ cs[1].addr \in Nat
      /\ cs[2] \in Commands /\ cs[2].dev = d /\ cs[2].len = OobLen(ops) /\ cs[2].addr \in Nat
  BY <1>1, OobSent DEF Commands
<1>7. CASE Invalid(r)
  <2>1. Replied(r, "EINVAL") /\ raw' = raw /\ bad' = bad /\ cmds' \in Seq(Commands)
    BY <1>7, RejectedReply, EmptySeq
  <2>2. PICK from \in Nat : from = PageStart(d, ofs)
    <3>1. PICK page \in Nat, raw_page \in Nat :
            page = mtd[d].writesize /\ raw_page = mtd[d].writesize + mtd[d].oobsize /\ page >= 1
      BY InUse
    <3>2. PICK k \in Nat : k = ofs \div page
      BY <3>1, Division
    <3>3. k * raw_page \in Nat
      BY Order
    <3> QED
      BY <3>1, <3>2, <3>3 DEF PageStart
  <2>3. Harmless(d, r, from)
    BY <2>1 DEF Harmless
  <2>4. PageStart(d, r["ofs"]) <= from
    BY <1>3, <2>2
  <2> QED
    BY <1>3, <2>3, <2>4
<1>8. CASE ~Invalid(r)
  <2>1. PICK k \in Result(cs[1]), n \in Result(cs[2]) :
          /\ raw' = Stored(Stored(raw, cs[1], SubSeq(buf, 1, k)), cs[2], SubSeq(oobbuf, 1, n))
          /\ ret' = With(r, [rc |-> "0", retlen |-> k, oobretlen |-> n,
                             put |-> buf, oobput |-> oobbuf])
          /\ cmds' = Issued(cs, ops) /\ UNCHANGED bad
    BY <1>4, <1>8
  <2>2. PICK more : more = [rc |-> "0", retlen |-> k, oobretlen |-> n, put |-> buf, oobput |-> oobbuf]
    OBVIOUS
  <2>3. Replied(r, "0")
    <3>1. "rc" \in DOMAIN more /\ more["rc"] = "0"
      BY <2>2
    <3>2. ret' = With(r, more)
      BY <2>1, <2>2
    <3> QED
      BY <3>1, <3>2 DEF Replied
  <2>4. PICK from \in Nat : /\ from <= cs[1].addr /\ from <= cs[2].addr
                            /\ ofs + ops.len < 2^WideBits => PageStart(d, ofs) <= from
    <3>1. CASE ofs + ops.len < 2^WideBits
      <4>1. /\ PageStart(d, ofs) \in Nat
            /\ PageStart(d, ofs) <= cs[1].addr /\ PageStart(d, ofs) <= cs[2].addr
        BY <1>1, <1>4, <1>8, <3>1, OobFromPage
      <4>2. PICK f \in Nat : f = PageStart(d, ofs)
        BY <4>1
      <4>3. f <= f
        OBVIOUS
      <4> QED
        BY <4>1, <4>2, <4>3
    <3>2. CASE ~(ofs + ops.len < 2^WideBits)
      <4>1. 0 \in Nat /\ 0 <= cs[1].addr /\ 0 <= cs[2].addr
        BY <1>6
      <4> QED
        BY <3>2, <4>1
    <3> QED
      BY <3>1, <3>2
  <2>5. SubSeq(buf, 1, k) \in Seq(Byte) /\ SubSeq(oobbuf, 1, n) \in Seq(Byte)
    BY <1>6, TakenBytes
  <2>6. PICK between, after :
          /\ between = Stored(raw, cs[1], SubSeq(buf, 1, k))
          /\ after = Stored(between, cs[2], SubSeq(oobbuf, 1, n)) /\ after = raw'
    BY <2>1
  <2>7. Kept(raw, raw, d, from)
    BY <1>5 DEF Kept
  <2>8. Kept(raw, between, d, from) /\ RawOK(between)
    <3>1. Kept(raw, between, d, from)
      BY <1>5, <1>6, <2>4, <2>5, <2>6, <2>7, StoredKeeps
    <3> QED
      BY <3>1 DEF Kept
  <2>9. Kept(raw, after, d, from)
    BY <1>5, <1>6, <2>4, <2>5, <2>6, <2>8, StoredKeeps
  <2>10. cmds' \in Seq(Commands) /\ bad' = bad /\ Kept(raw, raw', d, from)
    BY <1>5, <2>1, <2>6, <2>9
  <2>11. Harmless(d, r, from)
    BY <1>3, <2>3, <2>10 DEF Harmless
  <2>12. r["ofs"] + r["len"] < 2^WideBits => PageStart(d, r["ofs"]) <= from
    BY <1>3, <2>4
  <2> QED
    BY <1>3, <2>11, <2>12
<1> QED
  BY <1>7, <1>8

-----------------------------------------------------------------------------
(* Names. *)

Last == MaxDev * NameMax + 1

\* A row is inside the table, and ends where the next one begins at the latest.
LEMMA RowFits ==
  ASSUME NEW d \in Ids
  PROVE  /\ Row(d) \in Nat /\ Row(d) >= 1 /\ Row(d) + NameMax <= Last /\ Last \in Nat
         /\ \A e \in Ids : e < d => Row(e) + NameMax <= Row(d)
         /\ NameMax \in Nat /\ NameMax >= 1
<1>1. MaxDev \in Nat /\ NameMax \in Nat /\ NameMax >= 1
  BY ChipAssumption
<1>2. \A a \in Nat : a * NameMax \in Nat /\ (a + 1) * NameMax = a * NameMax + NameMax
  BY <1>1, Order
<1>3. \A a, b \in Nat : a + 1 <= b => (a + 1) * NameMax <= b * NameMax
  BY <1>1, Order
<1>4. d \in Nat /\ d + 1 <= MaxDev
  BY <1>1 DEF Ids
<1>5. (d + 1) * NameMax <= MaxDev * NameMax
  BY <1>1, <1>3, <1>4
<1>6. d * NameMax \in Nat /\ MaxDev * NameMax \in Nat /\ (d + 1) * NameMax = d * NameMax + NameMax
  BY <1>1, <1>2, <1>4
<1>7. ASSUME NEW e \in Ids, e < d
      PROVE  Row(e) + NameMax <= Row(d)
  <2>1. e \in Nat /\ e + 1 <= d
    BY <1>1, <1>4, <1>7 DEF Ids
  <2>2. (e + 1) * NameMax <= d * NameMax
    BY <1>3, <1>4, <2>1
  <2>3. e * NameMax \in Nat /\ (e + 1) * NameMax = e * NameMax + NameMax
    BY <1>2, <2>1
  <2> QED
    BY <1>1, <1>6, <2>2, <2>3 DEF Row
<1> QED
  BY <1>1, <1>5, <1>6, <1>7 DEF Row, Last

\* The characters of a chip's name are not NUL.
LEMMA NameFacts ==
  ASSUME NEW d \in Ids
  PROVE  /\ Chip[d].name \in Seq(Chars) /\ Len(Chip[d].name) \in Nat
         /\ \A k \in 1 .. Len(Chip[d].name) : Chip[d].name[k] # NUL
<1>1. PICK name : name = Chip[d].name /\ name \in Seq(STRING \ {NUL})
  BY ChipFacts
<1>2. Len(name) \in Nat /\ \A k \in 1 .. Len(name) : name[k] # NUL
  BY <1>1, LenProperties, ElementOfSeq
<1>3. \A k \in 1 .. Len(name) : name[k] \in Chars
  BY <1>1 DEF Chars
<1>4. name \in Seq(Chars)
  BY <1>1, <1>2, <1>3, LenProperties, SeqDef
<1> QED
  BY <1>1, <1>2, <1>4

\* A string that begins in the table ends at its first zero, which is in the table.
LEMMA StringEnds ==
  ASSUME TypeOK, NamesKept, NEW start \in Nat, start >= 1, start <= Last, Last \in Nat
  PROVE  \E end \in start .. Last : /\ names[end] = NUL /\ \A b \in start .. end - 1 : names[b] # NUL
                                    /\ CString(start) = SubSeq(names, start, end - 1)
<1>1. Len(names) = Last
  <2>1. names \in [1 .. Last -> Chars]
    BY DEF TypeOK, Last
  <2> QED
    BY <2>1, LenProperties, SeqDef
<1>2. PICK end \in {a \in start .. Last : names[a] = NUL} :
        \A b \in {a \in start .. Last : names[a] = NUL} : end <= b
  <2>1. Last \in {a \in start .. Last : names[a] = NUL}
    BY DEF NamesKept, Last
  <2>2. {a \in start .. Last : names[a] = NUL} \subseteq Nat
    OBVIOUS
  <2> QED
    BY <2>1, <2>2, Least
<1>3. names[end] = NUL /\ \A b \in start .. end - 1 : names[b] # NUL
  BY <1>2
<1>4. PICK stop : stop = CHOOSE a \in start .. Len(names) :
                           names[a] = NUL /\ \A b \in start .. a - 1 : names[b] # NUL
  OBVIOUS
<1>5. /\ stop \in start .. Last /\ names[stop] = NUL
      /\ \A b \in start .. stop - 1 : names[b] # NUL
  BY <1>1, <1>2, <1>3, <1>4
<1>6. CString(start) = SubSeq(names, start, stop - 1)
  <2>1. start # NULL
    BY DEF NULL
  <2> QED
    BY <1>4, <2>1, Zenon DEF CString
<1> QED
  BY <1>5, <1>6

\* What main prints for the name of a device.
LEMMA PrintedName ==
  ASSUME TypeOK, NamesKept, NEW d \in Ids
  PROVE  /\ CString(mtd[d].name) \in Seq(Chars)
         /\ d \in Working => IF Len(Chip[d].name) < NameMax
                             THEN CString(mtd[d].name) = Chip[d].name
                             ELSE SubSeq(CString(mtd[d].name), 1, NameMax) = Chip[d].name
<1>1. mtd[d].name = NULL \/ mtd[d].name = Row(d)
  BY DEF TypeOK
<1>2. CASE mtd[d].name = NULL
  <2>1. CString(mtd[d].name) = << >>
    BY <1>2 DEF CString
  <2>2. d \notin Working
    BY <1>2, RowFits DEF NamesKept, NameKept, NULL
  <2> QED
    BY <2>1, <2>2, EmptySeq
<1>3. CASE mtd[d].name = Row(d)
  <2>1. PICK start \in Nat, size \in Nat, name \in Seq(Chars), n \in Nat :
          /\ start = Row(d) /\ size = NameMax /\ name = Chip[d].name /\ n = Len(name)
          /\ start >= 1 /\ start + size <= Last /\ Last \in Nat
          /\ \A k \in 1 .. n : name[k] # NUL
    <3>1. Row(d) \in Nat /\ NameMax \in Nat /\ Row(d) >= 1 /\ Row(d) + NameMax <= Last /\ Last \in Nat
      BY RowFits
    <3>2. /\ Chip[d].name \in Seq(Chars) /\ Len(Chip[d].name) \in Nat
          /\ \A k \in 1 .. Len(Chip[d].name) : Chip[d].name[k] # NUL
      BY NameFacts
    <3> QED
      BY <3>1, <3>2, Zenon
  <2>2. start <= Last
    BY <2>1
  <2>3. PICK end \in start .. Last :
          /\ names[end] = NUL /\ \A b \in start .. end - 1 : names[b] # NUL
          /\ CString(start) = SubSeq(names, start, end - 1)
    BY <2>1, <2>2, StringEnds
  <2>4. PICK str : str = SubSeq(names, start, end - 1)
    OBVIOUS
  <2>5. /\ str \in Seq(Chars) /\ Len(str) = end - start
        /\ \A k \in 1 .. end - start : str[k] = names[start + k - 1]
    <3>1. \A b \in start .. end - 1 : names[b] \in Chars
      <4>1. names \in [1 .. Last -> Chars]
        BY DEF TypeOK, Last
      <4>2. \A b \in start .. end - 1 : b \in 1 .. Last
        BY <2>1, <2>3
      <4> QED
        BY <4>1, <4>2
    <3>2. start \in Int /\ end - 1 \in Int
      BY <2>1, <2>3
    <3>3. /\ SubSeq(names, start, end - 1) \in Seq(Chars)
          /\ Len(SubSeq(names, start, end - 1)) = IF start <= end - 1 THEN (end - 1) - start + 1 ELSE 0
          /\ \A k \in 1 .. (end - 1) - start + 1 : SubSeq(names, start, end - 1)[k] = names[start + k - 1]
      BY <3>1, <3>2, SubSeqProperties
    <3> QED
      BY <2>1, <2>3, <2>4, <3>2, <3>3
  <2>6. ASSUME d \in Working
        PROVE  IF n < size THEN str = name ELSE SubSeq(str, 1, size) = name
    <3>1. /\ n <= size /\ \A k \in 1 .. n : names[start + k - 1] = name[k]
          /\ n < size => names[start + n] = NUL
      BY <2>1, <2>6 DEF NamesKept, NameKept
    <3>2. end >= start + n
      <4>1. ASSUME end < start + n
            PROVE  FALSE
        <5>1. PICK k \in 1 .. n : end = start + k - 1
          <6>1. end - start + 1 \in 1 .. n /\ end = start + (end - start + 1) - 1
            BY <2>1, <2>3, <4>1
          <6> QED
            BY <6>1
        <5> QED
          BY <2>1, <2>3, <3>1, <5>1
      <4> QED
        BY <2>1, <2>3, <4>1
    <3>3. \A k \in 1 .. n : str[k] = name[k]
      <4>1. \A k \in 1 .. n : k \in 1 .. end - start
        BY <2>1, <2>3, <3>2
      <4> QED
        BY <2>5, <3>1, <4>1
    <3>4. CASE n < size
      <4>1. end <= start + n
        BY <2>1, <2>3, <3>1, <3>4
      <4>2. Len(str) = n
        BY <2>1, <2>3, <2>5, <3>2, <4>1
      <4>3. str = name
        BY <2>1, <2>5, <3>3, <4>2, SeqEqual
      <4> QED
        BY <3>4, <4>3
    <3>5. CASE ~(n < size)
      <4>1. n = size /\ Len(str) >= n /\ Len(str) \in Nat
        BY <2>1, <2>3, <2>5, <3>1, <3>2, <3>5
      <4>2. \A k \in 1 .. n : str[k] \in Chars
        BY <2>5, <4>1, ElementOfSeq
      <4>3. /\ SubSeq(str, 1, n) \in Seq(Chars) /\ Len(SubSeq(str, 1, n)) = n
            /\ \A k \in 1 .. n : SubSeq(str, 1, n)[k] = str[k]
        BY <2>1, <4>2, SubSeqProperties
      <4>4. SubSeq(str, 1, n) = name
        BY <2>1, <3>3, <4>3, SeqEqual
      <4> QED
        BY <3>5, <4>1, <4>4
    <3> QED
      BY <3>4, <3>5
  <2> QED
    BY <1>3, <2>1, <2>3, <2>4, <2>5, <2>6
<1> QED
  BY <1>1, <1>2, <1>3

Line == [name : Seq(Chars), size : {Junk}, pagesPerBlock : Nat, blockSize : Nat,
         blocks : {Junk}, pageSize : Nat, pages : {Junk}, extra : Nat]

\* What ListRight says of one line, of a device in use or not.
LineRight(l, d, used) ==
  LET c == Chip[d]
      block == c.erase \div (c.page + c.extra)
  IN  /\ <<l.pagesPerBlock, l.blockSize, l.pageSize, l.extra>> =
           <<block, block * c.page, c.page, c.extra>>
      /\ used =>
           IF Len(c.name) < NameMax THEN l.name = c.name
           ELSE SubSeq(l.name, 1, NameMax) = c.name

LEMMA ListedRight ==
  ASSUME TypeOK, NamesKept, NEW d \in Ids, Probed(d), NEW l, l = Listing(mtd[d])
  PROVE  l \in Line /\ LineRight(l, d, d \in Working)
<1>1. PICK page \in Nat, extra \in Nat : page = Chip[d].page /\ extra = Chip[d].extra
  BY ChipFacts
<1>2. PICK block : block = Chip[d].erase \div (Chip[d].page + Chip[d].extra)
  OBVIOUS
<1>3. block \in Nat /\ block * page \in Nat /\ (block * page) \div page = block
  BY <1>1, <1>2, BlockFacts
<1>4. PICK name : name = CString(mtd[d].name)
  OBVIOUS
<1>5. mtd[d].writesize = page /\ mtd[d].oobsize = extra /\ mtd[d].erasesize = block * page
  BY <1>1, <1>2 DEF Probed
<1>6. l = [name |-> name, size |-> Junk, pagesPerBlock |-> block, blockSize |-> block * page,
           blocks |-> Junk, pageSize |-> page, pages |-> Junk, extra |-> extra]
  BY <1>3, <1>4, <1>5 DEF Listing
<1>7. /\ name \in Seq(Chars)
      /\ d \in Working => IF Len(Chip[d].name) < NameMax THEN name = Chip[d].name
                          ELSE SubSeq(name, 1, NameMax) = Chip[d].name
  BY <1>4, PrintedName
<1>8. l \in Line
  BY <1>1, <1>3, <1>6, <1>7 DEF Line
<1>9. /\ l.name = name /\ l.pagesPerBlock = block /\ l.blockSize = block * page
      /\ l.pageSize = page /\ l.extra = extra
  BY <1>6
<1>10. LineRight(l, d, d \in Working)
  BY <1>1, <1>2, <1>7, <1>9 DEF LineRight
<1> QED
  BY <1>8, <1>10

\* What a transfer into row d leaves of the names: the rows before it, and the zero
\* at the end of the table.
LEMMA ReceivedOK ==
  ASSUME TypeOK, NamesKept, NEW d \in Ids, NEW bytes \in Seq(Chars), Len(bytes) <= NameMax + 1,
         Len(bytes) = NameMax + 1 => bytes[NameMax + 1] = NUL, NEW after, after = Received(d, bytes)
  PROVE  /\ after \in [1 .. Last -> Chars] /\ after[Last] = NUL
         /\ \A a \in 1 .. Last : a < Row(d) => after[a] = names[a]
         /\ \A k \in 1 .. Len(bytes) : after[Row(d) + k - 1] = bytes[k]
<1>1. PICK row \in Nat, size \in Nat, n \in Nat :
        /\ row = Row(d) /\ size = NameMax /\ n = Len(bytes) /\ row >= 1 /\ n <= size + 1
        /\ row + size <= Last /\ Last \in Nat /\ DOMAIN bytes = 1 .. n
  <2>1. Len(bytes) \in Nat /\ DOMAIN bytes = 1 .. Len(bytes)
    BY LenProperties
  <2>2. Row(d) \in Nat /\ NameMax \in Nat /\ Row(d) >= 1 /\ Row(d) + NameMax <= Last /\ Last \in Nat
    BY RowFits
  <2> QED
    BY <2>1, <2>2, Zenon
<1>2. names \in [1 .. Last -> Chars] /\ names[Last] = NUL
  BY DEF TypeOK, NamesKept, Last
<1>3. after = [a \in 1 .. Last |-> IF a - row + 1 \in 1 .. n THEN bytes[a - row + 1] ELSE names[a]]
  BY <1>1, <1>2 DEF Received
<1>4. \A k \in 1 .. n : bytes[k] \in Chars
  BY <1>1, ElementOfSeq
<1>5. after \in [1 .. Last -> Chars]
  BY <1>2, <1>3, <1>4
<1>6. ASSUME NEW a \in 1 .. Last, a < row
      PROVE  after[a] = names[a]
  <2>1. ~(a - row + 1 \in 1 .. n)
    BY <1>1, <1>6
  <2> QED
    BY <1>3, <2>1
<1>7. ASSUME NEW k \in 1 .. n
      PROVE  after[row + k - 1] = bytes[k]
  <2>1. row + k - 1 \in 1 .. Last /\ (row + k - 1) - row + 1 = k
    BY <1>1
  <2> QED
    BY <1>3, <2>1
<1>8. after[Last] = NUL
  <2>1. Last \in 1 .. Last /\ Last - row + 1 \in Int /\ Last - row + 1 >= size + 1
    BY <1>1
  <2>2. CASE Last - row + 1 \in 1 .. n
    <3>1. Last - row + 1 = size + 1 /\ n = size + 1
      BY <1>1, <2>1, <2>2
    <3> QED
      BY <1>1, <1>3, <2>1, <2>2, <3>1
  <2>3. CASE ~(Last - row + 1 \in 1 .. n)
    BY <1>2, <1>3, <2>1, <2>3
  <2> QED
    BY <2>2, <2>3
<1> QED
  BY <1>1, <1>5, <1>6, <1>7, <1>8

-----------------------------------------------------------------------------
(* The steps. *)

Safe == TypeOK /\ ProbedSoFar /\ NamesKept /\ CommandsInDevice

LEMMA InitSafe == Init => Safe
<1> SUFFICES ASSUME Init
             PROVE  Safe
  OBVIOUS
<1>1. MaxDev \in Nat /\ NameMax \in Nat /\ Erased \in Byte
  BY ChipAssumption
<1>2. TypeOK
  <2>1. cmds \in Seq(Commands)
    BY EmptySeq DEF Init
  <2>2. /\ DOMAIN raw = Ids /\ DOMAIN bad = Ids /\ DOMAIN mtd = Ids
        /\ \A d \in Ids : raw[d] \in [0 .. Chip[d].raw - 1 -> Byte] /\ bad[d] \subseteq Nat
    BY <1>1 DEF Init
  <2>3. \A d \in Ids : mtd[d] \in [writesize : Nat, oobsize : Nat, erasesize : Nat, size : Nat,
                                   name : {NULL, Row(d)}, ops : BOOLEAN]
    BY DEF Init, Unset
  <2>4. names \in [1 .. MaxDev * NameMax + 1 -> Chars]
    BY DEF Init, Chars
  <2>5. listed \in Seq(Line)
    BY EmptySeq DEF Init
  <2>6. /\ hw \in [version : BOOLEAN, num : 0 .. MaxDev + 1]
        /\ pc \in {"start", "probe", "list", "run"} /\ i \in 0 .. MaxDev /\ count \in 0 .. MaxDev
    BY <1>1 DEF Init
  <2> QED
    BY <2>1, <2>2, <2>3, <2>4, <2>5, <2>6, Zenon DEF TypeOK, Commands, Line
<1>3. ProbedSoFar
  BY DEF Init, ProbedSoFar, Unset
<1>4. NamesKept
  <2>1. Working = {}
    BY DEF Init, Working, Unset
  <2>2. MaxDev * NameMax + 1 \in 1 .. MaxDev * NameMax + 1
    BY <1>1, Order
  <2> QED
    BY <2>1, <2>2 DEF Init, NamesKept
<1>5. CommandsInDevice
  BY DEF Init, CommandsInDevice
<1> QED
  BY <1>2, <1>3, <1>4, <1>5 DEF Safe

\* What has come of the name of the device being probed, and whether it is in use.
LEMMA NameReceived ==
  ASSUME Safe, goldfish_nand_init_device, NEW d \in Ids, d = i
  PROVE  \E bytes \in Seq(Chars) :
           /\ Len(bytes) <= NameMax + 1 /\ (Len(bytes) = NameMax + 1 => bytes[NameMax + 1] = NUL)
           /\ names' = Received(d, bytes)
           /\ \/ mtd' = [mtd EXCEPT ![d] = DeviceGeometry(d)]
              \/ /\ mtd' = [mtd EXCEPT ![d] = [DeviceGeometry(d) EXCEPT !.name = Row(d), !.ops = TRUE]]
                 /\ Len(Chip[d].name) <= NameMax /\ bytes = Append(Chip[d].name, NUL)
<1>1. PICK name \in Seq(Chars) : name = Chip[d].name /\ Len(name) \in Nat
  BY NameFacts
<1>2. NameMax \in Nat
  BY ChipAssumption
<1>3. CASE /\ mtd' = [mtd EXCEPT ![d] = DeviceGeometry(d)] /\ names' = names
  <2>1. names' = Received(d, << >>)
    <3>1. names = [a \in DOMAIN names |-> names[a]]
      BY DEF Safe, TypeOK
    <3>2. \A a \in DOMAIN names : a - Row(d) + 1 \notin DOMAIN << >>
      OBVIOUS
    <3> QED
      BY <1>3, <3>1, <3>2 DEF Received
  <2>2. Len(<< >>) = 0 /\ << >> \in Seq(Chars)
    BY EmptySeq
  <2>3. Len(<< >>) <= NameMax + 1 /\ Len(<< >>) # NameMax + 1
    BY <1>2, <2>2
  <2> QED
    BY <1>3, <2>1, <2>2, <2>3, Zenon
<1>4. CASE /\ mtd' = [mtd EXCEPT ![d] = DeviceGeometry(d)] /\ Len(name) <= NameMax
           /\ \E k \in 0 .. Len(name) - 1 : names' = Received(d, SubSeq(name, 1, k))
  <2>1. PICK k \in 0 .. Len(name) - 1 : names' = Received(d, SubSeq(name, 1, k))
    BY <1>4
  <2>2. \A j \in 1 .. k : name[j] \in Chars
    BY <1>1, ElementOfSeq
  <2>3. SubSeq(name, 1, k) \in Seq(Chars) /\ Len(SubSeq(name, 1, k)) = k
    BY <1>1, <2>2, SubSeqProperties
  <2>4. Len(SubSeq(name, 1, k)) <= NameMax + 1 /\ Len(SubSeq(name, 1, k)) # NameMax + 1
    BY <1>1, <1>2, <1>4, <2>3
  <2> QED
    BY <1>4, <2>1, <2>3, <2>4, Zenon
<1>5. CASE /\ mtd' = [mtd EXCEPT ![d] = [DeviceGeometry(d) EXCEPT !.name = Row(d), !.ops = TRUE]]
           /\ Len(name) <= NameMax /\ names' = Received(d, Append(name, NUL))
  <2>1. NUL \in Chars
    BY DEF Chars
  <2>2. /\ Append(name, NUL) \in Seq(Chars) /\ Len(Append(name, NUL)) = Len(name) + 1
        /\ Append(name, NUL)[Len(name) + 1] = NUL
    BY <2>1, AppendProperties
  <2>3. /\ Len(Append(name, NUL)) <= NameMax + 1
        /\ Len(Append(name, NUL)) = NameMax + 1 => Append(name, NUL)[NameMax + 1] = NUL
    BY <1>1, <1>2, <1>5, <2>2
  <2> QED
    BY <1>1, <1>5, <2>2, <2>3
<1> QED
  BY <1>1, <1>3, <1>4, <1>5 DEF goldfish_nand_init_device

LEMMA InitDeviceSafe ==
  ASSUME Safe, goldfish_nand_init_device
  PROVE  Safe'
<1>1. PICK d \in Ids : d = i /\ i + 1 \in 0 .. MaxDev
  <2>1. MaxDev \in Nat /\ i \in 0 .. MaxDev /\ count \in 0 .. MaxDev /\ i < count
    BY ChipAssumption DEF Safe, TypeOK, goldfish_nand_init_device
  <2>2. i \in Ids /\ i + 1 \in 0 .. MaxDev
    BY <2>1 DEF Ids
  <2> QED
    BY <2>2
<1>2. PICK g : g = DeviceGeometry(d)
  OBVIOUS
<1>3. /\ pc = "probe" /\ pc' = pc /\ i' = d + 1 /\ count' = count
      /\ UNCHANGED <<hw, raw, bad, listed, cmds, ret>>
      /\ \/ mtd' = [mtd EXCEPT ![d] = g]
         \/ mtd' = [mtd EXCEPT ![d] = [g EXCEPT !.name = Row(d), !.ops = TRUE]]
  BY <1>1, <1>2 DEF goldfish_nand_init_device
<1>4. PICK page, extra, block, size :
        /\ page = Chip[d].page /\ extra = Chip[d].extra /\ size = DataSize(d)
        /\ block = (Chip[d].erase \div (Chip[d].page + Chip[d].extra)) * Chip[d].page
  OBVIOUS
<1>5. page \in Nat /\ extra \in Nat /\ block \in Nat /\ size \in Nat
  BY <1>4, ChipFacts, BlockFacts
<1>6. g = [writesize |-> page, oobsize |-> extra, erasesize |-> block, size |-> size,
           name |-> NULL, ops |-> FALSE]
  BY <1>2, <1>4 DEF DeviceGeometry, DataSize
<1>7. PICK m : mtd' = [mtd EXCEPT ![d] = m]
               /\ m \in [writesize : {page}, oobsize : {extra}, erasesize : {block}, size : {size},
                         name : {NULL, Row(d)}, ops : BOOLEAN]
  <2> DEFINE Set == [writesize : {page}, oobsize : {extra}, erasesize : {block}, size : {size},
                     name : {NULL, Row(d)}, ops : BOOLEAN]
  <2>1. g \in Set
    BY <1>6
  <2>2. [g EXCEPT !.name = Row(d), !.ops = TRUE] \in Set
    BY <1>6
  <2> QED
    BY <1>3, <2>1, <2>2
<1>8. DOMAIN mtd = Ids /\ DOMAIN mtd' = Ids /\ mtd'[d] = m /\ \A e \in Ids \ {d} : mtd'[e] = mtd[e]
  BY <1>7 DEF Safe, TypeOK
<1>9. PICK bytes \in Seq(Chars) :
        /\ Len(bytes) <= NameMax + 1 /\ (Len(bytes) = NameMax + 1 => bytes[NameMax + 1] = NUL)
        /\ names' = Received(d, bytes)
        /\ mtd'[d].ops => /\ Len(Chip[d].name) <= NameMax /\ bytes = Append(Chip[d].name, NUL)
                          /\ mtd'[d].name = Row(d)
  <2>1. DOMAIN mtd = Ids /\ DeviceGeometry(d).ops = FALSE
    BY DEF Safe, TypeOK, DeviceGeometry
  <2>2. [DeviceGeometry(d) EXCEPT !.name = Row(d), !.ops = TRUE].name = Row(d)
    BY DEF DeviceGeometry
  <2> QED
    BY <1>1, <2>1, <2>2, NameReceived
<1>10. /\ names' \in [1 .. Last -> Chars] /\ names'[Last] = NUL
       /\ \A a \in 1 .. Last : a < Row(d) => names'[a] = names[a]
       /\ \A k \in 1 .. Len(bytes) : names'[Row(d) + k - 1] = bytes[k]
  BY <1>9, ReceivedOK DEF Safe
<1>11. TypeOK'
  <2>1. \A e \in Ids : mtd'[e] \in [writesize : Nat, oobsize : Nat, erasesize : Nat, size : Nat,
                                    name : {NULL, Row(e)}, ops : BOOLEAN]
    <3>1. mtd'[d] \in [writesize : Nat, oobsize : Nat, erasesize : Nat, size : Nat,
                       name : {NULL, Row(d)}, ops : BOOLEAN]
      BY <1>5, <1>7, <1>8
    <3> QED
      BY <1>8, <3>1 DEF Safe, TypeOK
  <2> QED
    BY <1>1, <1>3, <1>8, <1>10, <2>1 DEF Safe, TypeOK, Row, Last, Chars
<1>12. Probed(d)'
  BY <1>4, <1>7, <1>8 DEF Probed, DataSize
<1>13. ASSUME NEW e \in Ids \ {d}, Probed(e)
       PROVE  Probed(e)'
  BY <1>8, <1>13 DEF Probed, DataSize
<1>14. ProbedSoFar'
  <2>1. \A e \in Ids : mtd'[e].ops => Probed(e)'
    BY <1>8, <1>12, <1>13 DEF Safe, ProbedSoFar
  <2>2. \A e \in 0 .. d : e \in Ids /\ Probed(e)'
    <3> SUFFICES ASSUME NEW e \in 0 .. d
                 PROVE  e \in Ids /\ Probed(e)'
      OBVIOUS
    <3>1. e \in Ids
      BY ChipAssumption DEF Ids
    <3>2. CASE e = d
      BY <1>12, <3>1, <3>2
    <3>3. CASE e # d
      <4>1. e \in 0 .. i - 1
        BY <1>1, <3>3 DEF Ids
      <4>2. Probed(e)
        BY <1>3, <4>1 DEF Safe, ProbedSoFar
      <4> QED
        BY <1>13, <3>1, <3>3, <4>2
    <3> QED
      BY <3>2, <3>3
  <2>3. \A e \in 0 .. i' - 1 : Probed(e)'
    BY <1>1, <1>3, <2>2 DEF Ids
  <2>4. cmds' = <<>>
    BY <1>3 DEF Safe, ProbedSoFar
  <2> QED
    BY <1>3, <2>1, <2>3, <2>4 DEF ProbedSoFar
<1>15. NamesKept'
  <2>1. Working' \subseteq Working \cup {d}
    BY <1>8 DEF Working
  <2>2. ASSUME NEW e \in Working
        PROVE  e \in Ids /\ e < d /\ NameKept(e)
    BY <1>1, <1>3, <2>2 DEF Working, Safe, NamesKept
  <2>3. ASSUME NEW e \in Working
        PROVE  NameKept(e)'
    <3>1. PICK row \in Nat, room \in Nat, n \in Nat, name \in Seq(Chars) :
            /\ row = Row(e) /\ room = NameMax /\ name = Chip[e].name /\ n = Len(name)
            /\ row >= 1 /\ Row(d) \in Nat /\ row + room <= Row(d) /\ Row(d) <= Last /\ Last \in Nat
      <4>1. Row(e) \in Nat /\ NameMax \in Nat /\ Row(e) >= 1 /\ Len(Chip[e].name) \in Nat
            /\ Chip[e].name \in Seq(Chars)
        BY <2>2, <2>3, RowFits, NameFacts
      <4>2. /\ Row(d) \in Nat /\ Row(e) + NameMax <= Row(d) /\ Row(d) + NameMax <= Last /\ Last \in Nat
        BY <2>2, <2>3, RowFits
      <4>3. Row(d) <= Last
        BY <4>1, <4>2
      <4> QED
        BY <4>1, <4>2, <4>3
    <3>2. /\ mtd[e].name = row /\ n <= room /\ \A k \in 1 .. n : names[row + k - 1] = name[k]
          /\ n < room => names[row + n] = NUL
      BY <2>2, <2>3, <3>1 DEF NameKept
    <3>3. \A a \in Nat : a >= row /\ a < row + room => names'[a] = names[a]
      <4>1. \A a \in Nat : a >= row /\ a < row + room => a \in 1 .. Last /\ a < Row(d)
        BY <3>1
      <4> QED
        BY <1>10, <4>1
    <3>4. \A k \in 1 .. n : names'[row + k - 1] = name[k]
      <4>1. \A k \in 1 .. n : row + k - 1 \in Nat /\ row + k - 1 >= row /\ row + k - 1 < row + room
        BY <3>1, <3>2
      <4> QED
        BY <3>2, <3>3, <4>1
    <3>5. n < room => names'[row + n] = NUL
      <4>1. n < room => row + n \in Nat /\ row + n >= row /\ row + n < row + room
        BY <3>1
      <4> QED
        BY <3>2, <3>3, <4>1
    <3>6. mtd'[e].name = row
      <4>1. d \in Nat /\ e \in Ids /\ e # d
        BY <2>2, <2>3 DEF Ids
      <4> QED
        BY <1>8, <3>2, <4>1
    <3> QED
      BY <3>1, <3>2, <3>4, <3>5, <3>6 DEF NameKept, Row
  <2>4. ASSUME d \in Working'
        PROVE  NameKept(d)'
    <3>1. /\ mtd'[d].name = Row(d) /\ Len(Chip[d].name) <= NameMax /\ bytes = Append(Chip[d].name, NUL)
      BY <1>9, <2>4 DEF Working
    <3>2. PICK name \in Seq(Chars), n \in Nat : name = Chip[d].name /\ n = Len(name)
      BY NameFacts
    <3>3. /\ Len(bytes) = n + 1 /\ bytes[n + 1] = NUL /\ \A k \in 1 .. n : bytes[k] = name[k]
      <4>1. NUL \in Chars
        BY DEF Chars
      <4> QED
        BY <3>1, <3>2, <4>1, AppendProperties
    <3>4. \A k \in 1 .. n : names'[Row(d) + k - 1] = name[k]
      BY <1>10, <3>3
    <3>5. names'[Row(d) + n] = NUL
      <4>1. n + 1 \in 1 .. Len(bytes) /\ Row(d) + (n + 1) - 1 = Row(d) + n
        BY <3>3, RowFits
      <4> QED
        BY <1>10, <3>3, <4>1
    <3> QED
      BY <3>1, <3>2, <3>4, <3>5 DEF NameKept, Row
  <2>5. \A e \in Working' : NameKept(e)' /\ e < i'
    BY <1>1, <1>3, <2>1, <2>2, <2>3, <2>4 DEF Ids
  <2>6. listed' = << >>
    BY <1>3 DEF Safe, NamesKept
  <2> QED
    BY <1>3, <1>10, <2>5, <2>6 DEF NamesKept, Last
<1>16. CommandsInDevice'
  <2>1. cmds' = <<>>
    BY <1>3 DEF Safe, ProbedSoFar
  <2> QED
    BY <2>1 DEF CommandsInDevice
<1> QED
  BY <1>11, <1>14, <1>15, <1>16 DEF Safe


\* The steps before any request that do not touch the devices' table.
LEMMA ListingSafe ==
  ASSUME Safe, board_nand_init \/ ProbeDone \/ List
  PROVE  Safe' /\ Working' = Working
<1>1. UNCHANGED <<hw, raw, bad, mtd, names, cmds, ret>> /\ pc # "run"
  BY DEF board_nand_init, ProbeDone, List, ListDevice, ListDone
<1>2. cmds' = <<>>
  BY <1>1 DEF Safe, ProbedSoFar
<1>3. pc' \in {"probe", "list", "run"} /\ i' \in 0 .. MaxDev /\ count' \in 0 .. MaxDev
  <2>1. MaxDev \in Nat
    BY ChipAssumption
  <2> QED
    BY <2>1 DEF Safe, TypeOK, board_nand_init, NumDevUsable, ProbeDone, List, ListDevice, ListDone
<1>4. listed' \in Seq(Line) /\ (pc \in {"start", "probe"} => listed' = << >>)
      /\ (pc' = "list" => i' = Len(listed'))
  <2>1. listed \in Seq(Line)
    BY DEF Safe, TypeOK, Line
  <2>2. CASE board_nand_init \/ ProbeDone
    <3>1. listed = << >> /\ listed' = listed /\ pc' \in {"probe", "list"} /\ i' = 0
      BY <2>2 DEF board_nand_init, ProbeDone, Safe, NamesKept, ProbedSoFar
    <3> QED
      BY <3>1, EmptySeq
  <2>3. CASE ListDevice
    <3>1. pc = "list" /\ i = Len(listed) /\ i' = i + 1 /\ listed' = Append(listed, Listing(mtd[i]))
      BY <2>3 DEF ListDevice, Safe, NamesKept
    <3>2. i \in Ids /\ Probed(i)
      <4>1. i \in 0 .. count - 1 /\ count \in 0 .. MaxDev /\ MaxDev \in Nat
        BY <2>3, ChipAssumption DEF ListDevice, Safe, TypeOK
      <4> QED
        BY <3>1, <4>1 DEF Safe, ProbedSoFar, Ids
    <3>3. Listing(mtd[i]) \in Line
      BY <3>2, ListedRight DEF Safe
    <3> QED
      BY <2>1, <3>1, <3>3, AppendProperties
  <2>4. CASE ListDone
    BY <2>1, <2>4 DEF ListDone
  <2> QED
    BY <2>2, <2>3, <2>4 DEF List
<1>5. TypeOK'
  BY <1>1, <1>3, <1>4 DEF Safe, TypeOK, Row, Line, Chars
<1>6. \A d : Probed(d) => Probed(d)'
  BY <1>1 DEF Probed, DataSize
<1>7. ProbedSoFar'
  <2>1. \A d \in Ids : mtd'[d].ops => Probed(d)'
    BY <1>1, <1>6 DEF Safe, ProbedSoFar
  <2>2. \A d \in 0 .. (IF pc' = "probe" THEN i' ELSE count') - 1 : Probed(d)
    <3>1. CASE board_nand_init
      <4>1. pc = "start" /\ i' = 0 /\ (pc' = "probe" \/ count' = 0)
        BY <3>1 DEF board_nand_init, Safe, ProbedSoFar
      <4> QED
        BY <4>1
    <3>2. CASE ProbeDone
      <4>1. pc = "probe" /\ pc' = "list" /\ count' = count /\ i >= count /\ i \in Nat /\ count \in Nat
        BY <3>2 DEF ProbeDone, Safe, TypeOK
      <4>2. \A d \in 0 .. i - 1 : Probed(d)
        BY <4>1 DEF Safe, ProbedSoFar
      <4> QED
        BY <4>1, <4>2
    <3>3. CASE List
      <4>1. pc = "list" /\ pc' # "probe" /\ count' = count
        BY <3>3 DEF List, ListDevice, ListDone
      <4>2. \A d \in 0 .. count - 1 : Probed(d)
        BY <4>1 DEF Safe, ProbedSoFar
      <4> QED
        BY <4>1, <4>2
    <3> QED
      BY <3>1, <3>2, <3>3
  <2> QED
    BY <1>2, <1>3, <1>6, <2>1, <2>2 DEF ProbedSoFar
<1>8. CommandsInDevice'
  BY <1>2 DEF CommandsInDevice
<1>9. Working' = Working
  BY <1>1 DEF Working
<1>10. NamesKept'
  <2>1. \A d \in Working : NameKept(d)' /\ (pc' = "probe" => d < i')
    <3>1. \A d \in Working : NameKept(d) => NameKept(d)'
      BY <1>1 DEF NameKept, Row
    <3>2. pc' = "probe" => pc = "start" /\ i' = i
      BY DEF board_nand_init, ProbeDone, List, ListDevice, ListDone
    <3> QED
      BY <3>1, <3>2 DEF Safe, NamesKept
  <2>2. pc' = "probe" => pc \in {"start", "probe"}
    BY DEF board_nand_init, ProbeDone, List, ListDevice, ListDone
  <2> QED
    BY <1>1, <1>3, <1>4, <1>9, <2>1, <2>2 DEF Safe, NamesKept
<1> QED
  BY <1>5, <1>7, <1>8, <1>9, <1>10 DEF Safe

Asked(d, ofs) ==
    \/ \E len \in Lengths(d) \cup LongErases : goldfish_nand_erase(d, ofs, len)
    \/ \E len \in Lengths(d) :
         \/ goldfish_nand_read(d, ofs, len)
         \/ \E buf \in Bufs(d, len) : goldfish_nand_write(d, ofs, len, buf)
    \/ \E ops \in Ops(d) :
         \/ goldfish_nand_read_oob(d, ofs, ops)
         \/ \E buf \in Bufs(d, DataLen(ops)), oobbuf \in Bufs(d, OobLen(ops)) :
              goldfish_nand_write_oob(d, ofs, ops, buf, oobbuf)
    \/ goldfish_nand_block_isbad(d, ofs)
    \/ goldfish_nand_block_markbad(d, ofs)

\* A call does not touch the tables of the devices and their names.
LEMMA CallKeepsNames ==
  ASSUME NamesKept, UNCHANGED Calling
  PROVE  NamesKept' /\ Working' = Working
<1>1. UNCHANGED <<pc, i, mtd, names, listed>>
  BY DEF Calling
<1>2. Working' = Working
  BY <1>1 DEF Working
<1>3. \A d \in Working : NameKept(d) => NameKept(d)'
  BY <1>1 DEF NameKept, Row
<1> QED
  BY <1>1, <1>2, <1>3 DEF NamesKept

LEMMA RequestSafe ==
  ASSUME Safe, Request
  PROVE  Safe' /\ UNCHANGED Calling
<1>1. pc = "run" /\ TypeOK /\ ProbedSoFar
  BY DEF Safe, Request
<1>2. PICK d \in Working : \E ofs \in Offsets(d) : Asked(d, ofs)
  BY DEF Request, Asked
<1>3. PICK ofs \in Offsets(d) : Asked(d, ofs)
  BY <1>2
<1>4. ofs \in Nat /\ Lengths(d) \subseteq Nat /\ LongErases \subseteq Nat
  <2>1. 0 .. 2^WideBits - 1 \subseteq Nat /\ LongErases \subseteq 0 .. 2^WideBits - 1
    BY Limits, ChipAssumption
  <2> QED
    BY <1>1, <2>1, InUse
<1>5. UNCHANGED Calling
  BY <1>3 DEF Asked, goldfish_nand_erase, goldfish_nand_read, goldfish_nand_write,
              goldfish_nand_read_oob, goldfish_nand_write_oob,
              goldfish_nand_block_isbad, goldfish_nand_block_markbad
<1>6. ASSUME NEW r, NEW from, Sized(d, r), M!Wraps(r), Harmless(d, r, from)
      PROVE  TypeOK' /\ ProbedSoFar' /\ CommandsInDevice'
  BY <1>1, <1>5, <1>6, HarmlessCall
<1>7. ASSUME NEW len \in Lengths(d) \cup LongErases, goldfish_nand_erase(d, ofs, len)
      PROVE  TypeOK' /\ ProbedSoFar' /\ CommandsInDevice'
  <2>1. len \in Nat
    BY <1>4
  <2>2. CASE ofs + Word(len) < 2^WideBits
    BY <1>1, <1>4, <1>7, <2>1, <2>2, EraseFits
  <2>3. CASE ~(ofs + Word(len) < 2^WideBits)
    <3>1. ofs + Word(len) >= 2^WideBits
      BY <1>4, <2>1, <2>3, WordFacts, Limits
    <3> QED
      BY <1>1, <1>4, <1>7, <1>6, <2>1, <3>1, EraseWraps
  <2> QED
    BY <2>2, <2>3
<1>8. ASSUME NEW len \in Lengths(d), goldfish_nand_read(d, ofs, len)
      PROVE  TypeOK' /\ ProbedSoFar' /\ CommandsInDevice'
  <2>1. len \in Nat
    BY <1>4
  <2>2. CASE ofs + len < 2^WideBits
    BY <1>1, <1>4, <1>8, <2>1, <2>2, ReadFits
  <2>3. CASE ~(ofs + len < 2^WideBits)
    <3>1. ofs + len >= 2^WideBits
      BY <1>4, <2>1, <2>3, Limits
    <3> QED
      BY <1>1, <1>4, <1>8, <1>6, <2>1, <3>1, ReadWraps
  <2> QED
    BY <2>2, <2>3
<1>9. ASSUME NEW len \in Lengths(d), NEW buf \in Bufs(d, len), goldfish_nand_write(d, ofs, len, buf)
      PROVE  TypeOK' /\ ProbedSoFar' /\ CommandsInDevice'
  <2>1. len \in Nat
    BY <1>4
  <2>2. CASE ofs + len < 2^WideBits
    BY <1>1, <1>4, <1>9, <2>1, <2>2, WriteFits
  <2>3. CASE ~(ofs + len < 2^WideBits)
    <3>1. ofs + len >= 2^WideBits
      BY <1>4, <2>1, <2>3, Limits
    <3> QED
      BY <1>1, <1>4, <1>9, <1>6, <2>1, <3>1, WriteWraps
  <2> QED
    BY <2>2, <2>3
<1>10. ASSUME NEW ops \in Ops(d), goldfish_nand_read_oob(d, ofs, ops)
      PROVE  TypeOK' /\ ProbedSoFar' /\ CommandsInDevice'
  <2>1. CASE NoOobWrap(ofs, ops)
    BY <1>1, <1>4, <1>10, <2>1, ReadOobFits
  <2>2. CASE ~NoOobWrap(ofs, ops)
    BY <1>1, <1>4, <1>10, <1>6, <2>2, ReadOobWraps
  <2> QED
    BY <2>1, <2>2
<1>11. ASSUME NEW ops \in Ops(d), NEW buf \in Bufs(d, DataLen(ops)), NEW oobbuf \in Bufs(d, OobLen(ops)),
             goldfish_nand_write_oob(d, ofs, ops, buf, oobbuf)
      PROVE  TypeOK' /\ ProbedSoFar' /\ CommandsInDevice'
  <2>1. CASE NoOobWrap(ofs, ops)
    BY <1>1, <1>4, <1>11, <2>1, WriteOobFits
  <2>2. CASE ~NoOobWrap(ofs, ops)
    BY <1>1, <1>4, <1>11, <1>6, <2>2, WriteOobWraps
  <2> QED
    BY <2>1, <2>2
<1>12. ASSUME goldfish_nand_block_isbad(d, ofs) \/ goldfish_nand_block_markbad(d, ofs)
      PROVE  TypeOK' /\ ProbedSoFar' /\ CommandsInDevice'
  BY <1>1, <1>4, <1>12, BlockFits
<1>13. TypeOK' /\ ProbedSoFar' /\ CommandsInDevice'
  BY <1>3, <1>7, <1>8, <1>9, <1>10, <1>11, <1>12 DEF Asked
<1> QED
  BY <1>5, <1>13, CallKeepsNames DEF Safe

LEMMA NextSafe == Safe /\ [Next]_vars => Safe'
<1> SUFFICES ASSUME Safe, [Next]_vars
             PROVE  Safe'
  OBVIOUS
<1>1. CASE Probe
  BY <1>1, InitDeviceSafe, ListingSafe DEF Probe
<1>2. CASE List
  BY <1>2, ListingSafe
<1>3. CASE Request
  BY <1>3, RequestSafe
<1>4. CASE Return
  <2>1. UNCHANGED <<hw, pc, i, count, mtd, names, listed, raw, bad>> /\ cmds' = <<>>
    BY <1>4 DEF Return, Calling
  <2>2. cmds' \in Seq(Commands)
    BY <2>1, EmptySeq
  <2>3. TypeOK'
    BY <2>1, <2>2 DEF Safe, TypeOK, Commands, Row, Chars
  <2>4. ProbedSoFar'
    BY <2>1 DEF Safe, ProbedSoFar, Probed, DataSize
  <2>5. CommandsInDevice'
    BY <2>1 DEF CommandsInDevice
  <2>6. NamesKept'
    BY <1>4, CallKeepsNames DEF Return, Safe
  <2> QED
    BY <2>3, <2>4, <2>5, <2>6 DEF Safe
<1>5. CASE UNCHANGED vars
  <2>1. TypeOK' /\ ProbedSoFar'
    BY <1>5 DEF vars, Safe, TypeOK, Row, Chars, ProbedSoFar, Probed, DataSize
  <2>2. NamesKept'
    BY <1>5, CallKeepsNames DEF vars, Calling, Safe
  <2>3. CommandsInDevice'
    BY <1>5 DEF vars, Safe, CommandsInDevice, InDevice, M!Wraps
  <2> QED
    BY <2>1, <2>2, <2>3 DEF Safe
<1> QED
  BY <1>1, <1>2, <1>3, <1>4, <1>5 DEF Next

\* The sizes of a listed device are its chip's, and a chip's are whole.
LEMMA GeometryIsWhole == TypeOK /\ ProbedSoFar => ListedHaveGeometry
<1> SUFFICES ASSUME TypeOK, ProbedSoFar, pc \in {"list", "run"}, NEW d \in 0 .. count - 1
             PROVE  /\ mtd[d].writesize > 0 /\ mtd[d].erasesize > 0
                    /\ mtd[d].erasesize % mtd[d].writesize = 0
                    /\ mtd[d].size % mtd[d].writesize = 0
  BY DEF ListedHaveGeometry
<1>1. d \in Ids
  BY ChipAssumption DEF TypeOK, Ids
<1>2. Probed(d)
  BY DEF ProbedSoFar
<1>3. PICK block : block = Chip[d].erase \div (Chip[d].page + Chip[d].extra)
  OBVIOUS
<1>4. /\ block * Chip[d].page \in Nat /\ block * Chip[d].page >= 1
      /\ (block * Chip[d].page) % Chip[d].page = 0 /\ DataSize(d) % Chip[d].page = 0
      /\ Chip[d].page \in Nat /\ Chip[d].page >= 1
  BY <1>1, <1>3, BlockFacts, ChipFacts
<1> QED
  BY <1>2, <1>3, <1>4 DEF Probed

LEMMA SafeHolds == Spec => []Safe
BY InitSafe, NextSafe, PTL DEF Spec

\* A line is right when it is printed, and stays so: no device comes into use later.
LEMMA NextListRight == Safe /\ ListRight /\ [Next]_vars => ListRight'
<1> SUFFICES ASSUME Safe, ListRight, [Next]_vars
             PROVE  ListRight'
  OBVIOUS
<1>1. \A d \in 0 .. Len(listed) - 1 : LineRight(listed[d + 1], d, d \in Working)
  BY DEF ListRight, LineRight
<1>2. ASSUME \A d \in 0 .. Len(listed') - 1 : LineRight(listed'[d + 1], d, d \in Working')
      PROVE  ListRight'
  BY <1>2 DEF ListRight, LineRight
<1>3. CASE goldfish_nand_init_device
  <2>1. listed' = << >>
    BY <1>3 DEF goldfish_nand_init_device, Safe, NamesKept
  <2>2. Len(listed') = 0
    BY <2>1
  <2> QED
    BY <1>2, <2>2
<1>4. CASE ListDevice
  <2>1. /\ pc = "list" /\ i = Len(listed) /\ listed' = Append(listed, Listing(mtd[i]))
    BY <1>4 DEF ListDevice, Safe, NamesKept
  <2>2. i \in Ids /\ i \in Nat /\ Probed(i)
    <3>1. i \in 0 .. count - 1 /\ count \in 0 .. MaxDev /\ MaxDev \in Nat
      BY <1>4, ChipAssumption DEF ListDevice, Safe, TypeOK
    <3> QED
      BY <2>1, <3>1 DEF Safe, ProbedSoFar, Ids
  <2>3. PICK l : l = Listing(mtd[i]) /\ l \in Line /\ LineRight(l, i, i \in Working)
    BY <2>2, ListedRight DEF Safe
  <2>4. /\ listed \in Seq(Line) /\ Len(listed') = Len(listed) + 1 /\ listed'[Len(listed) + 1] = l
        /\ \A k \in 1 .. Len(listed) : listed'[k] = listed[k]
    BY <2>1, <2>3, AppendProperties DEF Safe, TypeOK, Line
  <2>5. Working' = Working
    BY <1>4, ListingSafe DEF List
  <2>6. \A d \in 0 .. Len(listed') - 1 : LineRight(listed'[d + 1], d, d \in Working)
    BY <1>1, <2>1, <2>2, <2>3, <2>4
  <2> QED
    BY <1>2, <2>5, <2>6
<1>5. CASE listed' = listed /\ Working' = Working
  BY <1>1, <1>2, <1>5
<1>6. CASE board_nand_init \/ ProbeDone \/ ListDone
  <2>1. listed' = listed
    BY <1>6 DEF board_nand_init, ProbeDone, ListDone
  <2> QED
    BY <1>5, <1>6, <2>1, ListingSafe DEF List
<1>7. CASE Request \/ Return \/ UNCHANGED vars
  <2>1. UNCHANGED Calling
    BY <1>7, RequestSafe DEF Return, vars, Calling
  <2>2. listed' = listed /\ Working' = Working
    BY <2>1, CallKeepsNames DEF Safe, Calling
  <2> QED
    BY <1>5, <2>2
<1> QED
  BY <1>3, <1>4, <1>6, <1>7 DEF Next, Probe, List

-----------------------------------------------------------------------------
(* The driver implements Mtd.  First bytes: what a command stores in the    *)
(* areas of the pages, and what it reads of them.                           *)

RawPage(d) == Chip[d].page + Chip[d].extra

\* The command is for page p of device d from its byte o on.
At(c, d, p, o) == c.dev = d /\ c.addr = p * RawPage(d) + o

\* The pages of a device: their numbers, and that each is inside it.
LEMMA PageFacts ==
  ASSUME NEW d \in Ids, NEW p \in PageIds(d)
  PROVE  /\ p \in Nat /\ RawPage(d) \in Nat /\ RawPage(d) >= 1 /\ p * RawPage(d) \in Nat
         /\ p * RawPage(d) + RawPage(d) <= Chip[d].raw
<1>1. PICK page \in Nat, raw_page \in Nat, bytes \in Nat :
        /\ page = Chip[d].page /\ raw_page = RawPage(d) /\ bytes = Chip[d].raw
        /\ page >= 1 /\ raw_page >= 1 /\ raw_page = Chip[d].page + Chip[d].extra
  <2>1. Chip[d].page \in Nat /\ Chip[d].page >= 1 /\ Chip[d].extra \in Nat /\ Chip[d].raw \in Nat
    BY ChipFacts
  <2>2. /\ RawPage(d) = Chip[d].page + Chip[d].extra /\ Chip[d].page + Chip[d].extra \in Nat
        /\ Chip[d].page + Chip[d].extra >= 1
    BY <2>1 DEF RawPage
  <2> QED
    BY <2>1, <2>2
<1>2. PICK pages \in Nat : pages = bytes \div raw_page /\ PageIds(d) = 0 .. pages - 1
  BY <1>1, BlockFacts DEF PageIds
<1>3. pages * raw_page <= bytes /\ pages * raw_page \in Nat
  <2>1. raw_page >= 1
    BY <1>1
  <2>2. /\ bytes % raw_page \in 0 .. raw_page - 1
        /\ bytes = (bytes \div raw_page) * raw_page + (bytes % raw_page)
    BY <2>1, Division
  <2>3. pages * raw_page \in Nat
    BY Order
  <2> QED
    BY <1>2, <2>2, <2>3
<1>4. p \in Nat /\ p + 1 <= pages
  BY <1>2
<1>5. (p + 1) * raw_page <= pages * raw_page /\ (p + 1) * raw_page = p * raw_page + raw_page
      /\ p * raw_page \in Nat
  BY <1>4, Order
<1> QED
  BY <1>1, <1>3, <1>4, <1>5

\* Two pages share no byte.
LEMMA PagesApart ==
  ASSUME NEW p \in Nat, NEW q \in Nat, NEW y \in Nat, p # q
  PROVE  p * y + y <= q * y \/ q * y + y <= p * y
<1>1. (p + 1) * y = p * y + y /\ (q + 1) * y = q * y + y
  OBVIOUS
<1>2. p + 1 <= q => (p + 1) * y <= q * y
  BY Order
<1>3. q + 1 <= p => (q + 1) * y <= p * y
  BY Order
<1> QED
  BY <1>1, <1>2, <1>3

\* The byte b of page q after a command has stored bytes in page p from its byte o on.
LEMMA StoredInPage ==
  ASSUME NEW r, RawOK(r), NEW d \in Ids, NEW p \in PageIds(d), NEW o \in Nat,
         NEW c \in Commands, At(c, d, p, o),
         NEW bytes, Len(bytes) \in Nat, o + Len(bytes) <= RawPage(d),
         NEW e \in Ids, NEW q \in PageIds(e), NEW b \in 0 .. RawPage(e) - 1
  PROVE  Stored(r, c, bytes)[e][q * RawPage(e) + b] =
           IF e = d /\ q = p /\ b >= o /\ b < o + Len(bytes)
           THEN bytes[b - o + 1] ELSE r[e][q * RawPage(e) + b]
<1>1. /\ q \in Nat /\ RawPage(e) \in Nat /\ q * RawPage(e) \in Nat /\ Chip[e].raw \in Nat
      /\ q * RawPage(e) + RawPage(e) <= Chip[e].raw
      /\ p \in Nat /\ RawPage(d) \in Nat /\ p * RawPage(d) \in Nat
  BY PageFacts, ChipFacts
<1>2. PICK a \in 0 .. Chip[e].raw - 1 : a = q * RawPage(e) + b
  <2>1. PICK y \in Nat, qy \in Nat, m \in Nat :
          y = RawPage(e) /\ qy = q * RawPage(e) /\ m = Chip[e].raw /\ qy + y <= m
    BY <1>1
  <2>2. b \in Nat /\ b < y
    BY <2>1
  <2>3. qy + y <= m
    BY <2>1
  <2>4. qy + b \in 0 .. m - 1
    BY <2>2, <2>3
  <2> QED
    BY <2>1, <2>4
<1>3. Stored(r, c, bytes)[e][a] =
           IF e = c.dev /\ a >= c.addr /\ a < c.addr + Len(bytes)
           THEN bytes[a - c.addr + 1] ELSE r[e][a]
  BY StoredBytes
<1>4. CASE e = d /\ q = p
  <2>1. /\ a >= c.addr <=> b >= o
        /\ a < c.addr + Len(bytes) <=> b < o + Len(bytes)
        /\ a - c.addr = b - o
    <3>1. PICK py \in Nat : py = p * RawPage(d) /\ a = py + b /\ c.addr = py + o
      BY <1>1, <1>2, <1>4 DEF At
    <3> QED
      BY <3>1
  <2> QED
    BY <1>2, <1>3, <1>4, <2>1 DEF At
<1>5. CASE e = d /\ q # p
  <2>1. PICK y \in Nat, py \in Nat, qy \in Nat, n \in Nat :
          y = RawPage(d) /\ py = p * RawPage(d) /\ qy = q * RawPage(d) /\ n = Len(bytes)
    BY <1>1, <1>5
  <2>2. py + y <= qy \/ qy + y <= py
    BY <1>1, <1>5, <2>1, PagesApart
  <2>3. ~(a >= c.addr /\ a < c.addr + n)
    BY <1>2, <1>5, <2>1, <2>2 DEF At
  <2> QED
    BY <1>2, <1>3, <1>5, <2>1, <2>3
<1>6. CASE e # d
  BY <1>2, <1>3, <1>6 DEF At
<1> QED
  BY <1>4, <1>5, <1>6

\* The bytes of the areas.
LEMMA AreaBytes ==
  ASSUME NEW r, NEW d \in Ids, NEW p \in PageIds(d)
  PROVE  /\ DOMAIN Data(r)[d][p] = 0 .. Chip[d].page - 1
         /\ \A b \in 0 .. Chip[d].page - 1 :
              Data(r)[d][p][b] = r[d][p * RawPage(d) + b] /\ b \in 0 .. RawPage(d) - 1
         /\ DOMAIN Oob(r)[d][p] = 0 .. Chip[d].extra - 1
         /\ \A b \in 0 .. Chip[d].extra - 1 :
              /\ Oob(r)[d][p][b] = r[d][p * RawPage(d) + (Chip[d].page + b)]
              /\ Chip[d].page + b \in 0 .. RawPage(d) - 1
<1>1. /\ Chip[d].page \in Nat /\ Chip[d].extra \in Nat /\ p * RawPage(d) \in Nat
      /\ RawPage(d) = Chip[d].page + Chip[d].extra
  BY ChipFacts, PageFacts DEF RawPage
<1>2. Data(r)[d][p] = [b \in 0 .. Chip[d].page - 1 |-> r[d][p * RawPage(d) + 0 + b]]
  BY DEF Data, Area, RawPage
<1>3. Oob(r)[d][p] = [b \in 0 .. Chip[d].extra - 1 |-> r[d][p * RawPage(d) + Chip[d].page + b]]
  BY DEF Oob, Area, RawPage
<1>4. \A b \in 0 .. Chip[d].page - 1 : p * RawPage(d) + 0 + b = p * RawPage(d) + b
  BY <1>1
<1>5. \A b \in 0 .. Chip[d].extra - 1 :
        p * RawPage(d) + Chip[d].page + b = p * RawPage(d) + (Chip[d].page + b)
  BY <1>1
<1>6. /\ \A b \in 0 .. Chip[d].page - 1 : b \in 0 .. RawPage(d) - 1
      /\ \A b \in 0 .. Chip[d].extra - 1 : Chip[d].page + b \in 0 .. RawPage(d) - 1
  BY <1>1
<1> QED
  BY <1>2, <1>3, <1>4, <1>5, <1>6

\* Page p of device d has the same bytes in r and s; and every other page has.
SamePage(r, s, d, p) ==
  \A b \in 0 .. RawPage(d) - 1 : s[d][p * RawPage(d) + b] = r[d][p * RawPage(d) + b]
SameElsewhere(r, s, d, p) ==
  \A e \in Ids : \A q \in PageIds(e) : e # d \/ q # p => SamePage(r, s, e, q)

\* s has the areas of r, page p's of device d apart.
OnlyPage(r, s, d, p) ==
  /\ Data(s) = [Data(r) EXCEPT ![d][p] = Data(s)[d][p]]
  /\ Oob(s) = [Oob(r) EXCEPT ![d][p] = Oob(s)[d][p]]

AreasOK(f) ==
  /\ f = [x \in Ids |-> f[x]]
  /\ \A x \in Ids : f[x] = [q \in PageIds(x) |-> f[x][q]]

LEMMA AreasAreFunctions ==
  ASSUME NEW r
  PROVE  AreasOK(Data(r)) /\ AreasOK(Oob(r))
BY DEF AreasOK, Data, Oob

LEMMA SameArea ==
  ASSUME NEW r, NEW s, NEW d \in Ids, NEW p \in PageIds(d),
         SamePage(r, s, d, p)
  PROVE  Data(s)[d][p] = Data(r)[d][p] /\ Oob(s)[d][p] = Oob(r)[d][p]
<1>1. Data(s)[d][p] = Data(r)[d][p]
  <2>1. /\ Data(s)[d][p] = [b \in 0 .. Chip[d].page - 1 |-> Data(s)[d][p][b]]
        /\ Data(r)[d][p] = [b \in 0 .. Chip[d].page - 1 |-> Data(r)[d][p][b]]
    BY DEF Data, Area
  <2>2. \A b \in 0 .. Chip[d].page - 1 : Data(s)[d][p][b] = Data(r)[d][p][b]
    BY AreaBytes DEF SamePage
  <2> QED
    BY <2>1, <2>2
<1>2. Oob(s)[d][p] = Oob(r)[d][p]
  <2>1. /\ Oob(s)[d][p] = [b \in 0 .. Chip[d].extra - 1 |-> Oob(s)[d][p][b]]
        /\ Oob(r)[d][p] = [b \in 0 .. Chip[d].extra - 1 |-> Oob(r)[d][p][b]]
    BY DEF Oob, Area
  <2>2. \A b \in 0 .. Chip[d].extra - 1 : Oob(s)[d][p][b] = Oob(r)[d][p][b]
    BY AreaBytes DEF SamePage
  <2> QED
    BY <2>1, <2>2
<1> QED
  BY <1>1, <1>2

\* One page's bytes changed: of the areas, those of that page.
LEMMA OnePageChanged ==
  ASSUME NEW r, NEW s, NEW d \in Ids, NEW p \in PageIds(d),
         SameElsewhere(r, s, d, p)
  PROVE  OnlyPage(r, s, d, p)
<1>1. \A e \in Ids : \A q \in PageIds(e) : e # d \/ q # p =>
        Data(s)[e][q] = Data(r)[e][q] /\ Oob(s)[e][q] = Oob(r)[e][q]
  BY SameArea DEF SameElsewhere
<1>2. AreasOK(Data(r)) /\ AreasOK(Data(s)) /\ AreasOK(Oob(r)) /\ AreasOK(Oob(s))
  BY AreasAreFunctions
<1>3. ASSUME NEW f, NEW g, AreasOK(f), AreasOK(g),
             \A e \in Ids : \A q \in PageIds(e) : e # d \/ q # p => g[e][q] = f[e][q]
      PROVE  g = [f EXCEPT ![d][p] = g[d][p]]
  <2>1. \A x \in Ids \ {d} : g[x] = f[x]
    <3>1. ASSUME NEW x \in Ids, x # d
          PROVE  g[x] = f[x]
      <4>1. g[x] = [q \in PageIds(x) |-> g[x][q]] /\ f[x] = [q \in PageIds(x) |-> f[x][q]]
        BY <1>3 DEF AreasOK
      <4>2. \A q \in PageIds(x) : g[x][q] = f[x][q]
        BY <1>3, <3>1
      <4> QED
        BY <4>1, <4>2
    <3> QED
      BY <3>1
  <2>2. \A q \in PageIds(d) \ {p} : g[d][q] = f[d][q]
    BY <1>3
  <2>3. /\ f = [x \in Ids |-> f[x]] /\ g = [x \in Ids |-> g[x]]
        /\ f[d] = [q \in PageIds(d) |-> f[d][q]] /\ g[d] = [q \in PageIds(d) |-> g[d][q]]
    BY <1>3 DEF AreasOK
  <2>4. PICK h : h = [f[d] EXCEPT ![p] = g[d][p]]
    OBVIOUS
  <2>5. h = [q \in PageIds(d) |-> h[q]] /\ \A q \in PageIds(d) : h[q] = g[d][q]
    BY <2>2, <2>3, <2>4
  <2>6. h = g[d]
    BY <2>3, <2>5
  <2>7. PICK k : k = [f EXCEPT ![d] = h]
    OBVIOUS
  <2>8. k = [x \in Ids |-> k[x]] /\ \A x \in Ids : k[x] = g[x]
    BY <2>1, <2>3, <2>6, <2>7
  <2>9. k = g
    BY <2>3, <2>8
  <2> QED
    BY <2>4, <2>7, <2>9
<1> QED
  BY <1>1, <1>2, <1>3 DEF OnlyPage

LEMMA SameExcept ==
  ASSUME NEW f, AreasOK(f), NEW d \in Ids, NEW p \in PageIds(d)
  PROVE  [f EXCEPT ![d][p] = f[d][p]] = f
<1>1. f = [x \in Ids |-> f[x]] /\ f[d] = [q \in PageIds(d) |-> f[d][q]]
  BY DEF AreasOK
<1>2. PICK h : h = [f[d] EXCEPT ![p] = f[d][p]]
  OBVIOUS
<1>3. h = f[d]
  BY <1>1, <1>2
<1>4. [f EXCEPT ![d] = h] = f
  BY <1>1, <1>3
<1> QED
  BY <1>2, <1>4

\* s is r with bytes stored in page p's data area, or in its OOB area from o on.
DataStored(r, s, d, p, bytes) ==
  /\ Data(s) = [Data(r) EXCEPT ![d][p] = M!Filled(@, 0, bytes)]
  /\ Oob(s) = Oob(r)
OobStored(r, s, d, p, o, bytes) ==
  /\ Data(s) = Data(r)
  /\ Oob(s) = [Oob(r) EXCEPT ![d][p] = M!Filled(@, o, bytes)]

\* Bytes stored in a page's data area replace those, and no others.
LEMMA StoredData ==
  ASSUME NEW r, RawOK(r), NEW d \in Ids, NEW p \in PageIds(d),
         NEW c \in Commands, At(c, d, p, 0),
         NEW bytes, Len(bytes) \in Nat, Len(bytes) <= Chip[d].page, NEW s, s = Stored(r, c, bytes)
  PROVE  DataStored(r, s, d, p, bytes)
<1>1. /\ 0 + Len(bytes) <= RawPage(d)
      /\ Chip[d].page \in Nat /\ Chip[d].extra \in Nat
  BY PageFacts, ChipFacts DEF RawPage
<1>2. \A e \in Ids : \A q \in PageIds(e) : \A b \in 0 .. RawPage(e) - 1 :
        s[e][q * RawPage(e) + b] =
          IF e = d /\ q = p /\ b >= 0 /\ b < 0 + Len(bytes)
          THEN bytes[b - 0 + 1] ELSE r[e][q * RawPage(e) + b]
  BY <1>1, StoredInPage
<1>3. OnlyPage(r, s, d, p)
  <2>1. SameElsewhere(r, s, d, p)
    BY <1>2 DEF SameElsewhere, SamePage
  <2> QED
    BY <2>1, OnePageChanged
<1>4. Data(s)[d][p] = M!Filled(Data(r)[d][p], 0, bytes)
  <2>1. Data(s)[d][p] = [b \in 0 .. Chip[d].page - 1 |-> Data(s)[d][p][b]]
    BY DEF Data, Area
  <2>2. ASSUME NEW b \in 0 .. Chip[d].page - 1
        PROVE  Data(s)[d][p][b] = IF b >= 0 /\ b < 0 + Len(bytes) THEN bytes[b - 0 + 1]
                                  ELSE Data(r)[d][p][b]
    BY <1>2, AreaBytes
  <2>3. DOMAIN Data(r)[d][p] = 0 .. Chip[d].page - 1
    BY AreaBytes
  <2>4. M!Filled(Data(r)[d][p], 0, bytes) =
          [b \in 0 .. Chip[d].page - 1 |-> IF b >= 0 /\ b < 0 + Len(bytes) THEN bytes[b - 0 + 1]
                                           ELSE Data(r)[d][p][b]]
    BY <2>3 DEF M!Filled
  <2> QED
    BY <2>1, <2>2, <2>4
<1>5. Oob(s)[d][p] = Oob(r)[d][p]
  <2>1. /\ Oob(s)[d][p] = [b \in 0 .. Chip[d].extra - 1 |-> Oob(s)[d][p][b]]
        /\ Oob(r)[d][p] = [b \in 0 .. Chip[d].extra - 1 |-> Oob(r)[d][p][b]]
    BY DEF Oob, Area
  <2>2. \A b \in 0 .. Chip[d].extra - 1 : Oob(s)[d][p][b] = Oob(r)[d][p][b]
    <3>1. ASSUME NEW b \in 0 .. Chip[d].extra - 1
          PROVE  Oob(s)[d][p][b] = Oob(r)[d][p][b]
      <4>1. Chip[d].page + b \in 0 .. RawPage(d) - 1 /\ ~(Chip[d].page + b < 0 + Len(bytes))
        BY <1>1 DEF RawPage
      <4> QED
        BY <1>2, <4>1, AreaBytes
    <3> QED
      BY <3>1
  <2> QED
    BY <2>1, <2>2
<1> QED
  BY <1>3, <1>4, <1>5, SameExcept, AreasAreFunctions DEF OnlyPage, DataStored

\* Bytes stored in a page's OOB area from its byte o on.
LEMMA StoredOob ==
  ASSUME NEW r, RawOK(r), NEW d \in Ids, NEW p \in PageIds(d), NEW o \in Nat,
         NEW c \in Commands, At(c, d, p, Chip[d].page + o),
         NEW bytes, Len(bytes) \in Nat, o + Len(bytes) <= Chip[d].extra, NEW s, s = Stored(r, c, bytes)
  PROVE  OobStored(r, s, d, p, o, bytes)
<1>1. PICK page \in Nat, start \in Nat, n \in Nat :
        page = Chip[d].page /\ start = page + o /\ n = Len(bytes) /\ At(c, d, p, start)
  <2>1. PICK page \in Nat, n \in Nat : page = Chip[d].page /\ n = Len(bytes)
    BY ChipFacts
  <2>2. page + o \in Nat /\ At(c, d, p, page + o)
    BY <2>1
  <2> QED
    BY <2>1, <2>2
<1>2. start + n <= RawPage(d) /\ RawPage(d) = page + Chip[d].extra /\ Chip[d].extra \in Nat
  <2>1. PICK extra \in Nat : extra = Chip[d].extra
    BY ChipFacts
  <2>2. RawPage(d) = page + extra
    BY <1>1, <2>1 DEF RawPage
  <2>3. o + n <= extra
    BY <1>1, <2>1
  <2>4. start = page + o
    BY <1>1
  <2>5. (page + o) + n <= page + extra
    BY <2>1, <2>3
  <2> QED
    BY <2>1, <2>2, <2>4, <2>5
<1>3. \A e \in Ids : \A q \in PageIds(e) : \A b \in 0 .. RawPage(e) - 1 :
        s[e][q * RawPage(e) + b] =
          IF e = d /\ q = p /\ b >= start /\ b < start + Len(bytes)
          THEN bytes[b - start + 1] ELSE r[e][q * RawPage(e) + b]
  <2>1. At(c, d, p, start) /\ start + Len(bytes) <= RawPage(d)
    BY <1>1, <1>2
  <2>2. ASSUME NEW e \in Ids, NEW q \in PageIds(e), NEW b \in 0 .. RawPage(e) - 1
        PROVE  Stored(r, c, bytes)[e][q * RawPage(e) + b] =
                 IF e = d /\ q = p /\ b >= start /\ b < start + Len(bytes)
                 THEN bytes[b - start + 1] ELSE r[e][q * RawPage(e) + b]
    BY <2>1, StoredInPage
  <2> QED
    BY <2>2
<1>4. OnlyPage(r, s, d, p)
  <2>1. SameElsewhere(r, s, d, p)
    BY <1>3 DEF SameElsewhere, SamePage
  <2> QED
    BY <2>1, OnePageChanged
<1>5. Oob(s)[d][p] = M!Filled(Oob(r)[d][p], o, bytes)
  <2>1. Oob(s)[d][p] = [b \in 0 .. Chip[d].extra - 1 |-> Oob(s)[d][p][b]]
    BY DEF Oob, Area
  <2>2. ASSUME NEW b \in 0 .. Chip[d].extra - 1
        PROVE  Oob(s)[d][p][b] = IF b >= o /\ b < o + Len(bytes) THEN bytes[b - o + 1]
                                 ELSE Oob(r)[d][p][b]
    <3>1. PICK x \in Nat : x = page + b /\ x \in 0 .. RawPage(d) - 1
      BY <1>2
    <3>2. (x >= start <=> b >= o) /\ (x < start + n <=> b < o + n) /\ x - start = b - o
      <4>1. x = page + b /\ start = page + o /\ b \in Nat
        BY <1>1, <1>2, <3>1
      <4> QED
        BY <4>1
    <3>3. /\ Oob(s)[d][p][b] = s[d][p * RawPage(d) + x]
          /\ Oob(r)[d][p][b] = r[d][p * RawPage(d) + x]
      BY <1>1, <3>1, AreaBytes
    <3>4. s[d][p * RawPage(d) + x] =
            IF x >= start /\ x < start + Len(bytes)
            THEN bytes[x - start + 1] ELSE r[d][p * RawPage(d) + x]
      BY <1>3, <3>1
    <3> QED
      BY <1>1, <3>2, <3>3, <3>4
  <2>3. DOMAIN Oob(r)[d][p] = 0 .. Chip[d].extra - 1
    BY AreaBytes
  <2>4. M!Filled(Oob(r)[d][p], o, bytes) =
          [b \in 0 .. Chip[d].extra - 1 |-> IF b >= o /\ b < o + Len(bytes) THEN bytes[b - o + 1]
                                            ELSE Oob(r)[d][p][b]]
    BY <2>3 DEF M!Filled
  <2> QED
    BY <2>1, <2>2, <2>4
<1>6. Data(s)[d][p] = Data(r)[d][p]
  <2>1. /\ Data(s)[d][p] = [b \in 0 .. Chip[d].page - 1 |-> Data(s)[d][p][b]]
        /\ Data(r)[d][p] = [b \in 0 .. Chip[d].page - 1 |-> Data(r)[d][p][b]]
    BY DEF Data, Area
  <2>2. ASSUME NEW b \in 0 .. Chip[d].page - 1
        PROVE  Data(s)[d][p][b] = Data(r)[d][p][b]
    <3>1. b \in 0 .. RawPage(d) - 1 /\ ~(b >= start)
      <4>1. start = page + o /\ b \in Nat /\ b < page
        BY <1>1
      <4> QED
        BY <1>2, <4>1
    <3> QED
      BY <1>3, <3>1, AreaBytes
  <2> QED
    BY <2>1, <2>2
<1> QED
  BY <1>4, <1>5, <1>6, SameExcept, AreasAreFunctions DEF OnlyPage, OobStored

SameEverywhere(r, s) == \A e \in Ids : \A q \in PageIds(e) : SamePage(r, s, e, q)

LEMMA SameAreas ==
  ASSUME NEW r, NEW s, SameEverywhere(r, s)
  PROVE  Data(s) = Data(r) /\ Oob(s) = Oob(r)
<1>1. ASSUME NEW e \in Ids, NEW q \in PageIds(e)
      PROVE  Data(s)[e][q] = Data(r)[e][q] /\ Oob(s)[e][q] = Oob(r)[e][q]
  BY SameArea DEF SameEverywhere
<1>2. AreasOK(Data(r)) /\ AreasOK(Data(s)) /\ AreasOK(Oob(r)) /\ AreasOK(Oob(s))
  BY AreasAreFunctions
<1>3. ASSUME NEW f, NEW g, AreasOK(f), AreasOK(g),
             \A e \in Ids : \A q \in PageIds(e) : g[e][q] = f[e][q]
      PROVE  g = f
  <2>1. ASSUME NEW x \in Ids
        PROVE  g[x] = f[x]
    BY <1>3 DEF AreasOK
  <2> QED
    BY <1>3, <2>1 DEF AreasOK
<1> QED
  BY <1>1, <1>2, <1>3

\* No page of device d reaches the address.
Behind(d, addr) == \A q \in PageIds(d) : q * RawPage(d) + RawPage(d) <= addr

\* Bytes stored behind the last page are in no area.
LEMMA StoredBehind ==
  ASSUME NEW r, RawOK(r), NEW d \in Ids, NEW c \in Commands, c.dev = d,
         Behind(d, c.addr),
         NEW bytes, Len(bytes) \in Nat, NEW s, s = Stored(r, c, bytes)
  PROVE  Data(s) = Data(r) /\ Oob(s) = Oob(r)
<1>1. ASSUME NEW e \in Ids, NEW q \in PageIds(e)
      PROVE  SamePage(r, s, e, q)
  <2>1. ASSUME NEW b \in 0 .. RawPage(e) - 1
        PROVE  s[e][q * RawPage(e) + b] = r[e][q * RawPage(e) + b]
    <3>1. /\ q * RawPage(e) \in Nat /\ RawPage(e) \in Nat /\ Chip[e].raw \in Nat /\ c.addr \in Nat
          /\ q * RawPage(e) + RawPage(e) <= Chip[e].raw
      BY PageFacts, ChipFacts DEF Commands
    <3>2. PICK y \in Nat, qy \in Nat, m \in Nat :
            y = RawPage(e) /\ qy = q * RawPage(e) /\ m = Chip[e].raw
      BY <3>1
    <3>3. b \in Nat /\ b < y /\ qy + y <= m
      BY <3>1, <3>2
    <3>4. PICK a \in 0 .. Chip[e].raw - 1 : a = qy + b
      <4>1. qy + b \in 0 .. m - 1
        BY <3>3
      <4> QED
        BY <3>2, <4>1
    <3>5. s[e][a] = IF e = c.dev /\ a >= c.addr /\ a < c.addr + Len(bytes)
                    THEN bytes[a - c.addr + 1] ELSE r[e][a]
      BY StoredBytes
    <3>6. e = d => ~(a >= c.addr)
      <4>1. e = d => qy + y <= c.addr
        BY <3>2 DEF Behind
      <4> QED
        BY <3>1, <3>3, <3>4, <4>1
    <3> QED
      BY <3>2, <3>4, <3>5, <3>6
  <2> QED
    BY <2>1 DEF SamePage
<1>2. SameEverywhere(r, s)
  BY <1>1 DEF SameEverywhere
<1> QED
  BY <1>2, SameAreas

\* What a command reads of a page's areas.
LEMMA ReadArea ==
  ASSUME NEW d \in Ids, NEW p \in PageIds(d), NEW c, NEW k \in Nat
  PROVE  /\ At(c, d, p, 0) /\ k <= Chip[d].page => Bytes(c, k) = M!Prefix(Data(raw)[d][p], 0, k)
         /\ \A o \in Nat : At(c, d, p, Chip[d].page + o) /\ o + k <= Chip[d].extra =>
              Bytes(c, k) = M!Prefix(Oob(raw)[d][p], o, k)
<1>1. PICK py \in Nat, page \in Nat : py = p * RawPage(d) /\ page = Chip[d].page
  BY PageFacts, ChipFacts
<1>2. ASSUME At(c, d, p, 0), k <= page
      PROVE  Bytes(c, k) = M!Prefix(Data(raw)[d][p], 0, k)
  <2>1. c.dev = d /\ c.addr = py
    BY <1>1, <1>2 DEF At
  <2>2. ASSUME NEW j \in 1 .. k
        PROVE  raw[c.dev][c.addr + j - 1] = Data(raw)[d][p][0 + j - 1]
    <3>1. PICK b \in 0 .. page - 1 : b = j - 1
      BY <1>2
    <3>2. py + j - 1 = py + b /\ 0 + j - 1 = b
      BY <3>1
    <3>3. Data(raw)[d][p][b] = raw[d][py + b]
      BY <1>1, AreaBytes
    <3> QED
      BY <2>1, <3>2, <3>3
  <2> QED
    BY <2>2 DEF Bytes, M!Prefix
<1>3. ASSUME NEW o \in Nat, At(c, d, p, page + o), o + k <= Chip[d].extra
      PROVE  Bytes(c, k) = M!Prefix(Oob(raw)[d][p], o, k)
  <2>1. c.dev = d /\ c.addr = py + (page + o)
    BY <1>1, <1>3 DEF At
  <2>2. ASSUME NEW j \in 1 .. k
        PROVE  raw[c.dev][c.addr + j - 1] = Oob(raw)[d][p][o + j - 1]
    <3>1. PICK b \in 0 .. Chip[d].extra - 1 : b = o + j - 1
      BY <1>3, ChipFacts
    <3>2. py + (page + o) + j - 1 = py + (page + b)
      BY <3>1
    <3>3. Oob(raw)[d][p][b] = raw[d][py + (page + b)]
      BY <1>1, AreaBytes
    <3> QED
      BY <2>1, <3>1, <3>2, <3>3
  <2> QED
    BY <2>2 DEF Bytes, M!Prefix
<1> QED
  BY <1>1, <1>2, <1>3

-----------------------------------------------------------------------------
(* Then the calls, each a step of Mtd. *)

\* The geometry that Mtd is given is the one the driver has read.
LEMMA MtdView ==
  ASSUME TypeOK, ProbedSoFar, NEW d \in Working
  PROVE  /\ M!Pages(d) = PageIds(d)
         /\ \A ofs : M!Page(d, ofs) = ofs \div mtd[d].writesize
         /\ \A ofs : M!Aligned(d, ofs) <=> ~Misaligned(d, ofs)
         /\ \A ofs, len : M!Within(d, ofs, len) <=> ofs + len <= mtd[d].size
         /\ MtdGeometry[d].writesize = mtd[d].writesize /\ MtdGeometry[d].oobsize = mtd[d].oobsize
         /\ MtdGeometry[d].erasesize = mtd[d].erasesize /\ MtdGeometry[d].size = mtd[d].size
<1>1. d \in Ids /\ Probed(d)
  BY InUse
<1>2. /\ MtdGeometry[d].writesize = Chip[d].page /\ MtdGeometry[d].oobsize = Chip[d].extra
      /\ MtdGeometry[d].erasesize =
           (Chip[d].erase \div (Chip[d].page + Chip[d].extra)) * Chip[d].page
      /\ MtdGeometry[d].size = DataSize(d)
  BY <1>1 DEF MtdGeometry
<1>3. /\ MtdGeometry[d].writesize = mtd[d].writesize /\ MtdGeometry[d].oobsize = mtd[d].oobsize
      /\ MtdGeometry[d].erasesize = mtd[d].erasesize /\ MtdGeometry[d].size = mtd[d].size
  BY <1>1, <1>2 DEF Probed
<1>4. M!Pages(d) = PageIds(d)
  BY <1>2 DEF M!Pages, PageIds
<1>5. /\ \A ofs : M!Page(d, ofs) = ofs \div mtd[d].writesize
      /\ \A ofs : M!Aligned(d, ofs) <=> ~Misaligned(d, ofs)
      /\ \A ofs, len : M!Within(d, ofs, len) <=> ofs + len <= mtd[d].size
  BY <1>3 DEF M!Page, M!Aligned, M!Within, Misaligned
<1> QED
  BY <1>3, <1>4, <1>5

\* A whole page that begins before the end is a page of the device, at its address;
\* an offset at the end is behind all.
LEMMA PageAddress ==
  ASSUME TypeOK, ProbedSoFar, NEW d \in Working, NEW ofs \in Nat, ~Misaligned(d, ofs),
         ofs <= mtd[d].size, NEW p, p = ofs \div mtd[d].writesize
  PROVE  /\ p \in Nat /\ Address(d, ofs) = p * RawPage(d) /\ d \in Ids
         /\ ofs < mtd[d].size => p \in PageIds(d)
         /\ ofs = mtd[d].size => Behind(d, Address(d, ofs))
<1>1. PICK page \in Nat, raw_page \in Nat :
        /\ page = mtd[d].writesize /\ page = Chip[d].page /\ page >= 1 /\ d \in Ids /\ Probed(d)
        /\ raw_page = RawPage(d) /\ raw_page = mtd[d].writesize + mtd[d].oobsize
  BY InUse DEF RawPage
<1>2. p \in Nat /\ ofs = p * page
  BY <1>1, Whole DEF Misaligned
<1>3. Address(d, ofs) = p * raw_page
  <2>1. mtd[d].size \in Nat
    BY InUse
  <2>2. ofs + 0 <= mtd[d].size
    BY <2>1
  <2>3. 0 % page = 0 /\ 0 \div page = 0
    <3>1. page \in Nat /\ page >= 1 /\ 0 \in Nat
      BY <1>1
    <3>2. (0 * page) \div page = 0 /\ (0 * page) % page = 0
      BY <3>1, Multiple
    <3>3. 0 * page = 0
      BY <3>1
    <3> QED
      BY <3>2, <3>3
  <2>4. Address(d, ofs) = (ofs \div mtd[d].writesize) * (mtd[d].writesize + mtd[d].oobsize)
    BY <1>1, <2>2, <2>3, AddressFits
  <2> QED
    BY <1>1, <2>4
<1>4. PICK pages \in Nat : mtd[d].size = pages * page /\ PageIds(d) = 0 .. pages - 1
  BY <1>1, BlockFacts DEF PageIds, Probed
<1>5. ASSUME ofs < mtd[d].size
      PROVE  p \in PageIds(d)
  <2>1. p * page < pages * page
    BY <1>2, <1>4, <1>5
  <2>2. pages <= p => pages * page <= p * page
    BY <1>2, Order
  <2>3. p * page \in Nat /\ pages * page \in Nat
    BY <1>2, Order
  <2>4. ~(pages <= p)
    BY <2>1, <2>2, <2>3
  <2> QED
    BY <1>2, <1>4, <2>4
<1>6. ASSUME ofs = mtd[d].size
      PROVE  Behind(d, p * RawPage(d))
  <2>1. p * page = pages * page
    BY <1>2, <1>4, <1>6
  <2>2. p = pages
    <3>1. page >= 1 /\ p * page <= pages * page /\ pages * page <= p * page
      BY <1>1, <1>2, <2>1, Order
    <3>2. p <= pages /\ pages <= p
      BY <1>2, <3>1, OrderBack
    <3> QED
      BY <1>2, <3>2
  <2>3. ASSUME NEW q \in PageIds(d)
        PROVE  q * raw_page + raw_page <= p * raw_page
    <3>1. q \in Nat /\ q + 1 <= p
      BY <1>4, <2>2, <2>3
    <3>2. (q + 1) * raw_page <= p * raw_page /\ (q + 1) * raw_page = q * raw_page + raw_page
      BY <1>2, <3>1, Order
    <3> QED
      BY <3>2
  <2> QED
    BY <1>1, <2>3 DEF Behind
<1> QED
  BY <1>1, <1>2, <1>3, <1>5, <1>6

\* The steps of Mtd that a call may be.
Answered ==
  \/ M!Read(ret') \/ M!Write(ret') \/ M!ReadOob(ret') \/ M!WriteOob(ret')
  \/ M!Erase(ret') \/ M!IsBad(ret') \/ M!MarkBad(ret')

LEMMA IsRequest ==
  ASSUME ret = Idle, ret'.op # "idle",
         \/ M!Reject(ret') \/ M!Unchecked(ret')
         \/ (M!Legal(ret'.dev, ret') \/ M!Cut(ret')) /\ Answered
  PROVE  M!Request
<1>1. ret' # Idle
  BY DEF Idle
<1> QED
  BY <1>1 DEF M!Request, M!Idle, Idle, Answered

LEMMA Rejected ==
  ASSUME NEW r, Invalid(r), "rc" \notin DOMAIN r, NEW op, "op" \in DOMAIN r, r.op = op, op # "idle",
         ret = Idle, ~M!Legal(ret'.dev, ret') \/ M!Cut(ret')
  PROVE  M!Request
<1>1. ret' = With(r, [rc |-> "EINVAL"]) /\ UNCHANGED <<raw, bad>>
  BY DEF Invalid
<1>2. ret'.rc = "EINVAL" /\ ret'.op = op
  <2>1. "rc" \in DOMAIN [rc |-> "EINVAL"] \ DOMAIN r /\ [rc |-> "EINVAL"]["rc"] = "EINVAL"
    OBVIOUS
  <2>2. /\ \A x \in DOMAIN r : ret'[x] = r[x]
        /\ \A x \in DOMAIN [rc |-> "EINVAL"] \ DOMAIN r : ret'[x] = [rc |-> "EINVAL"][x]
    BY <1>1, Zenon DEF With
  <2>3. ret'["rc"] = "EINVAL" /\ ret'["op"] = r["op"]
    BY <2>1, <2>2
  <2> QED
    BY <2>3
<1>3. M!Reject(ret')
  BY <1>1, <1>2 DEF M!Reject, M!Flash
<1> QED
  BY <1>2, <1>3, IsRequest

LEMMA ReadStep ==
  ASSUME TypeOK, ProbedSoFar, ret = Idle, NEW d \in Working, NEW from \in Nat, NEW len \in Nat,
         goldfish_nand_read(d, from, len), from + len < 2^WideBits
  PROVE  M!Request
<1>1. PICK r : r = [op |-> "read", dev |-> d, ofs |-> from, len |-> len]
  OBVIOUS
<1>2. PICK c : c = Command(d, Address(d, from), len)
  OBVIOUS
<1>3. /\ DOMAIN r = {"op", "dev", "ofs", "len"}
      /\ r["op"] = "read" /\ r["dev"] = d /\ r["ofs"] = from /\ r["len"] = len
  BY <1>1
<1> DEFINE rejected == from + len > mtd[d].size \/ len # mtd[d].writesize \/ Misaligned(d, from)
<1>4. IF rejected THEN Invalid(r)
      ELSE \E k \in Result(c) :
             /\ ret' = With(r, [rc |-> "0", retlen |-> k, got |-> Bytes(c, k)])
             /\ UNCHANGED <<raw, bad>>
  <2>1. PastEnd(d, from, len) <=> from + len > mtd[d].size
    BY PastEndFacts
  <2> QED
    BY <1>1, <1>2, <2>1 DEF goldfish_nand_read
<1>5. \E more : ret' = With(r, more)
  BY <1>4 DEF Invalid
<1>6. ret'.op = "read" /\ ret'.dev = d /\ ret'.ofs = from /\ ret'.len = len
  <2>1. \A x \in DOMAIN r : ret'[x] = r[x]
    BY <1>5, Zenon DEF With
  <2>2. ret'["op"] = "read" /\ ret'["dev"] = d /\ ret'["ofs"] = from /\ ret'["len"] = len
    BY <1>3, <2>1
  <2> QED
    BY <2>2
<1>7. /\ mtd[d].size \in Nat /\ mtd[d].writesize \in Nat /\ mtd[d].oobsize \in Nat
      /\ mtd[d].writesize = Chip[d].page /\ mtd[d].writesize >= 1 /\ d \in Ids
  BY InUse
<1>8. M!Legal(ret'.dev, ret') <=> ~rejected
  <2>1. M!Legal(ret'.dev, ret') <=> M!WholePage(d, ret')
    BY <1>6 DEF M!Legal
  <2>2. M!WholePage(d, ret') <=> from + len <= mtd[d].size /\ ~Misaligned(d, from) /\ len = mtd[d].writesize
    BY <1>6, MtdView DEF M!WholePage
  <2> QED
    BY <1>7, <2>1, <2>2
<1>9. CASE rejected
  <2>1. Invalid(r) /\ "rc" \notin DOMAIN r /\ "op" \in DOMAIN r /\ r.op = "read"
    BY <1>1, <1>4, <1>9
  <2>2. ~M!Legal(ret'.dev, ret')
    BY <1>8, <1>9
  <2> HIDE DEF rejected
  <2> QED
    BY <2>1, <2>2, Rejected
<1>10. CASE ~rejected
  <2>1. PICK k \in Result(c) :
             /\ ret' = With(r, [rc |-> "0", retlen |-> k, got |-> Bytes(c, k)])
             /\ UNCHANGED <<raw, bad>>
    BY <1>4, <1>10
  <2>2. ret'.rc = "0" /\ ret'.retlen = k /\ ret'.got = Bytes(c, k)
    <3>1. PICK more : more = [rc |-> "0", retlen |-> k, got |-> Bytes(c, k)]
      OBVIOUS
    <3>2. /\ {"rc", "retlen", "got"} \subseteq DOMAIN more \ DOMAIN r
          /\ more["rc"] = "0" /\ more["retlen"] = k /\ more["got"] = Bytes(c, k)
      BY <1>3, <3>1
    <3>3. \A x \in DOMAIN more \ DOMAIN r : ret'[x] = more[x]
      BY <2>1, <3>1, Zenon DEF With
    <3>4. ret'["rc"] = "0" /\ ret'["retlen"] = k /\ ret'["got"] = Bytes(c, k)
      BY <3>2, <3>3
    <3> QED
      BY <3>4
  <2>3. PICK p : p = from \div mtd[d].writesize
    OBVIOUS
  <2>4. ~Misaligned(d, from) /\ from < mtd[d].size /\ len = Chip[d].page
    BY <1>7, <1>10
  <2>5. p \in PageIds(d) /\ Address(d, from) = p * RawPage(d) /\ p * RawPage(d) \in Nat
    <3>1. from <= mtd[d].size
      BY <1>7, <2>4
    <3> QED
      BY <2>3, <2>4, <3>1, PageAddress, PageFacts
  <2>6. At(c, d, p, 0) /\ c.len = len
    BY <1>2, <2>5, CommandFields DEF At
  <2>7. k \in Nat /\ k <= len
    BY <2>6 DEF Result
  <2>8. Bytes(c, k) = M!Prefix(Data(raw)[d][p], 0, k)
    BY <1>7, <2>4, <2>5, <2>6, <2>7, ReadArea
  <2>9. M!Page(d, from) = p
    BY <2>3, MtdView
  <2>10. M!Read(ret')
    BY <1>6, <2>1, <2>2, <2>7, <2>8, <2>9 DEF M!Read, M!Flash
  <2>11. M!Legal(ret'.dev, ret')
    BY <1>8, <1>10
  <2> HIDE DEF rejected
  <2> QED
    BY <1>6, <2>10, <2>11, IsRequest DEF Answered
<1> QED
  BY <1>9, <1>10

LEMMA WriteStep ==
  ASSUME TypeOK, ProbedSoFar, ret = Idle, NEW d \in Working, NEW to \in Nat, NEW len \in Nat,
         NEW buf \in Bufs(d, len), goldfish_nand_write(d, to, len, buf), to + len < 2^WideBits
  PROVE  M!Request
<1>1. PICK r : r = [op |-> "write", dev |-> d, ofs |-> to, len |-> len]
  OBVIOUS
<1>2. PICK c : c = Command(d, Address(d, to), len)
  OBVIOUS
<1>3. /\ DOMAIN r = {"op", "dev", "ofs", "len"}
      /\ r["op"] = "write" /\ r["dev"] = d /\ r["ofs"] = to /\ r["len"] = len
  BY <1>1
<1> DEFINE rejected == to + len > mtd[d].size \/ len # mtd[d].writesize \/ Misaligned(d, to)
<1>4. IF rejected THEN Invalid(r)
      ELSE \E k \in Result(c) :
             /\ raw' = Stored(raw, c, SubSeq(buf, 1, k))
             /\ ret' = With(r, [rc |-> "0", retlen |-> k, put |-> buf])
             /\ UNCHANGED bad
  <2>1. PastEnd(d, to, len) <=> to + len > mtd[d].size
    BY PastEndFacts
  <2> QED
    BY <1>1, <1>2, <2>1 DEF goldfish_nand_write
<1>5. \E more : ret' = With(r, more)
  BY <1>4 DEF Invalid
<1>6. ret'.op = "write" /\ ret'.dev = d /\ ret'.ofs = to /\ ret'.len = len
  <2>1. \A x \in DOMAIN r : ret'[x] = r[x]
    BY <1>5, Zenon DEF With
  <2>2. ret'["op"] = "write" /\ ret'["dev"] = d /\ ret'["ofs"] = to /\ ret'["len"] = len
    BY <1>3, <2>1
  <2> QED
    BY <2>2
<1>7. /\ mtd[d].size \in Nat /\ mtd[d].writesize \in Nat /\ mtd[d].oobsize \in Nat
      /\ mtd[d].writesize = Chip[d].page /\ mtd[d].writesize >= 1 /\ d \in Ids /\ RawOK(raw)
  BY InUse
<1>8. M!Legal(ret'.dev, ret') <=> ~rejected
  <2>1. M!Legal(ret'.dev, ret') <=> M!WholePage(d, ret')
    BY <1>6 DEF M!Legal
  <2>2. M!WholePage(d, ret') <=> to + len <= mtd[d].size /\ ~Misaligned(d, to) /\ len = mtd[d].writesize
    BY <1>6, MtdView DEF M!WholePage
  <2> QED
    BY <1>7, <2>1, <2>2
<1>9. CASE rejected
  <2>1. Invalid(r) /\ "rc" \notin DOMAIN r /\ "op" \in DOMAIN r /\ r.op = "write"
    BY <1>1, <1>4, <1>9
  <2>2. ~M!Legal(ret'.dev, ret')
    BY <1>8, <1>9
  <2> HIDE DEF rejected
  <2> QED
    BY <2>1, <2>2, Rejected
<1>10. CASE ~rejected
  <2>1. PICK k \in Result(c) :
             /\ raw' = Stored(raw, c, SubSeq(buf, 1, k))
             /\ ret' = With(r, [rc |-> "0", retlen |-> k, put |-> buf])
             /\ UNCHANGED bad
    BY <1>4, <1>10
  <2>2. ret'.rc = "0" /\ ret'.retlen = k /\ ret'.put = buf
    <3>1. PICK more : more = [rc |-> "0", retlen |-> k, put |-> buf]
      OBVIOUS
    <3>2. /\ {"rc", "retlen", "put"} \subseteq DOMAIN more \ DOMAIN r
          /\ more["rc"] = "0" /\ more["retlen"] = k /\ more["put"] = buf
      BY <1>3, <3>1
    <3>3. \A x \in DOMAIN more \ DOMAIN r : ret'[x] = more[x]
      BY <2>1, <3>1, Zenon DEF With
    <3>4. ret'["rc"] = "0" /\ ret'["retlen"] = k /\ ret'["put"] = buf
      BY <3>2, <3>3
    <3> QED
      BY <3>4
  <2>3. PICK p : p = to \div mtd[d].writesize
    OBVIOUS
  <2>4. ~Misaligned(d, to) /\ to < mtd[d].size /\ len = Chip[d].page
    BY <1>7, <1>10
  <2>5. p \in PageIds(d) /\ Address(d, to) = p * RawPage(d) /\ p * RawPage(d) \in Nat
    <3>1. to <= mtd[d].size
      BY <1>7, <2>4
    <3> QED
      BY <2>3, <2>4, <3>1, PageAddress, PageFacts
  <2>6. At(c, d, p, 0) /\ c.len = len /\ c \in Commands /\ c.dev = d
    BY <1>2, <1>7, <2>5, CommandFields DEF At
  <2>7. k \in Nat /\ k <= len
    BY <2>6 DEF Result
  <2>8. PICK bytes : bytes = SubSeq(buf, 1, k) /\ Len(bytes) \in Nat /\ Len(bytes) <= Chip[d].page
    <3>1. k <= Chip[d].page /\ Chip[d].page \in Nat
      BY <1>7, <2>4, <2>7
    <3>2. Len(SubSeq(buf, 1, k)) = k
      BY <2>1, <2>6, TakenBytes
    <3> QED
      BY <2>7, <3>1, <3>2
  <2>9. PICK s : s = raw' /\ s = Stored(raw, c, bytes)
    BY <2>1, <2>8
  <2>10. DataStored(raw, s, d, p, bytes)
    BY <1>7, <2>5, <2>6, <2>8, <2>9, StoredData
  <2>11. M!Page(d, to) = p
    BY <2>3, MtdView
  <2>12. M!Write(ret')
    BY <1>6, <2>1, <2>2, <2>7, <2>8, <2>9, <2>10, <2>11 DEF M!Write, DataStored
  <2>13. M!Legal(ret'.dev, ret')
    BY <1>8, <1>10
  <2> HIDE DEF rejected
  <2> QED
    BY <1>6, <2>12, <2>13, IsRequest DEF Answered
<1> QED
  BY <1>9, <1>10

\* An OOB request that the driver does not reject, and where its two commands go: to
\* its page's areas, or behind the last page.
OobAccepted(d, ofs, ops) ==
  ~OobOutside(d, ofs, ops) /\ (ops.datbuf => ops.len = 0 \/ ops.len = mtd[d].writesize)
OobPlace(cs, d, p, ops, k, n) ==
  /\ cs[1] \in Commands /\ cs[2] \in Commands /\ d \in Ids
  /\ At(cs[1], d, p, 0) /\ At(cs[2], d, p, Chip[d].page + ops.ooboffs)
  /\ k \in Nat /\ k <= ops.len /\ k <= Chip[d].page
  /\ n \in Nat /\ n <= ops.ooblen /\ ops.ooboffs \in Nat /\ ops.ooboffs + n <= Chip[d].extra
  /\ p \notin PageIds(d) => /\ k = 0 /\ cs[1].dev = d /\ Behind(d, cs[1].addr)
                            /\ cs[2].dev = d /\ Behind(d, cs[2].addr)

LEMMA OobPlaced ==
  ASSUME TypeOK, ProbedSoFar, NEW d \in Working, NEW ofs \in Nat, NEW ops \in Ops(d),
         NoOobWrap(ofs, ops), OobAccepted(d, ofs, ops),
         NEW cs, cs = OobCommands(d, ofs, ops), NEW k \in Result(cs[1]), NEW n \in Result(cs[2]),
         NEW p, p = ofs \div mtd[d].writesize
  PROVE  OobPlace(cs, d, p, ops, k, n)
<1>1. /\ ops.len \in Nat /\ ops.ooblen \in Nat /\ ops.ooboffs \in Nat
      /\ ops.datbuf \in BOOLEAN /\ ops.oobbuf \in BOOLEAN
  BY OpsTypes
<1>2. PICK page \in Nat, extra \in Nat, size \in Nat, addr \in Nat :
        /\ page = mtd[d].writesize /\ extra = mtd[d].oobsize /\ size = mtd[d].size
        /\ addr = Address(d, ofs) /\ page = Chip[d].page /\ extra = Chip[d].extra
  BY InUse, AddressIsNat
<1>3. d \in Ids
  BY InUse
<1>4. /\ ofs + ops.len <= size /\ ops.ooblen + ops.ooboffs <= extra /\ ~Misaligned(d, ofs)
  <2>1. ~(\/ ofs + ops.len > mtd[d].size \/ ops.ooblen + ops.ooboffs > mtd[d].oobsize
          \/ Misaligned(d, ofs))
    BY OobPlain DEF OobAccepted
  <2> QED
    BY <1>1, <1>2, <2>1
<1>5. PICK len1 \in Nat, len2 \in Nat :
        /\ len1 = (IF ops.datbuf THEN ops.len ELSE 0) /\ len2 = (IF ops.oobbuf THEN ops.ooblen ELSE 0)
        /\ len1 = DataLen(ops) /\ len2 = OobLen(ops)
  BY <1>1 DEF DataLen, OobLen
<1>6. cs[1] = Command(d, addr, len1) /\ cs[2] = Command(d, addr + page + ops.ooboffs, len2)
  <2>1. cs = << Command(d, Address(d, ofs), DataLen(ops)),
                Command(d, Address(d, ofs) + mtd[d].writesize + ops.ooboffs, OobLen(ops)) >>
    BY OobPlain DEF OobAccepted
  <2> QED
    BY <1>2, <1>5, <2>1
<1>7. addr + page + ops.ooboffs \in Nat
  BY <1>1
<1>8. /\ cs[1] \in Commands /\ cs[1].dev = d /\ cs[1].addr = addr /\ cs[1].len = len1
      /\ cs[2] \in Commands /\ cs[2].dev = d /\ cs[2].addr = addr + page + ops.ooboffs
      /\ cs[2].len = len2
  BY <1>3, <1>6, <1>7, CommandFields
<1>9. k \in Nat /\ k <= len1 /\ n \in Nat /\ n <= len2
  BY <1>8 DEF Result
<1>10. k <= ops.len /\ k <= page /\ n <= ops.ooblen /\ ops.ooboffs + n <= extra
  <2>1. len1 <= ops.len /\ len1 <= page /\ len2 <= ops.ooblen
    BY <1>1, <1>2, <1>4, <1>5 DEF OobAccepted
  <2> QED
    BY <1>1, <1>4, <1>9, <2>1
<1>11. /\ p \in Nat /\ addr = p * RawPage(d)
       /\ ofs < size => p \in PageIds(d)
       /\ ofs = size => Behind(d, addr)
  <2>1. /\ p \in Nat /\ Address(d, ofs) = p * RawPage(d)
        /\ ofs < mtd[d].size => p \in PageIds(d)
        /\ ofs = mtd[d].size => Behind(d, Address(d, ofs))
    <3>1. ofs <= mtd[d].size
      BY <1>1, <1>2, <1>4
    <3> QED
      BY <1>4, <3>1, PageAddress
  <2> QED
    BY <1>2, <2>1
<1>12. At(cs[1], d, p, 0) /\ At(cs[2], d, p, page + ops.ooboffs)
  <2>1. addr = addr + 0 /\ addr + page + ops.ooboffs = addr + (page + ops.ooboffs)
    BY <1>1
  <2> QED
    BY <1>8, <1>11, <2>1 DEF At
<1>13. ASSUME p \notin PageIds(d)
       PROVE  k = 0 /\ Behind(d, cs[1].addr) /\ Behind(d, cs[2].addr)
  <2>1. ofs = size /\ ops.len = 0
    <3>1. ~(ofs < size)
      BY <1>11, <1>13
    <3> QED
      BY <1>1, <1>4, <3>1
  <2>2. Behind(d, addr)
    BY <1>11, <2>1
  <2>3. ASSUME NEW q \in PageIds(d)
        PROVE  q * RawPage(d) + RawPage(d) <= addr + page + ops.ooboffs
    <3>1. q * RawPage(d) + RawPage(d) <= addr
      BY <2>2 DEF Behind
    <3>2. PICK x \in Nat : x = q * RawPage(d) + RawPage(d)
      BY <1>3, PageFacts
    <3>3. x <= addr + page + ops.ooboffs
      BY <1>1, <3>1, <3>2
    <3> QED
      BY <3>2, <3>3
  <2>4. Behind(d, addr + page + ops.ooboffs)
    BY <2>3 DEF Behind
  <2> QED
    BY <1>1, <1>8, <1>9, <1>10, <2>1, <2>2, <2>4
<1> QED
  BY <1>1, <1>2, <1>3, <1>8, <1>9, <1>10, <1>12, <1>13 DEF OobPlace

\* An OOB request and its results, and that it is legal when the driver does not reject it.
OobRejected(op, d, ofs, ops) ==
  \/ OobOutside(d, ofs, ops)
  \/ /\ op = "write_oob" \/ ops.datbuf
     /\ ops.len # 0 /\ ops.len # mtd[d].writesize
OobAnswer(op, d, ofs, ops, result) ==
  /\ result.op = op /\ result.dev = d /\ result.ofs = ofs /\ result.len = ops.len
  /\ result.ooblen = ops.ooblen /\ result.ooboffs = ops.ooboffs

LEMMA OobLegal ==
  ASSUME TypeOK, ProbedSoFar, NEW d \in Working, NEW ofs \in Nat, NEW ops \in Ops(d),
         NoOobWrap(ofs, ops),
         NEW op \in {"read_oob", "write_oob"}, NEW r, NEW more, NEW result,
         r = With([op |-> op, dev |-> d, ofs |-> ofs], ops), result = With(r, more)
  PROVE  /\ OobAnswer(op, d, ofs, ops, result)
         /\ M!Legal(d, result) <=> ~OobRejected(op, d, ofs, ops)
<1>1. /\ DOMAIN r = {"op", "dev", "ofs", "len", "ooblen", "ooboffs", "datbuf", "oobbuf"}
      /\ r["op"] = op /\ r["dev"] = d /\ r["ofs"] = ofs
      /\ \A x \in {"len", "ooblen", "ooboffs", "datbuf", "oobbuf"} : r[x] = ops[x]
  BY OobFields
<1>2. \A x \in DOMAIN r : result[x] = r[x]
  BY Zenon DEF With
<1>3. /\ result.op = op /\ result.dev = d /\ result.ofs = ofs /\ result.len = ops.len
      /\ result.ooblen = ops.ooblen /\ result.ooboffs = ops.ooboffs /\ result.datbuf = ops.datbuf
  <2>1. /\ result["op"] = op /\ result["dev"] = d /\ result["ofs"] = ofs
        /\ \A x \in {"len", "ooblen", "ooboffs", "datbuf", "oobbuf"} : result[x] = ops[x]
    BY <1>1, <1>2
  <2>2. /\ result["len"] = ops["len"] /\ result["ooblen"] = ops["ooblen"]
        /\ result["ooboffs"] = ops["ooboffs"] /\ result["datbuf"] = ops["datbuf"]
    BY <2>1
  <2> QED
    BY <2>1, <2>2
<1>4. /\ ops.len \in Nat /\ ops.ooblen \in Nat /\ ops.ooboffs \in Nat /\ ops.datbuf \in BOOLEAN
      /\ mtd[d].size \in Nat /\ mtd[d].writesize \in Nat /\ mtd[d].oobsize \in Nat
  BY InUse, OpsTypes
<1>5. M!Legal(d, result) <=> M!OobRequest(d, result)
  BY <1>3 DEF M!Legal
<1>6. M!OobRequest(d, result) <=>
        /\ ofs + ops.len <= mtd[d].size /\ ~Misaligned(d, ofs)
        /\ ops.len # 0 /\ (op = "write_oob" \/ ops.datbuf) => ops.len = mtd[d].writesize
        /\ ops.ooboffs + ops.ooblen <= mtd[d].oobsize
  BY <1>3, <1>4, MtdView DEF M!OobRequest
<1>7. OobOutside(d, ofs, ops) <=> ~(/\ ofs + ops.len <= mtd[d].size /\ ~Misaligned(d, ofs)
                                    /\ ops.ooboffs + ops.ooblen <= mtd[d].oobsize)
  <2>1. OobOutside(d, ofs, ops) <=>
          \/ ofs + ops.len > mtd[d].size \/ ops.ooblen + ops.ooboffs > mtd[d].oobsize
          \/ Misaligned(d, ofs)
    BY OobPlain
  <2> QED
    BY <1>4, <2>1
<1> QED
  BY <1>3, <1>4, <1>5, <1>6, <1>7 DEF OobAnswer, OobRejected

LEMMA ReadOobStep ==
  ASSUME TypeOK, ProbedSoFar, ret = Idle, NEW d \in Working, NEW ofs \in Nat, NEW ops \in Ops(d),
         goldfish_nand_read_oob(d, ofs, ops), NoOobWrap(ofs, ops)
  PROVE  M!Request
<1>1. PICK cs : cs = OobCommands(d, ofs, ops)
  OBVIOUS
<1>2. PICK r : r = With([op |-> "read_oob", dev |-> d, ofs |-> ofs], ops)
  OBVIOUS
<1> DEFINE rejected ==
      OobOutside(d, ofs, ops) \/ (ops.datbuf /\ ops.len # 0 /\ ops.len # mtd[d].writesize)
<1> DEFINE results(k, n) == [rc |-> "0", retlen |-> k, got |-> Bytes(cs[1], k),
                             oobretlen |-> n, oobgot |-> Bytes(cs[2], n)]
<1>3. IF rejected THEN Invalid(r)
      ELSE \E k \in Result(cs[1]), n \in Result(cs[2]) :
             ret' = With(r, results(k, n)) /\ UNCHANGED <<raw, bad>>
  BY <1>1, <1>2 DEF goldfish_nand_read_oob
<1> HIDE DEF rejected, results
<1>4. PICK more : ret' = With(r, more)
  BY <1>3 DEF Invalid
<1>5. /\ ret'.op = "read_oob" /\ ret'.dev = d /\ ret'.ofs = ofs /\ ret'.len = ops.len
      /\ ret'.ooblen = ops.ooblen /\ ret'.ooboffs = ops.ooboffs
      /\ M!Legal(d, ret') <=> ~rejected
  <2>1. "read_oob" \in {"read_oob", "write_oob"} /\ "read_oob" # "write_oob"
    OBVIOUS
  <2>2. PICK result : result = ret'
    OBVIOUS
  <2>3. /\ OobAnswer("read_oob", d, ofs, ops, result)
        /\ M!Legal(d, result) <=> ~OobRejected("read_oob", d, ofs, ops)
    BY <1>2, <1>4, <2>1, <2>2, OobLegal
  <2> QED
    BY <2>1, <2>2, <2>3 DEF rejected, OobAnswer, OobRejected
<1>6. /\ DOMAIN r = {"op", "dev", "ofs", "len", "ooblen", "ooboffs", "datbuf", "oobbuf"}
      /\ r["op"] = "read_oob"
  BY <1>2, OobFields
<1>7. CASE rejected
  <2>1. Invalid(r) /\ "rc" \notin DOMAIN r /\ "op" \in DOMAIN r /\ r.op = "read_oob"
    BY <1>3, <1>6, <1>7
  <2>2. ~M!Legal(ret'.dev, ret')
    BY <1>5, <1>7
  <2> QED
    BY <2>1, <2>2, Rejected
<1>8. CASE ~rejected
  <2>1. PICK k \in Result(cs[1]), n \in Result(cs[2]) :
             ret' = With(r, results(k, n)) /\ UNCHANGED <<raw, bad>>
    BY <1>3, <1>8
  <2>2. /\ ret'.rc = "0" /\ ret'.retlen = k /\ ret'.got = Bytes(cs[1], k)
        /\ ret'.oobretlen = n /\ ret'.oobgot = Bytes(cs[2], n)
    <3>1. PICK m : m = results(k, n)
      OBVIOUS
    <3>2. /\ {"rc", "retlen", "got", "oobretlen", "oobgot"} \subseteq DOMAIN m \ DOMAIN r
          /\ m["rc"] = "0" /\ m["retlen"] = k /\ m["got"] = Bytes(cs[1], k)
          /\ m["oobretlen"] = n /\ m["oobgot"] = Bytes(cs[2], n)
      BY <1>6, <3>1 DEF results
    <3>3. \A x \in DOMAIN m \ DOMAIN r : ret'[x] = m[x]
      BY <2>1, <3>1, Zenon DEF With
    <3>4. /\ ret'["rc"] = "0" /\ ret'["retlen"] = k /\ ret'["got"] = Bytes(cs[1], k)
          /\ ret'["oobretlen"] = n /\ ret'["oobgot"] = Bytes(cs[2], n)
      BY <3>2, <3>3
    <3> QED
      BY <3>4
  <2>3. PICK p : p = ofs \div mtd[d].writesize
    OBVIOUS
  <2>4. OobPlace(cs, d, p, ops, k, n)
    <3>1. OobAccepted(d, ofs, ops)
      BY <1>8 DEF rejected, OobAccepted
    <3> QED
      BY <1>1, <2>3, <3>1, OobPlaced
  <2>5. /\ At(cs[1], d, p, 0) /\ At(cs[2], d, p, Chip[d].page + ops.ooboffs) /\ d \in Ids
        /\ k \in Nat /\ k <= ops.len /\ k <= Chip[d].page
        /\ n \in Nat /\ n <= ops.ooblen /\ ops.ooboffs \in Nat /\ ops.ooboffs + n <= Chip[d].extra
        /\ p \notin PageIds(d) => k = 0
    BY <2>4 DEF OobPlace
  <2>6. p \in PageIds(d) => /\ Bytes(cs[1], k) = M!Prefix(Data(raw)[d][p], 0, k)
                            /\ Bytes(cs[2], n) = M!Prefix(Oob(raw)[d][p], ops.ooboffs, n)
    BY <2>5, ReadArea
  <2>7. M!Page(d, ofs) = p /\ M!Pages(d) = PageIds(d)
    BY <2>3, MtdView
  <2>8. M!OobTransfer(ret')
    BY <1>5, <2>2, <2>5, <2>7 DEF M!OobTransfer
  <2>9. M!ReadOob(ret')
    BY <1>5, <2>1, <2>2, <2>6, <2>7, <2>8 DEF M!ReadOob, M!Flash
  <2>10. M!Legal(ret'.dev, ret')
    BY <1>5, <1>8
  <2> QED
    BY <1>5, <2>9, <2>10, IsRequest DEF Answered
<1> QED
  BY <1>7, <1>8

LEMMA WriteOobStep ==
  ASSUME TypeOK, ProbedSoFar, ret = Idle, NEW d \in Working, NEW ofs \in Nat, NEW ops \in Ops(d),
         NEW buf \in Bufs(d, DataLen(ops)), NEW oobbuf \in Bufs(d, OobLen(ops)),
         goldfish_nand_write_oob(d, ofs, ops, buf, oobbuf), NoOobWrap(ofs, ops)
  PROVE  M!Request
<1>1. PICK cs : cs = OobCommands(d, ofs, ops)
  OBVIOUS
<1>2. PICK r : r = With([op |-> "write_oob", dev |-> d, ofs |-> ofs], ops)
  OBVIOUS
<1> DEFINE rejected ==
      OobOutside(d, ofs, ops) \/ (ops.len # 0 /\ ops.len # mtd[d].writesize)
<1> DEFINE results(k, n) == [rc |-> "0", retlen |-> k, oobretlen |-> n,
                             put |-> buf, oobput |-> oobbuf]
<1>3. IF rejected THEN Invalid(r)
      ELSE \E k \in Result(cs[1]), n \in Result(cs[2]) :
             /\ raw' = Stored(Stored(raw, cs[1], SubSeq(buf, 1, k)),
                              cs[2], SubSeq(oobbuf, 1, n))
             /\ ret' = With(r, results(k, n)) /\ UNCHANGED bad
  BY <1>1, <1>2 DEF goldfish_nand_write_oob
<1> HIDE DEF rejected, results
<1>4. PICK more : ret' = With(r, more)
  BY <1>3 DEF Invalid
<1>5. /\ ret'.op = "write_oob" /\ ret'.dev = d /\ ret'.ofs = ofs /\ ret'.len = ops.len
      /\ ret'.ooblen = ops.ooblen /\ ret'.ooboffs = ops.ooboffs
      /\ M!Legal(d, ret') <=> ~rejected
  <2>1. "write_oob" \in {"read_oob", "write_oob"}
    OBVIOUS
  <2>2. PICK result : result = ret'
    OBVIOUS
  <2>3. /\ OobAnswer("write_oob", d, ofs, ops, result)
        /\ M!Legal(d, result) <=> ~OobRejected("write_oob", d, ofs, ops)
    BY <1>2, <1>4, <2>1, <2>2, OobLegal
  <2> QED
    BY <2>2, <2>3 DEF rejected, OobAnswer, OobRejected
<1>6. /\ DOMAIN r = {"op", "dev", "ofs", "len", "ooblen", "ooboffs", "datbuf", "oobbuf"}
      /\ r["op"] = "write_oob"
  BY <1>2, OobFields
<1>7. CASE rejected
  <2>1. Invalid(r) /\ "rc" \notin DOMAIN r /\ "op" \in DOMAIN r /\ r.op = "write_oob"
    BY <1>3, <1>6, <1>7
  <2>2. ~M!Legal(ret'.dev, ret')
    BY <1>5, <1>7
  <2> QED
    BY <2>1, <2>2, Rejected
<1>8. CASE ~rejected
  <2>1. PICK k \in Result(cs[1]), n \in Result(cs[2]) :
             /\ raw' = Stored(Stored(raw, cs[1], SubSeq(buf, 1, k)),
                              cs[2], SubSeq(oobbuf, 1, n))
             /\ ret' = With(r, results(k, n)) /\ UNCHANGED bad
    BY <1>3, <1>8
  <2>2. /\ ret'.rc = "0" /\ ret'.retlen = k /\ ret'.oobretlen = n
        /\ ret'.put = buf /\ ret'.oobput = oobbuf
    <3>1. PICK m : m = results(k, n)
      OBVIOUS
    <3>2. /\ {"rc", "retlen", "oobretlen", "put", "oobput"} \subseteq DOMAIN m \ DOMAIN r
          /\ m["rc"] = "0" /\ m["retlen"] = k /\ m["oobretlen"] = n
          /\ m["put"] = buf /\ m["oobput"] = oobbuf
      BY <1>6, <3>1 DEF results
    <3>3. \A x \in DOMAIN m \ DOMAIN r : ret'[x] = m[x]
      BY <2>1, <3>1, Zenon DEF With
    <3>4. /\ ret'["rc"] = "0" /\ ret'["retlen"] = k /\ ret'["oobretlen"] = n
          /\ ret'["put"] = buf /\ ret'["oobput"] = oobbuf
      BY <3>2, <3>3
    <3> QED
      BY <3>4
  <2>3. PICK p : p = ofs \div mtd[d].writesize
    OBVIOUS
  <2>4. OobPlace(cs, d, p, ops, k, n)
    <3>1. OobAccepted(d, ofs, ops)
      BY <1>8 DEF rejected, OobAccepted
    <3> QED
      BY <1>1, <2>3, <3>1, OobPlaced
  <2>5. /\ cs[1] \in Commands /\ cs[2] \in Commands /\ d \in Ids
        /\ At(cs[1], d, p, 0) /\ At(cs[2], d, p, Chip[d].page + ops.ooboffs)
        /\ k \in Nat /\ k <= ops.len /\ k <= Chip[d].page
        /\ n \in Nat /\ n <= ops.ooblen /\ ops.ooboffs \in Nat /\ ops.ooboffs + n <= Chip[d].extra
        /\ p \notin PageIds(d) => /\ k = 0 /\ cs[1].dev = d /\ Behind(d, cs[1].addr)
                                  /\ cs[2].dev = d /\ Behind(d, cs[2].addr)
    BY <2>4 DEF OobPlace
  <2>6. PICK bytes, oobbytes :
          /\ bytes = SubSeq(buf, 1, k) /\ bytes \in Seq(Byte)
          /\ Len(bytes) \in Nat /\ Len(bytes) <= Chip[d].page
          /\ oobbytes = SubSeq(oobbuf, 1, n) /\ Len(oobbytes) \in Nat
          /\ ops.ooboffs + Len(oobbytes) <= Chip[d].extra
    <3>1. /\ cs[1] \in Commands /\ cs[1].dev = d /\ cs[1].len = DataLen(ops)
          /\ cs[2] \in Commands /\ cs[2].dev = d /\ cs[2].len = OobLen(ops)
      BY <1>1, OobSent
    <3>2. SubSeq(buf, 1, k) \in Seq(Byte) /\ Len(SubSeq(buf, 1, k)) = k
      BY <2>1, <3>1, TakenBytes
    <3>3. Len(SubSeq(oobbuf, 1, n)) = n
      BY <2>1, <3>1, TakenBytes
    <3> QED
      BY <2>5, <3>2, <3>3
  <2>7. PICK between, after :
          /\ between = Stored(raw, cs[1], bytes) /\ after = Stored(between, cs[2], oobbytes)
          /\ after = raw'
    BY <2>1, <2>6
  <2>8. RawOK(raw) /\ RawOK(between)
    BY <2>5, <2>6, <2>7, StoredOK, InUse
  <2>9. ASSUME p \in PageIds(d)
        PROVE  /\ DataStored(raw, between, d, p, bytes)
               /\ OobStored(between, after, d, p, ops.ooboffs, oobbytes)
    <3>1. DataStored(raw, between, d, p, bytes)
      BY <2>5, <2>6, <2>7, <2>8, <2>9, StoredData
    <3>2. OobStored(between, after, d, p, ops.ooboffs, oobbytes)
      BY <2>5, <2>6, <2>7, <2>8, <2>9, StoredOob
    <3> QED
      BY <3>1, <3>2
  <2>10. ASSUME p \notin PageIds(d)
         PROVE  Data(after) = Data(raw) /\ Oob(after) = Oob(raw)
    <3>1. Data(between) = Data(raw) /\ Oob(between) = Oob(raw)
      BY <2>5, <2>6, <2>7, <2>8, <2>10, StoredBehind
    <3>2. Data(after) = Data(between) /\ Oob(after) = Oob(between)
      BY <2>5, <2>6, <2>7, <2>8, <2>10, StoredBehind
    <3> QED
      BY <3>1, <3>2
  <2>11. M!Page(d, ofs) = p /\ M!Pages(d) = PageIds(d)
    BY <2>3, MtdView
  <2>12. M!OobTransfer(ret')
    BY <1>5, <2>2, <2>5, <2>11 DEF M!OobTransfer
  <2>13. M!WriteOob(ret')
    <3>1. CASE p \in PageIds(d)
      <4>1. /\ Data(after) = [Data(raw) EXCEPT ![d][p] = M!Filled(@, 0, bytes)]
            /\ Oob(after) = [Oob(raw) EXCEPT ![d][p] = M!Filled(@, ops.ooboffs, oobbytes)]
        BY <2>9, <3>1 DEF DataStored, OobStored
      <4> QED
        BY <1>5, <2>1, <2>2, <2>6, <2>7, <2>11, <2>12, <3>1, <4>1 DEF M!WriteOob
    <3>2. CASE p \notin PageIds(d)
      BY <1>5, <2>1, <2>2, <2>7, <2>10, <2>11, <2>12, <3>2 DEF M!WriteOob
    <3> QED
      BY <3>1, <3>2
  <2>14. M!Legal(ret'.dev, ret')
    BY <1>5, <1>8
  <2> QED
    BY <1>5, <2>13, <2>14, IsRequest DEF Answered
<1> QED
  BY <1>7, <1>8

\* The raw length of an erase is never more than its pages', and theirs unless it is cut.
LEMMA EraseLength ==
  ASSUME TypeOK, ProbedSoFar, NEW d \in Working, NEW asked \in Nat,
         NEW len, len = Word(asked), NEW n, n = asked \div mtd[d].writesize,
         NEW m \in Nat, m = 2^WordBits
  PROVE  /\ len \in Nat /\ n \in Nat /\ n * RawPage(d) \in Nat
         /\ RawLength(d, len) \in Nat /\ RawLength(d, len) <= n * RawPage(d)
         /\ asked < m /\ n * RawPage(d) < m => len = asked /\ RawLength(d, len) = n * RawPage(d)
<1>1. PICK page \in Nat, raw_page \in Nat :
        /\ page = mtd[d].writesize /\ page >= 1 /\ raw_page = RawPage(d)
        /\ raw_page = mtd[d].writesize + mtd[d].oobsize
  BY InUse DEF RawPage
<1>2. m >= 1
  BY ChipAssumption
<1>3. len = asked % m /\ len \in Nat /\ len <= asked
  BY <1>2, RemainderBound DEF Word
<1>4. n \in Nat /\ n = asked \div page
  BY <1>1, Division
<1>5. PICK pages \in Nat : pages = len \div page
  BY <1>1, <1>3, Division
<1>6. pages <= n
  <2>1. PICK t \in Nat, u \in Nat : /\ asked = n * page + t /\ t < page
                                    /\ len = pages * page + u /\ u < page
    <3>1. page >= 1
      BY <1>1
    <3>2. /\ asked % page \in 0 .. page - 1 /\ asked = (asked \div page) * page + (asked % page)
          /\ len % page \in 0 .. page - 1 /\ len = (len \div page) * page + (len % page)
      BY <1>3, <3>1, Division
    <3>3. PICK t \in Nat, u \in Nat : t = asked % page /\ t < page /\ u = len % page /\ u < page
      BY <3>2
    <3>4. asked = n * page + t
      BY <1>4, <3>2, <3>3
    <3>5. len = pages * page + u
      BY <1>5, <3>2, <3>3
    <3> QED
      BY <3>3, <3>4, <3>5
  <2>2. n * page \in Nat /\ pages * page \in Nat /\ (n + 1) * page = n * page + page
    BY <1>4, <1>5, Order
  <2>3. n + 1 <= pages => (n + 1) * page <= pages * page
    BY <1>4, <1>5, Order
  <2>4. ~(n + 1 <= pages)
    BY <1>3, <2>1, <2>2, <2>3
  <2> QED
    BY <1>4, <1>5, <2>4
<1>7. pages * raw_page <= n * raw_page /\ pages * raw_page \in Nat /\ n * raw_page \in Nat
  BY <1>4, <1>5, <1>6, Order
<1>8. RawLength(d, len) = (pages * raw_page) % m
  BY <1>1, <1>5 DEF RawLength, Word
<1>9. PICK all \in Nat, most \in Nat : all = pages * raw_page /\ most = n * raw_page /\ all <= most
  BY <1>7
<1>10. all % m \in Nat /\ all % m <= all
  BY <1>2, RemainderBound
<1>11. ASSUME asked < m, most < m
       PROVE  len = asked /\ all % m = most
  <2>1. len = asked
    BY <1>3, <1>11, SmallRemainder
  <2>2. pages = n
    BY <1>4, <1>5, <2>1
  <2>3. all = most
    BY <1>9, <2>2
  <2> QED
    BY <1>11, <2>1, <2>3, SmallRemainder
<1> QED
  BY <1>1, <1>3, <1>4, <1>8, <1>9, <1>10, <1>11

\* An erase of k bytes of n pages from page first on: a page's byte becomes Erased, or
\* stays, if the erase stopped short; bytes of other pages stay.
ErasedTo(r, s, d, first, n, k) ==
  \A e \in Ids : \A q \in PageIds(e) : \A b \in 0 .. RawPage(e) - 1 :
    IF e = d /\ q \in first .. first + n - 1
    THEN \/ s[e][q * RawPage(e) + b] = Erased
         \/ k # n * RawPage(d) /\ s[e][q * RawPage(e) + b] = r[e][q * RawPage(e) + b]
    ELSE s[e][q * RawPage(e) + b] = r[e][q * RawPage(e) + b]

LEMMA ErasedPages ==
  ASSUME NEW r, RawOK(r), NEW d \in Ids, NEW first \in Nat, NEW n \in Nat,
         NEW c \in Commands, At(c, d, first, 0), NEW k \in Nat, NEW all, all = n * RawPage(d), k <= all,
         NEW s, s = Stored(r, c, [j \in 1 .. k |-> Erased])
  PROVE  ErasedTo(r, s, d, first, n, k)
<1>1. PICK bytes : bytes = [j \in 1 .. k |-> Erased] /\ Len(bytes) = k
  <2>1. [j \in 1 .. k |-> Erased] \in Seq({Erased})
    OBVIOUS
  <2>2. DOMAIN [j \in 1 .. k |-> Erased] = 1 .. k
    OBVIOUS
  <2>3. Len([j \in 1 .. k |-> Erased]) = k
    BY <2>1, <2>2, LenProperties
  <2> QED
    BY <2>3
<1>2. \A j \in 1 .. k : bytes[j] = Erased
  BY <1>1
<1>3. ASSUME NEW e \in Ids, NEW q \in PageIds(e), NEW b \in 0 .. RawPage(e) - 1
      PROVE  IF e = d /\ q \in first .. first + n - 1
             THEN \/ s[e][q * RawPage(e) + b] = Erased
                  \/ k # all /\ s[e][q * RawPage(e) + b] = r[e][q * RawPage(e) + b]
             ELSE s[e][q * RawPage(e) + b] = r[e][q * RawPage(e) + b]
  <2>1. PICK y \in Nat, qy \in Nat, fy \in Nat, m \in Nat :
          /\ y = RawPage(e) /\ qy = q * RawPage(e) /\ m = Chip[e].raw /\ fy = first * y
    <3>1. \A x \in Nat : x * RawPage(e) \in Nat
      BY PageFacts, Order
    <3> QED
      BY <3>1, PageFacts, ChipFacts
  <2>2. b \in Nat /\ b < y
    BY <2>1
  <2>3. qy + y <= m
    BY <2>1, PageFacts
  <2>4. PICK a \in 0 .. Chip[e].raw - 1 : a = qy + b
    <3>1. qy + b \in 0 .. m - 1
      BY <2>2, <2>3
    <3> QED
      BY <2>1, <3>1
  <2>5. s[e][a] = IF e = c.dev /\ a >= c.addr /\ a < c.addr + k
                  THEN bytes[a - c.addr + 1] ELSE r[e][a]
    <3>1. Len(bytes) \in Nat
      BY <1>1
    <3>2. Stored(r, c, bytes)[e][a] = IF e = c.dev /\ a >= c.addr /\ a < c.addr + Len(bytes)
                                      THEN bytes[a - c.addr + 1] ELSE r[e][a]
      BY <3>1, StoredBytes
    <3> QED
      BY <1>1, <3>2
  <2>6. c.dev = d /\ c.addr \in Nat /\ (e = d => c.addr = fy)
    BY <2>1 DEF At, Commands
  <2>7. ASSUME e = c.dev, a >= c.addr, a < c.addr + k
        PROVE  bytes[a - c.addr + 1] = Erased
    BY <1>2, <2>6, <2>7
  <2>8. e = d => all = n * y
    BY <2>1
  <2>9. q \in Nat /\ all \in Nat
    BY PageFacts, Order
  <2>10. ASSUME e = d, q \in first .. first + n - 1, k = all
         PROVE  a >= c.addr /\ a < c.addr + k
    <3>1. first <= q /\ q + 1 <= first + n
      BY <2>9, <2>10
    <3>2. first * y <= q * y /\ (q + 1) * y <= (first + n) * y
      BY <2>9, <3>1, Order
    <3>3. (q + 1) * y = q * y + y /\ (first + n) * y = first * y + n * y
      BY <2>9
    <3>4. fy <= qy /\ qy + y <= fy + k
      BY <2>1, <2>8, <2>10, <3>2, <3>3
    <3> QED
      BY <2>2, <2>4, <2>6, <2>10, <3>4
  <2>11. ASSUME e = d, q \notin first .. first + n - 1
         PROVE  ~(a >= c.addr /\ a < c.addr + k)
    <3>1. CASE q + 1 <= first
      <4>1. (q + 1) * y <= first * y /\ (q + 1) * y = q * y + y
        BY <2>9, <3>1, Order
      <4>2. qy + y <= fy
        BY <2>1, <4>1
      <4> QED
        BY <2>2, <2>4, <2>6, <2>11, <4>2
    <3>2. CASE first + n <= q
      <4>1. (first + n) * y <= q * y /\ (first + n) * y = first * y + n * y
        BY <2>9, <3>2, Order
      <4>2. fy + all <= qy
        BY <2>1, <2>8, <2>11, <4>1
      <4> QED
        BY <2>2, <2>4, <2>6, <2>9, <2>11, <4>2
    <3> QED
      BY <2>9, <2>11, <3>1, <3>2
  <2>12. s[e][a] = Erased \/ s[e][a] = r[e][a]
    BY <2>5, <2>7
  <2>13. q * RawPage(e) + b = a
    BY <2>1, <2>4
  <2> QED
    BY <2>5, <2>6, <2>7, <2>10, <2>11, <2>12, <2>13
<1> QED
  BY <1>3 DEF ErasedTo

\* What an erase leaves of an area, inside its range or not, short of its end or not.
ErasedArea(old, new, inside, short) ==
  \A b \in DOMAIN old : IF inside THEN new[b] = Erased \/ (short /\ new[b] = old[b])
                        ELSE new[b] = old[b]

EraseLeaves(r, s, d, first, n, short) ==
  /\ \A e \in Ids \ {d} : Data(s)[e] = Data(r)[e] /\ Oob(s)[e] = Oob(r)[e]
  /\ \A p \in PageIds(d) :
       /\ ErasedArea(Data(r)[d][p], Data(s)[d][p], p \in first .. first + n - 1, short)
       /\ ErasedArea(Oob(r)[d][p], Oob(s)[d][p], p \in first .. first + n - 1, short)

LEMMA ErasedAreas ==
  ASSUME NEW r, NEW s, NEW d \in Ids, NEW first \in Nat, NEW n \in Nat, NEW k,
         ErasedTo(r, s, d, first, n, k), NEW all, all = n * RawPage(d)
  PROVE  EraseLeaves(r, s, d, first, n, k # all)
<1>1. ASSUME NEW e \in Ids, e # d
      PROVE  Data(s)[e] = Data(r)[e] /\ Oob(s)[e] = Oob(r)[e]
  <2>1. ASSUME NEW q \in PageIds(e)
        PROVE  Data(s)[e][q] = Data(r)[e][q] /\ Oob(s)[e][q] = Oob(r)[e][q]
    <3>1. SamePage(r, s, e, q)
      BY <1>1 DEF ErasedTo, SamePage
    <3> QED
      BY <3>1, SameArea
  <2>2. AreasOK(Data(r)) /\ AreasOK(Data(s)) /\ AreasOK(Oob(r)) /\ AreasOK(Oob(s))
    BY AreasAreFunctions
  <2> QED
    BY <2>1, <2>2 DEF AreasOK
<1>2. ASSUME NEW p \in PageIds(d), NEW x \in 0 .. RawPage(d) - 1
      PROVE  IF p \in first .. first + n - 1
             THEN \/ s[d][p * RawPage(d) + x] = Erased
                  \/ k # all /\ s[d][p * RawPage(d) + x] = r[d][p * RawPage(d) + x]
             ELSE s[d][p * RawPage(d) + x] = r[d][p * RawPage(d) + x]
  BY DEF ErasedTo
<1>3. ASSUME NEW p \in PageIds(d)
      PROVE  ErasedArea(Data(r)[d][p], Data(s)[d][p], p \in first .. first + n - 1, k # all)
  <2>1. /\ DOMAIN Data(r)[d][p] = 0 .. Chip[d].page - 1
        /\ \A b \in 0 .. Chip[d].page - 1 :
              Data(r)[d][p][b] = r[d][p * RawPage(d) + b] /\ b \in 0 .. RawPage(d) - 1
    BY AreaBytes
  <2>2. \A b \in 0 .. Chip[d].page - 1 : Data(s)[d][p][b] = s[d][p * RawPage(d) + b]
    BY AreaBytes
  <2> QED
    BY <1>2, <2>1, <2>2 DEF ErasedArea
<1>4. ASSUME NEW p \in PageIds(d)
      PROVE  ErasedArea(Oob(r)[d][p], Oob(s)[d][p], p \in first .. first + n - 1, k # all)
  <2>1. /\ DOMAIN Oob(r)[d][p] = 0 .. Chip[d].extra - 1
        /\ \A b \in 0 .. Chip[d].extra - 1 :
              /\ Oob(r)[d][p][b] = r[d][p * RawPage(d) + (Chip[d].page + b)]
              /\ Chip[d].page + b \in 0 .. RawPage(d) - 1
    BY AreaBytes
  <2>2. \A b \in 0 .. Chip[d].extra - 1 :
          Oob(s)[d][p][b] = s[d][p * RawPage(d) + (Chip[d].page + b)]
    BY AreaBytes
  <2> QED
    BY <1>2, <2>1, <2>2 DEF ErasedArea
<1> QED
  BY <1>1, <1>3, <1>4 DEF EraseLeaves

LEMMA EraseStep ==
  ASSUME TypeOK, ProbedSoFar, ret = Idle, NEW d \in Working, NEW ofs \in Nat, NEW asked \in Nat,
         goldfish_nand_erase(d, ofs, asked), ofs + Word(asked) < 2^WideBits
  PROVE  M!Request
<1>1. PICK m \in Nat : m = 2^WordBits
  BY ChipAssumption
<1>2. PICK len : len = Word(asked)
  OBVIOUS
<1>3. PICK r : r = [op |-> "erase", dev |-> d, ofs |-> ofs, len |-> asked, callback |-> FALSE]
  OBVIOUS
<1>4. PICK c : c = Command(d, Address(d, ofs), RawLength(d, len))
  OBVIOUS
<1>5. PICK n, all : n = asked \div mtd[d].writesize /\ all = n * RawPage(d)
  OBVIOUS
<1>6. /\ len \in Nat /\ n \in Nat /\ all \in Nat
      /\ RawLength(d, len) \in Nat /\ RawLength(d, len) <= all
      /\ asked < m /\ all < m => len = asked /\ RawLength(d, len) = all
  <2>1. /\ len \in Nat /\ n \in Nat /\ n * RawPage(d) \in Nat
        /\ RawLength(d, len) \in Nat /\ RawLength(d, len) <= n * RawPage(d)
        /\ asked < m /\ n * RawPage(d) < m => len = asked /\ RawLength(d, len) = n * RawPage(d)
    BY <1>1, <1>2, <1>5, EraseLength
  <2> QED
    BY <1>5, <2>1
<1> DEFINE rejected == ofs + len > mtd[d].size \/ Misaligned(d, ofs) \/ len % mtd[d].writesize # 0
<1>7. IF rejected THEN Invalid(r)
      ELSE \E k \in Result(c) :
             /\ raw' = Stored(raw, c, [j \in 1 .. k |-> Erased])
             /\ ret' = IF k # c.len THEN With(r, [rc |-> "EIO"])
                       ELSE With(mtd_erase_callback(r), [rc |-> "0"])
             /\ UNCHANGED bad
  <2>1. PastEnd(d, ofs, len) <=> ofs + len > mtd[d].size
    BY <1>2, <1>6, PastEndFacts
  <2> QED
    BY <1>2, <1>3, <1>4, <2>1 DEF goldfish_nand_erase
<1>8. /\ DOMAIN r = {"op", "dev", "ofs", "len", "callback"}
      /\ r["op"] = "erase" /\ r["dev"] = d /\ r["ofs"] = ofs /\ r["len"] = asked
  BY <1>3
<1>9. PICK called : called = mtd_erase_callback(r)
  OBVIOUS
<1>10. /\ DOMAIN called = {"op", "dev", "ofs", "len", "callback"}
       /\ called["op"] = "erase" /\ called["dev"] = d /\ called["ofs"] = ofs /\ called["len"] = asked
  BY <1>3, <1>9 DEF mtd_erase_callback
<1>11. PICK q \in {r, called}, code \in {"EINVAL", "EIO", "0"} : ret' = With(q, [rc |-> code])
  <2>1. CASE rejected
    BY <1>7, <2>1 DEF Invalid
  <2>2. CASE ~rejected
    BY <1>7, <1>9, <2>2
  <2> QED
    BY <2>1, <2>2
<1>12. ret'.op = "erase" /\ ret'.dev = d /\ ret'.ofs = ofs /\ ret'.len = asked /\ ret'.rc = code
  <2>1. \A x \in DOMAIN q : ret'[x] = q[x]
    BY <1>11, Zenon DEF With
  <2>2. ret'["op"] = "erase" /\ ret'["dev"] = d /\ ret'["ofs"] = ofs /\ ret'["len"] = asked
    BY <1>8, <1>10, <1>11, <2>1
  <2>3. \A x \in DOMAIN [rc |-> code] \ DOMAIN q : ret'[x] = [rc |-> code][x]
    BY <1>11, Zenon DEF With
  <2>4. "rc" \in DOMAIN [rc |-> code] \ DOMAIN q /\ [rc |-> code]["rc"] = code
    BY <1>8, <1>10, <1>11
  <2>5. ret'["rc"] = code
    BY <2>3, <2>4
  <2> QED
    BY <2>2, <2>5
<1>13. /\ mtd[d].size \in Nat /\ mtd[d].writesize \in Nat /\ mtd[d].oobsize \in Nat
       /\ mtd[d].writesize = Chip[d].page /\ mtd[d].oobsize = Chip[d].extra /\ d \in Ids /\ RawOK(raw)
  BY InUse
<1>14. M!Legal(d, ret') <=> /\ ofs + asked <= mtd[d].size /\ ~Misaligned(d, ofs)
                            /\ asked % mtd[d].writesize = 0
  <2>1. M!Legal(d, ret') <=> M!EraseRequest(d, ret')
    BY <1>12 DEF M!Legal
  <2> QED
    BY <1>12, <2>1, MtdView DEF M!EraseRequest
<1>15. M!Cut(ret') <=> ~Misaligned(d, ofs) /\ ~(asked < m /\ all < m)
  <2>1. MtdGeometry[d].writesize = mtd[d].writesize /\ MtdGeometry[d].oobsize = mtd[d].oobsize
    BY MtdView
  <2>2. (asked \div mtd[d].writesize) * (mtd[d].writesize + mtd[d].oobsize) = all
    BY <1>5, <1>13 DEF RawPage
  <2>3. M!Fits(d, ret') <=> asked < m /\ all < m
    BY <1>1, <1>12, <2>1, <2>2 DEF M!Fits
  <2> QED
    BY <1>12, <2>3, MtdView DEF M!Cut
<1>16. IF rejected THEN ~M!Legal(d, ret') \/ M!Cut(ret') ELSE M!Legal(d, ret') \/ M!Cut(ret')
  <2>1. CASE asked < m /\ all < m
    BY <1>6, <1>13, <1>14, <2>1
  <2>2. CASE ~(asked < m /\ all < m)
    BY <1>14, <1>15, <2>2
  <2> QED
    BY <2>1, <2>2
<1>17. CASE rejected
  <2>1. Invalid(r) /\ "rc" \notin DOMAIN r /\ "op" \in DOMAIN r /\ r.op = "erase"
    BY <1>3, <1>7, <1>17
  <2>2. ~M!Legal(ret'.dev, ret') \/ M!Cut(ret')
    BY <1>12, <1>16, <1>17
  <2> HIDE DEF rejected
  <2> QED
    BY <2>1, <2>2, Rejected
<1>18. CASE ~rejected
  <2>1. PICK k \in Result(c) :
             /\ raw' = Stored(raw, c, [j \in 1 .. k |-> Erased])
             /\ ret' = IF k # c.len THEN With(r, [rc |-> "EIO"])
                       ELSE With(mtd_erase_callback(r), [rc |-> "0"])
             /\ UNCHANGED bad
    BY <1>7, <1>18
  <2>2. PICK first : first = ofs \div mtd[d].writesize
    OBVIOUS
  <2>3. first \in Nat /\ Address(d, ofs) = first * RawPage(d) /\ Address(d, ofs) \in Nat
    <3>1. ofs <= mtd[d].size /\ ~Misaligned(d, ofs)
      BY <1>6, <1>13, <1>18
    <3> QED
      BY <2>2, <3>1, PageAddress, AddressIsNat
  <2>4. At(c, d, first, 0) /\ c.len = RawLength(d, len) /\ c \in Commands
    BY <1>4, <1>6, <1>13, <2>3, CommandFields DEF At
  <2>5. k \in Nat /\ k <= all
    BY <1>6, <2>4 DEF Result
  <2>6. ret'.rc = (IF k # c.len THEN "EIO" ELSE "0")
    <3>1. PICK code2 : code2 = IF k # c.len THEN "EIO" ELSE "0"
      OBVIOUS
    <3>2. PICK q2 \in {r, called} : ret' = With(q2, [rc |-> code2])
      BY <1>9, <2>1, <3>1
    <3>3. \A x \in DOMAIN [rc |-> code2] \ DOMAIN q2 : ret'[x] = [rc |-> code2][x]
      BY <3>2, Zenon DEF With
    <3>4. "rc" \in DOMAIN [rc |-> code2] \ DOMAIN q2 /\ [rc |-> code2]["rc"] = code2
      BY <1>8, <1>10, <3>2
    <3>5. ret'["rc"] = code2
      BY <3>3, <3>4
    <3> QED
      BY <3>1, <3>5
  <2>7. PICK s : s = raw' /\ s = Stored(raw, c, [j \in 1 .. k |-> Erased])
    BY <2>1
  <2>8. ErasedTo(raw, s, d, first, n, k)
    BY <1>5, <1>6, <1>13, <2>3, <2>4, <2>5, <2>7, ErasedPages
  <2>9. /\ \A e \in Ids \ {d} : Data(s)[e] = Data(raw)[e] /\ Oob(s)[e] = Oob(raw)[e]
        /\ \A p \in PageIds(d) :
             /\ ErasedArea(Data(raw)[d][p], Data(s)[d][p], p \in first .. first + n - 1, k # all)
             /\ ErasedArea(Oob(raw)[d][p], Oob(s)[d][p], p \in first .. first + n - 1, k # all)
    <3>1. EraseLeaves(raw, s, d, first, n, k # all)
      BY <1>5, <1>6, <1>13, <2>3, <2>8, ErasedAreas
    <3> QED
      BY <3>1 DEF EraseLeaves
  <2>10. k # all => ret'.rc = "EIO" \/ M!Cut(ret')
    BY <1>6, <1>15, <1>18, <2>4, <2>6
  <2>11. /\ M!Page(d, ofs) = first /\ M!Pages(d) = PageIds(d)
         /\ ret'.len \div MtdGeometry[d].writesize = n
    BY <1>5, <1>12, <2>2, MtdView
  <2>12. ret'.rc \in {"0", "EIO"}
    BY <2>6
  <2>13. M!Erase(ret')
    <3>1. ASSUME NEW p \in PageIds(d),
                 NEW old, NEW new, ErasedArea(old, new, p \in first .. first + n - 1, k # all)
          PROVE  \A b \in DOMAIN old :
                   IF p \in first .. first + n - 1
                   THEN new[b] = Erased \/ ((ret'.rc = "EIO" \/ M!Cut(ret')) /\ new[b] = old[b])
                   ELSE new[b] = old[b]
      BY <2>10, <3>1 DEF ErasedArea
    <3>2. ASSUME NEW p \in PageIds(d)
          PROVE  /\ \A b \in DOMAIN Data(raw)[d][p] :
                      IF p \in first .. first + n - 1
                      THEN \/ Data(s)[d][p][b] = Erased
                           \/ (ret'.rc = "EIO" \/ M!Cut(ret')) /\ Data(s)[d][p][b] = Data(raw)[d][p][b]
                      ELSE Data(s)[d][p][b] = Data(raw)[d][p][b]
                 /\ \A b \in DOMAIN Oob(raw)[d][p] :
                      IF p \in first .. first + n - 1
                      THEN \/ Oob(s)[d][p][b] = Erased
                           \/ (ret'.rc = "EIO" \/ M!Cut(ret')) /\ Oob(s)[d][p][b] = Oob(raw)[d][p][b]
                      ELSE Oob(s)[d][p][b] = Oob(raw)[d][p][b]
      BY <2>9, <3>1
    <3>3. ASSUME NEW p \in M!Pages(ret'.dev)
          PROVE  /\ \A b \in DOMAIN Data(raw)[ret'.dev][p] :
                      IF p \in M!Page(ret'.dev, ret'.ofs) ..
                           M!Page(ret'.dev, ret'.ofs) + ret'.len \div MtdGeometry[ret'.dev].writesize - 1
                      THEN \/ Data(raw')[ret'.dev][p][b] = Erased
                           \/ /\ ret'.rc = "EIO" \/ M!Cut(ret')
                              /\ Data(raw')[ret'.dev][p][b] = Data(raw)[ret'.dev][p][b]
                      ELSE Data(raw')[ret'.dev][p][b] = Data(raw)[ret'.dev][p][b]
                 /\ \A b \in DOMAIN Oob(raw)[ret'.dev][p] :
                      IF p \in M!Page(ret'.dev, ret'.ofs) ..
                           M!Page(ret'.dev, ret'.ofs) + ret'.len \div MtdGeometry[ret'.dev].writesize - 1
                      THEN \/ Oob(raw')[ret'.dev][p][b] = Erased
                           \/ /\ ret'.rc = "EIO" \/ M!Cut(ret')
                              /\ Oob(raw')[ret'.dev][p][b] = Oob(raw)[ret'.dev][p][b]
                      ELSE Oob(raw')[ret'.dev][p][b] = Oob(raw)[ret'.dev][p][b]
      <4>1. p \in PageIds(d) /\ ret'.dev = d /\ raw' = s
        BY <1>12, <2>7, <2>11
      <4>2. M!Page(ret'.dev, ret'.ofs) ..
              M!Page(ret'.dev, ret'.ofs) + ret'.len \div MtdGeometry[ret'.dev].writesize - 1
            = first .. first + n - 1
        BY <1>12, <2>11
      <4> QED
        BY <3>2, <4>1, <4>2
    <3>4. \A e \in Ids \ {ret'.dev} : Data(raw')[e] = Data(raw)[e] /\ Oob(raw')[e] = Oob(raw)[e]
      BY <1>12, <2>7, <2>9
    <3> QED
      BY <1>12, <2>1, <2>12, <3>3, <3>4 DEF M!Erase
  <2>14. M!Legal(ret'.dev, ret') \/ M!Cut(ret')
    BY <1>12, <1>16, <1>18
  <2> HIDE DEF rejected
  <2> QED
    BY <1>12, <2>13, <2>14, IsRequest DEF Answered
<1> QED
  BY <1>17, <1>18

\* The block that the controller takes an address for is the block of the offset.
LEMMA BlockIsOffsets ==
  ASSUME TypeOK, ProbedSoFar, NEW d \in Working, NEW ofs \in Nat, ~NoBlock(d, ofs)
  PROVE  BlockOf(Command(d, BlockAddress(d, ofs), 0)) = M!Block(d, ofs)
<1>1. PICK page \in Nat, raw_page \in Nat :
        /\ page = mtd[d].writesize /\ page = Chip[d].page /\ page >= 1 /\ d \in Ids /\ Probed(d)
        /\ raw_page = mtd[d].writesize + mtd[d].oobsize /\ raw_page = Chip[d].page + Chip[d].extra
  BY InUse
<1>2. PICK block : block = Chip[d].erase \div raw_page
  OBVIOUS
<1>3. /\ block \in Nat /\ block >= 1 /\ Chip[d].erase = block * raw_page /\ Chip[d].erase \in Nat
      /\ block * page \in Nat /\ (block * page) \div page = block /\ mtd[d].erasesize = block * page
      /\ Chip[d].erase >= 1 /\ block * page >= 1
  BY <1>1, <1>2, BlockFacts, ChipFacts DEF Probed
<1>4. PICK b \in Nat : b = ofs \div mtd[d].erasesize
  <2>1. PICK bytes \in Nat : bytes = mtd[d].erasesize /\ bytes >= 1
    BY <1>3
  <2> QED
    BY <2>1, Division
<1>5. BlockAddress(d, ofs) = b * block * raw_page
  BY <1>1, <1>3, <1>4 DEF BlockAddress
<1>6. b * block * raw_page = b * (block * raw_page)
  BY <1>1, <1>3
<1>7. PICK erase \in Nat : erase = Chip[d].erase /\ erase >= 1 /\ BlockAddress(d, ofs) = b * erase
  BY <1>3, <1>5, <1>6
<1>8. (b * erase) \div erase = b
  BY <1>7, Multiple
<1>9. BlockOf(Command(d, BlockAddress(d, ofs), 0)) = b
  BY <1>7, <1>8, CommandFields DEF BlockOf
<1>10. M!Block(d, ofs) = b
  BY <1>4, MtdView DEF M!Block
<1> QED
  BY <1>9, <1>10

LEMMA BlockStep ==
  ASSUME TypeOK, ProbedSoFar, ret = Idle, NEW d \in Working, NEW ofs \in Nat,
         goldfish_nand_block_isbad(d, ofs) \/ goldfish_nand_block_markbad(d, ofs)
  PROVE  M!Request
<1>1. PICK op \in {"isbad", "markbad"} :
        /\ op = "isbad" => goldfish_nand_block_isbad(d, ofs)
        /\ op = "markbad" => goldfish_nand_block_markbad(d, ofs)
  OBVIOUS
<1>2. PICK r : r = [op |-> op, dev |-> d, ofs |-> ofs]
  OBVIOUS
<1>3. PICK b : b = BlockOf(Command(d, BlockAddress(d, ofs), 0))
  OBVIOUS
<1>4. IF NoBlock(d, ofs) THEN Invalid(r)
      ELSE /\ raw' = raw
           /\ \/ /\ op = "isbad" /\ bad' = bad
                 /\ ret' = With(r, [rc |-> IF b \in bad[d] THEN "1" ELSE "0"])
              \/ /\ op = "markbad" /\ bad' = [bad EXCEPT ![d] = @ \cup {b}]
                 /\ ret' = With(r, [rc |-> "0"])
              \/ op = "markbad" /\ bad' = bad /\ ret' = With(r, [rc |-> "EIO"])
  <2>1. CASE op = "isbad"
    BY <1>1, <1>2, <1>3, <2>1 DEF goldfish_nand_block_isbad
  <2>2. CASE op = "markbad"
    BY <1>1, <1>2, <1>3, <2>2 DEF goldfish_nand_block_markbad
  <2> QED
    BY <2>1, <2>2
<1>5. /\ DOMAIN r = {"op", "dev", "ofs"} /\ r["op"] = op /\ r["dev"] = d /\ r["ofs"] = ofs
  BY <1>2
<1>6. PICK code : ret' = With(r, [rc |-> code])
  BY <1>4 DEF Invalid
<1>7. ASSUME NEW c, ret' = With(r, [rc |-> c])
      PROVE  ret'.op = op /\ ret'.dev = d /\ ret'.ofs = ofs /\ ret'.rc = c
  <2>1. \A x \in DOMAIN r : ret'[x] = r[x]
    BY <1>7, Zenon DEF With
  <2>2. \A x \in DOMAIN [rc |-> c] \ DOMAIN r : ret'[x] = [rc |-> c][x]
    BY <1>7, Zenon DEF With
  <2>3. "rc" \in DOMAIN [rc |-> c] \ DOMAIN r /\ [rc |-> c]["rc"] = c
    BY <1>5
  <2>4. ret'["op"] = op /\ ret'["dev"] = d /\ ret'["ofs"] = ofs /\ ret'["rc"] = c
    BY <1>5, <2>1, <2>2, <2>3
  <2> QED
    BY <2>4
<1>8. ret'.op = op /\ ret'.dev = d /\ ret'.ofs = ofs
  BY <1>6, <1>7
<1>9. M!Legal(d, ret') <=> ~NoBlock(d, ofs)
  <2>1. M!Legal(d, ret') <=> M!BlockRequest(d, ret')
    BY <1>8 DEF M!Legal
  <2>2. mtd[d].size \in Nat
    BY InUse
  <2> QED
    BY <1>8, <2>1, <2>2, MtdView DEF M!BlockRequest, NoBlock
<1>10. CASE NoBlock(d, ofs)
  <2>1. Invalid(r) /\ "rc" \notin DOMAIN r /\ "op" \in DOMAIN r /\ r.op = op /\ op # "idle"
    BY <1>2, <1>4, <1>10
  <2>2. ~M!Legal(ret'.dev, ret')
    BY <1>8, <1>9, <1>10
  <2> QED
    BY <2>1, <2>2, Rejected
<1>11. CASE ~NoBlock(d, ofs)
  <2>1. M!Block(d, ofs) = b
    BY <1>3, <1>11, BlockIsOffsets
  <2>2. M!IsBad(ret') \/ M!MarkBad(ret')
    <3>1. CASE op = "isbad"
      <4>1. /\ raw' = raw /\ bad' = bad
            /\ ret' = With(r, [rc |-> IF b \in bad[d] THEN "1" ELSE "0"])
        BY <1>4, <1>11, <3>1
      <4>2. ret'.rc = IF b \in bad[d] THEN "1" ELSE "0"
        BY <1>7, <4>1
      <4> QED
        BY <1>8, <2>1, <3>1, <4>1, <4>2 DEF M!IsBad, M!Flash
    <3>2. CASE op = "markbad"
      <4>1. CASE bad' = [bad EXCEPT ![d] = @ \cup {b}] /\ ret' = With(r, [rc |-> "0"])
        <5>1. ret'.rc = "0" /\ raw' = raw
          BY <1>4, <1>7, <1>11, <4>1
        <5> QED
          BY <1>8, <2>1, <3>2, <4>1, <5>1 DEF M!MarkBad
      <4>2. CASE bad' = bad /\ ret' = With(r, [rc |-> "EIO"])
        <5>1. ret'.rc = "EIO" /\ raw' = raw
          BY <1>4, <1>7, <1>11, <4>2
        <5> QED
          BY <1>8, <2>1, <3>2, <4>2, <5>1 DEF M!MarkBad
      <4> QED
        BY <1>4, <1>11, <3>2, <4>1, <4>2
    <3> QED
      BY <3>1, <3>2
  <2>3. M!Legal(ret'.dev, ret') /\ ret'.op # "idle"
    BY <1>8, <1>9, <1>11
  <2> QED
    BY <2>2, <2>3, IsRequest DEF Answered
<1> QED
  BY <1>10, <1>11

\* A request with a sum that wraps is not legal.
LEMMA WrapsNotLegal ==
  ASSUME TypeOK, ProbedSoFar, NEW d \in Working, NEW r, Sized(d, r), M!Wraps(r), NEW result,
         result.op = r["op"], result.ofs = r["ofs"], result.len = r["len"],
         r["op"] \in {"read_oob", "write_oob"} =>
           result.ooblen = r["ooblen"] /\ result.ooboffs = r["ooboffs"]
  PROVE  ~M!Legal(d, result)
<1>1. PICK op \in {"read", "write", "read_oob", "write_oob", "erase"}, ofs \in Nat, len \in Nat :
        op = r["op"] /\ ofs = r["ofs"] /\ len = r["len"]
  BY DEF Sized
<1>2. PICK m \in Nat, n \in Nat, page \in Nat, extra \in Nat, size \in Nat :
        /\ m = 2^WordBits /\ n = 2^WideBits /\ m >= 1
        /\ page = mtd[d].writesize /\ extra = mtd[d].oobsize /\ size = mtd[d].size
        /\ page + extra < m /\ size < n
  <2>1. /\ mtd[d].writesize \in Nat /\ mtd[d].oobsize \in Nat /\ mtd[d].size \in Nat
        /\ mtd[d].writesize = Chip[d].page /\ mtd[d].oobsize = Chip[d].extra
        /\ mtd[d].size < 2^WideBits /\ d \in Ids
    BY InUse
  <2>2. /\ 2^WordBits \in Nat /\ 2^WideBits \in Nat /\ 2^WordBits # 0
        /\ Chip[d].page + Chip[d].extra < 2^WordBits
    BY <2>1, Limits, ChipAssumption
  <2>3. PICK m \in Nat : m = 2^WordBits /\ m >= 1
    BY <2>2
  <2> QED
    BY <2>1, <2>2, <2>3
<1>3. M!Within(d, result.ofs, result.len) <=> ofs + len <= size
  BY <1>1, <1>2, MtdView
<1>4. CASE op \in {"read", "write"}
  <2>1. ofs + len >= n
    BY <1>1, <1>2, <1>4 DEF M!Wraps
  <2>2. M!Legal(d, result) => M!WholePage(d, result)
    BY <1>1, <1>4 DEF M!Legal
  <2>3. M!Legal(d, result) => ofs + len <= size
    BY <1>3, <2>2 DEF M!WholePage
  <2> QED
    BY <1>2, <2>1, <2>3
<1>5. CASE op \in {"read_oob", "write_oob"}
  <2>1. PICK ooblen \in Nat, ooboffs \in Nat :
          /\ ooblen = r["ooblen"] /\ ooboffs = r["ooboffs"]
          /\ ooblen = result.ooblen /\ ooboffs = result.ooboffs
    BY <1>1, <1>5 DEF Sized
  <2>2. ofs + len >= n \/ ooblen + ooboffs >= m
    BY <1>1, <1>2, <1>5, <2>1 DEF M!Wraps
  <2>3. M!Legal(d, result) => M!OobRequest(d, result)
    BY <1>1, <1>5 DEF M!Legal
  <2>4. M!Legal(d, result) => ofs + len <= size /\ ooboffs + ooblen <= extra
    BY <1>2, <1>3, <2>1, <2>3, MtdView DEF M!OobRequest
  <2> QED
    BY <1>2, <2>1, <2>2, <2>4
<1>6. CASE op = "erase"
  <2>1. ofs + (len % m) >= n
    BY <1>1, <1>2, <1>6 DEF M!Wraps
  <2>2. len % m \in Nat /\ len % m <= len
    BY <1>2, RemainderBound
  <2>3. M!Legal(d, result) => M!EraseRequest(d, result)
    BY <1>1, <1>6 DEF M!Legal
  <2>4. M!Legal(d, result) => ofs + len <= size
    BY <1>3, <2>3 DEF M!EraseRequest
  <2> QED
    BY <1>2, <2>1, <2>2, <2>4
<1> QED
  BY <1>1, <1>4, <1>5, <1>6 DEF Sized

\* It is rejected, or it is the step of Mtd of which little is said.
LEMMA HarmlessStep ==
  ASSUME TypeOK, ProbedSoFar, ret = Idle, NEW d \in Working, NEW r, Sized(d, r), M!Wraps(r),
         NEW from \in Nat, Harmless(d, r, from),
         r["op"] = "write_oob" /\ r["ofs"] + r["len"] < 2^WideBits => PageStart(d, r["ofs"]) <= from
  PROVE  M!Request
<1>1. PICK code \in {"EINVAL", "0", "EIO"} :
        /\ Replied(r, code) /\ bad' = bad
        /\ code = "EINVAL" => raw' = raw
        /\ code # "EINVAL" => /\ r["op"] \in {"read", "read_oob"} => raw' = raw
                              /\ Kept(raw, raw', d, from)
  BY DEF Harmless
<1>2. /\ M!Wraps(ret') /\ ret'.op = r["op"] /\ ret'.dev = d /\ ret'.ofs = r["ofs"] /\ ret'.len = r["len"]
      /\ ret'.rc = code
      /\ r["op"] \in {"read_oob", "write_oob"} =>
           ret'.ooblen = r["ooblen"] /\ ret'.ooboffs = r["ooboffs"]
  BY <1>1, WrapsInReply
<1>3. ret'.op # "idle"
  BY <1>2 DEF Sized
<1>4. CASE code = "EINVAL"
  <2>1. ~M!Legal(ret'.dev, ret')
    <3>1. PICK result : result = ret'
      OBVIOUS
    <3>2. ~M!Legal(d, result)
      BY <1>2, <3>1, WrapsNotLegal
    <3> QED
      BY <1>2, <3>1, <3>2
  <2>2. M!Reject(ret')
    BY <1>1, <1>2, <1>4, <2>1 DEF M!Reject, M!Flash
  <2> QED
    BY <1>3, <2>2, IsRequest
<1>5. CASE code # "EINVAL"
  <2>1. PICK s : s = raw' /\ Kept(raw, s, d, from) /\ (r["op"] \in {"read", "read_oob"} => s = raw)
    BY <1>1, <1>5
  <2>2. r["op"] \in {"read", "read_oob"} => Data(s) = Data(raw) /\ Oob(s) = Oob(raw)
    BY <2>1
  <2>3. ASSUME NEW e \in Ids, NEW p \in PageIds(e),
               \A x \in 0 .. RawPage(e) - 1 : s[e][p * RawPage(e) + x] = raw[e][p * RawPage(e) + x]
        PROVE  Data(s)[e][p] = Data(raw)[e][p] /\ Oob(s)[e][p] = Oob(raw)[e][p]
    BY <2>3, SameArea DEF SamePage
  <2>4. ASSUME NEW e \in Ids \ {d}
        PROVE  Data(s)[e] = Data(raw)[e] /\ Oob(s)[e] = Oob(raw)[e]
    <3>1. s[e] = raw[e]
      BY <2>1 DEF Kept
    <3> QED
      BY <3>1 DEF Data, Oob, Area
  <2>5. ASSUME r["op"] = "write_oob", r["ofs"] + r["len"] < 2^WideBits,
               NEW p \in PageIds(d), p < r["ofs"] \div mtd[d].writesize
        PROVE  Data(s)[d][p] = Data(raw)[d][p] /\ Oob(s)[d][p] = Oob(raw)[d][p]
    <3>1. PICK y \in Nat, py \in Nat, bytes \in Nat :
            y = RawPage(d) /\ py = p * RawPage(d) /\ bytes = Chip[d].raw /\ py + y <= bytes
      BY InUse, PageFacts, ChipFacts
    <3>2. py + y <= from
      <4>1. PICK page \in Nat, ofs \in Nat :
              page = mtd[d].writesize /\ ofs = r["ofs"] /\ page >= 1
              /\ y = mtd[d].writesize + mtd[d].oobsize
        BY <3>1, InUse DEF Sized, RawPage
      <4>2. PICK k \in Nat : k = ofs \div page
        BY <4>1, Division
      <4>3. p \in Nat /\ p + 1 <= k
        BY <2>5, <4>1, <4>2, InUse, PageFacts
      <4>4. (p + 1) * y <= k * y /\ (p + 1) * y = p * y + y /\ k * y \in Nat
        BY <4>3, Order
      <4>5. k * y <= from
        BY <2>5, <4>1, <4>2 DEF PageStart
      <4> QED
        BY <3>1, <4>4, <4>5
    <3>3. \A a \in 0 .. bytes - 1 : a < from => s[d][a] = raw[d][a]
      BY <2>1, <3>1 DEF Kept
    <3>4. \A x \in 0 .. y - 1 : py + x \in 0 .. bytes - 1 /\ py + x < from
      BY <3>1, <3>2
    <3>5. \A x \in 0 .. y - 1 : s[d][py + x] = raw[d][py + x]
      BY <3>3, <3>4
    <3> QED
      BY <2>3, <3>1, <3>5, InUse
  <2>6. M!Page(d, ret'.ofs) = r["ofs"] \div mtd[d].writesize /\ M!Pages(d) = PageIds(d)
    BY <1>2, MtdView
  <2>7. M!Unchecked(ret')
    <3>1. M!Wraps(ret') /\ ret'.rc \in {"0", "EIO"} /\ bad' = bad
      BY <1>1, <1>2, <1>5
    <3>2. ret'.op \in {"read", "read_oob"} => Data(raw') = Data(raw) /\ Oob(raw') = Oob(raw)
      BY <1>2, <2>1, <2>2
    <3>3. \A e \in Ids \ {ret'.dev} : Data(raw')[e] = Data(raw)[e] /\ Oob(raw')[e] = Oob(raw)[e]
      BY <1>2, <2>1, <2>4
    <3>4. ret'.op = "write_oob" /\ ret'.ofs + ret'.len < 2^WideBits =>
            \A p \in M!Pages(ret'.dev) : p < M!Page(ret'.dev, ret'.ofs) =>
              Data(raw')[ret'.dev][p] = Data(raw)[ret'.dev][p] /\ Oob(raw')[ret'.dev][p] = Oob(raw)[ret'.dev][p]
      BY <1>2, <2>1, <2>5, <2>6
    <3> QED
      BY <3>1, <3>2, <3>3, <3>4 DEF M!Unchecked
  <2> QED
    BY <1>3, <2>7, IsRequest
<1> QED
  BY <1>4, <1>5

\* Every call is a step of Mtd.
LEMMA RequestStep ==
  ASSUME Safe, Request
  PROVE  M!Request
<1>1. TypeOK /\ ProbedSoFar /\ ret = Idle
  BY DEF Safe, Request
<1>2. PICK d \in Working : \E ofs \in Offsets(d) : Asked(d, ofs)
  BY DEF Request, Asked
<1>3. PICK ofs \in Offsets(d) : Asked(d, ofs)
  BY <1>2
<1>4. ofs \in Nat /\ Lengths(d) \subseteq Nat /\ LongErases \subseteq Nat
  <2>1. 0 .. 2^WideBits - 1 \subseteq Nat /\ LongErases \subseteq 0 .. 2^WideBits - 1
    BY Limits, ChipAssumption
  <2> QED
    BY <1>1, <2>1, InUse
<1>5. ASSUME NEW r, Sized(d, r), M!Wraps(r), Harmless(d, r, 0), r["op"] # "write_oob"
       PROVE  M!Request
  BY <1>1, <1>5, HarmlessStep
<1>6. ASSUME NEW len \in Lengths(d) \cup LongErases, goldfish_nand_erase(d, ofs, len)
      PROVE  M!Request
  <2>1. len \in Nat
    BY <1>4
  <2>2. CASE ofs + Word(len) < 2^WideBits
    BY <1>1, <1>4, <1>6, <2>1, <2>2, EraseStep
  <2>3. CASE ~(ofs + Word(len) < 2^WideBits)
    <3>1. ofs + Word(len) >= 2^WideBits
      BY <1>4, <2>1, <2>3, WordFacts, Limits
    <3>2. \E r : Sized(d, r) /\ M!Wraps(r) /\ Harmless(d, r, 0) /\ r["op"] # "write_oob"
      BY <1>1, <1>4, <1>6, <2>1, <3>1, EraseWraps
    <3> QED
      BY <1>5, <3>2
  <2> QED
    BY <2>2, <2>3
<1>7. ASSUME NEW len \in Lengths(d), goldfish_nand_read(d, ofs, len)
      PROVE  M!Request
  <2>1. len \in Nat
    BY <1>4
  <2>2. CASE ofs + len < 2^WideBits
    BY <1>1, <1>4, <1>7, <2>1, <2>2, ReadStep
  <2>3. CASE ~(ofs + len < 2^WideBits)
    <3>1. ofs + len >= 2^WideBits
      BY <1>4, <2>1, <2>3, WordFacts, Limits
    <3>2. \E r : Sized(d, r) /\ M!Wraps(r) /\ Harmless(d, r, 0) /\ r["op"] # "write_oob"
      BY <1>1, <1>4, <1>7, <2>1, <3>1, ReadWraps
    <3> QED
      BY <1>5, <3>2
  <2> QED
    BY <2>2, <2>3
<1>8. ASSUME NEW len \in Lengths(d), NEW buf \in Bufs(d, len), goldfish_nand_write(d, ofs, len, buf)
      PROVE  M!Request
  <2>1. len \in Nat
    BY <1>4
  <2>2. CASE ofs + len < 2^WideBits
    BY <1>1, <1>4, <1>8, <2>1, <2>2, WriteStep
  <2>3. CASE ~(ofs + len < 2^WideBits)
    <3>1. ofs + len >= 2^WideBits
      BY <1>4, <2>1, <2>3, WordFacts, Limits
    <3>2. \E r : Sized(d, r) /\ M!Wraps(r) /\ Harmless(d, r, 0) /\ r["op"] # "write_oob"
      BY <1>1, <1>4, <1>8, <2>1, <3>1, WriteWraps
    <3> QED
      BY <1>5, <3>2
  <2> QED
    BY <2>2, <2>3
<1>9. ASSUME NEW ops \in Ops(d), goldfish_nand_read_oob(d, ofs, ops)
      PROVE  M!Request
  <2>1. CASE NoOobWrap(ofs, ops)
    BY <1>1, <1>4, <1>9, <2>1, ReadOobStep
  <2>2. CASE ~NoOobWrap(ofs, ops)
    <3>1. \E r : Sized(d, r) /\ M!Wraps(r) /\ Harmless(d, r, 0) /\ r["op"] # "write_oob"
      BY <1>1, <1>4, <1>9, <2>2, ReadOobWraps
    <3> QED
      BY <1>5, <3>1
  <2> QED
    BY <2>1, <2>2
<1>10. ASSUME NEW ops \in Ops(d), NEW buf \in Bufs(d, DataLen(ops)), NEW oobbuf \in Bufs(d, OobLen(ops)),
             goldfish_nand_write_oob(d, ofs, ops, buf, oobbuf)
      PROVE  M!Request
  <2>1. CASE NoOobWrap(ofs, ops)
    BY <1>1, <1>4, <1>10, <2>1, WriteOobStep
  <2>2. CASE ~NoOobWrap(ofs, ops)
    <3>1. \E r : \E from \in Nat :
            /\ Sized(d, r) /\ M!Wraps(r) /\ Harmless(d, r, from)
            /\ r["ofs"] + r["len"] < 2^WideBits => PageStart(d, r["ofs"]) <= from
      BY <1>1, <1>4, <1>10, <2>2, WriteOobWraps
    <3> QED
      BY <1>1, <3>1, HarmlessStep
  <2> QED
    BY <2>1, <2>2
<1>11. ASSUME goldfish_nand_block_isbad(d, ofs) \/ goldfish_nand_block_markbad(d, ofs)
       PROVE  M!Request
  BY <1>1, <1>4, <1>11, BlockStep
<1> QED
  BY <1>3, <1>6, <1>7, <1>8, <1>9, <1>10, <1>11 DEF Asked

LEMMA StepImplements == Safe /\ [Next]_vars => [M!Next]_(M!vars)
<1> SUFFICES ASSUME Safe, [Next]_vars
             PROVE  [M!Next]_(M!vars)
  OBVIOUS
<1>1. CASE Request
  BY <1>1, RequestStep DEF M!Next
<1>2. CASE Return
  <2>1. ret # Idle /\ ret' = Idle /\ raw' = raw /\ bad' = bad
    BY <1>2 DEF Return
  <2>2. M!Return
    BY <2>1 DEF M!Return, M!Idle, Idle, M!Flash
  <2> QED
    BY <2>2 DEF M!Next
<1>3. CASE Probe \/ List \/ UNCHANGED vars
  <2>1. UNCHANGED <<raw, bad, ret>>
    BY <1>3 DEF Probe, List, board_nand_init, goldfish_nand_init_device, ProbeDone,
                ListDevice, ListDone, vars
  <2> QED
    BY <2>1 DEF M!vars
<1> QED
  BY <1>1, <1>2, <1>3 DEF Next

LEMMA InitImplements == Init => M!Init
<1> SUFFICES ASSUME Init
             PROVE  M!Init
  OBVIOUS
<1>1. \A d \in Ids : /\ M!Pages(d) = PageIds(d) /\ MtdGeometry[d].writesize = Chip[d].page
                     /\ MtdGeometry[d].oobsize = Chip[d].extra
  BY DEF M!Pages, PageIds, MtdGeometry
<1>2. RawOK(raw)
  BY ChipAssumption DEF Init, RawOK
<1>3. ASSUME NEW d \in Ids, NEW p \in PageIds(d)
      PROVE  /\ Data(raw)[d][p] \in [0 .. Chip[d].page - 1 -> Byte]
             /\ Oob(raw)[d][p] \in [0 .. Chip[d].extra - 1 -> Byte]
  <2>1. \A x \in 0 .. RawPage(d) - 1 : raw[d][p * RawPage(d) + x] \in Byte
    <3>1. PICK y \in Nat, py \in Nat, m \in Nat :
            y = RawPage(d) /\ py = p * RawPage(d) /\ m = Chip[d].raw
      BY PageFacts, ChipFacts
    <3>2. py + y <= m
      BY <3>1, PageFacts
    <3>3. \A x \in 0 .. y - 1 : py + x \in 0 .. m - 1
      BY <3>2
    <3>4. raw[d] \in [0 .. m - 1 -> Byte]
      BY <1>2, <3>1 DEF RawOK
    <3> QED
      BY <3>1, <3>3, <3>4
  <2>2. Data(raw)[d][p] = [b \in 0 .. Chip[d].page - 1 |-> Data(raw)[d][p][b]]
        /\ Oob(raw)[d][p] = [b \in 0 .. Chip[d].extra - 1 |-> Oob(raw)[d][p][b]]
    BY DEF Data, Oob, Area
  <2>3. /\ \A b \in 0 .. Chip[d].page - 1 : Data(raw)[d][p][b] \in Byte
        /\ \A b \in 0 .. Chip[d].extra - 1 : Oob(raw)[d][p][b] \in Byte
    BY <2>1, AreaBytes
  <2> QED
    BY <2>2, <2>3
<1>4. AreasOK(Data(raw)) /\ AreasOK(Oob(raw))
  BY AreasAreFunctions
<1>5. \A d \in Ids : /\ Data(raw)[d] \in [M!Pages(d) -> [0 .. MtdGeometry[d].writesize - 1 -> Byte]]
                     /\ Oob(raw)[d] \in [M!Pages(d) -> [0 .. MtdGeometry[d].oobsize - 1 -> Byte]]
  BY <1>1, <1>3, <1>4 DEF AreasOK
<1>6. /\ Data(raw) \in [Ids -> UNION {[M!Pages(d) -> [0 .. MtdGeometry[d].writesize - 1 -> Byte]] : d \in Ids}]
      /\ Oob(raw) \in [Ids -> UNION {[M!Pages(d) -> [0 .. MtdGeometry[d].oobsize - 1 -> Byte]] : d \in Ids}]
  BY <1>4, <1>5 DEF AreasOK
<1>7. bad \in [Ids -> SUBSET Nat] /\ ret = M!Idle
  BY DEF Init, M!Idle, Idle
<1> QED
  BY <1>6, <1>7 DEF M!Init

-----------------------------------------------------------------------------
(* What follows. *)

\* For any controller, any number of devices of any geometry and any requests:
\* the tables of board_nand_init are never overrun, and every device that main
\* lists or a caller uses, half probed or not, has its chip's sizes.
THEOREM InvHolds == Spec => []Inv
<1>1. Safe => Inv
  BY GeometryIsWhole DEF Safe, Inv
<1> QED
  BY <1>1, SafeHolds, PTL

\* Of every device that main lists, the sizes of a page, an OOB area and a block and
\* the pages of a block are printed as its chip has them, and of every device in use
\* the name its chip gave, for any names and any failures of other devices' probing:
\* a name never reaches into the rows before it, and the zero of one that fills its
\* row is the only byte outside it.  The numbers printed of 64 bits are not spoken of.
THEOREM ListRightHolds == Spec => []ListRight
<1>1. Init => ListRight
  <2>1. Init => Len(listed) = 0
    BY DEF Init
  <2> QED
    BY <2>1 DEF ListRight
<1> QED
  BY <1>1, NextListRight, SafeHolds, PTL DEF Spec

\* Whatever is asked of the driver, with any offset, length or OOB position that its
\* types can hold, it sends the controller no command for bytes beyond the device: the
\* addresses that do_div and the multiplications make are right for every geometry,
\* and a raw length cut to 32 bits is a shorter one.  Excepted are the requests of which
\* a sum wraps (goldfish_nand.c:94, 127, 131, 160, 164, 193, 217), which the driver
\* does not tell from others, and OOB requests of no data just behind the last page.
THEOREM CommandsInDeviceHolds == Spec => []CommandsInDevice
<1>1. Safe => CommandsInDevice
  BY DEF Safe
<1> QED
  BY <1>1, SafeHolds, PTL

\* For any devices, the driver implements struct mtd_info as Mtd specifies it:
\* whatever the geometry, the offsets, lengths and OOB positions of its types' widths,
\* and how far the controller gets, a call reads, writes or erases the bytes of the
\* pages it names and no others, the address it marks bad is that of the block it is
\* asked for, and it rejects a request only when it is not legal, or too long an erase.
\* A request of which a sum wraps is never legal; if it passes, it leaves the other
\* devices and the bad marks alone, to read it changes nothing, and to write OOB bytes,
\* if only their sum wraps, nothing before its page.
THEOREM ImplementsMtdHolds == Spec => ImplementsMtd
BY SafeHolds, InitImplements, StepImplements, PTL DEF Spec, ImplementsMtd, M!Spec
=============================================================================
