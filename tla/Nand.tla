-------------------------------- MODULE Nand -------------------------------
(***************************************************************************)
(* c08/c08e1/goldfish_nand.c: probing the NAND devices of the goldfish     *)
(* controller, and the mtd operations on them; and c08e1's main, which     *)
(* lists the devices it found before anything else uses them.              *)
(*                                                                         *)
(* The controller sees a device as bytes: page after page, each followed   *)
(* by its OOB area.  The driver translates offsets in the data areas to    *)
(* addresses of such bytes.  A command may stop short; NAND_RESULT is how  *)
(* far it got.  One call runs at a time, in two steps: the call with its   *)
(* results, and the caller taking them.                                    *)
(*                                                                         *)
(* Sums and products are those of the code's uint32_t (Word) and loff_t or *)
(* uint64_t (Wide), and wrap: the tests of a request's end do not see it.  *)
(***************************************************************************)
EXTENDS Integers, Sequences

CONSTANTS
  MaxDev,        \* CONFIG_SYS_MAX_NAND_DEVICE
  NameMax,       \* GOLDFISH_DEV_NAME_MAX_LEN
  Chip,          \* per device: page, extra, erase (raw bytes of a block), raw, name
  Byte, Erased,
  WordBits,      \* bits of a uint32_t or a size_t
  WideBits,      \* bits of a loff_t or a uint64_t
  FarLengths, FarOffsets, FarOps, LongErases,  \* what is asked for beyond what lies
                 \* around the pages of a device
  Requests       \* the operations called

Ids == 0 .. MaxDev - 1
NUL == "NUL"
Word(x) == x % 2^WordBits
Wide(x) == x % 2^WideBits

AnyOps ==      \* struct mtd_oob_ops, of which datbuf and oobbuf say: is it not NULL?
  [len : 0 .. 2^WordBits - 1, ooblen : 0 .. 2^WordBits - 1, ooboffs : 0 .. 2^WordBits - 1,
   datbuf : BOOLEAN, oobbuf : BOOLEAN]

\* The controller describes devices of at least one page; a block is whole pages,
\* and a name is made of other characters than NUL.  A page is counted in a word, and
\* a device ends a word before the last wide offset.
ASSUME ChipAssumption ==
  /\ MaxDev \in Nat \ {0} /\ NameMax \in Nat \ {0} /\ Erased \in Byte
  /\ WordBits \in Nat /\ 2^WordBits \in Nat \ {0}
  /\ FarLengths \subseteq 0 .. 2^WordBits - 1 /\ FarOps \subseteq AnyOps
  /\ WideBits \in Nat /\ 2^WideBits \in Nat \ {0}
  /\ FarOffsets \subseteq 0 .. 2^WideBits - 1 /\ LongErases \subseteq 0 .. 2^WideBits - 1
  /\ DOMAIN Chip = Ids
  /\ \A d \in Ids :
       LET c == Chip[d]
       IN  /\ c.page \in Nat \ {0} /\ c.extra \in Nat /\ c.raw \in Nat
           /\ c.page + c.extra < 2^WordBits /\ c.raw + 2^WordBits < 2^WideBits
           /\ c.erase \in Nat \ {0} /\ c.erase % (c.page + c.extra) = 0
           /\ c.name \in Seq(STRING \ {NUL})

VARIABLES
  hw,            \* NAND_VERSION is the current one; NAND_NUM_DEV
  raw, bad,      \* the devices: their bytes, and their blocks marked bad
  pc,            \* "start", "probe" (the loop of board_nand_init), "list", "run"
  i,             \* the loop's counter
  count,         \* goldfish_nand_info.mtd_count
  mtd,           \* nand_info
  names,         \* goldfish_dev_name, row after row, and the byte after it
  listed,        \* what main has printed, device by device
  cmds,          \* history: the commands of the call, as [dev, addr, len]
  ret            \* the call and its results

vars == <<hw, raw, bad, pc, i, count, mtd, names, listed, cmds, ret>>

NULL == 0
Unset == [writesize |-> 0, oobsize |-> 0, erasesize |-> 0, size |-> 0, name |-> NULL, ops |-> FALSE]
Idle == [op |-> "idle"]

Working == {d \in Ids : mtd[d].ops}

Init ==
  /\ hw \in [version : BOOLEAN, num : 0 .. MaxDev + 1]
  /\ raw = [d \in Ids |-> [a \in 0 .. Chip[d].raw - 1 |-> Erased]]
  /\ bad = [d \in Ids |-> {}]
  /\ pc = "start" /\ i = 0 /\ count = 0
  /\ mtd = [d \in Ids |-> Unset]
  /\ names = [a \in 1 .. MaxDev * NameMax + 1 |-> NUL]
  /\ listed = <<>> /\ cmds = <<>> /\ ret = Idle

-----------------------------------------------------------------------------
(* Probing. *)
NumDevUsable == hw.num # 0 /\ hw.num <= MaxDev

board_nand_init ==
  /\ pc = "start"
  /\ IF hw.version /\ NumDevUsable
     THEN pc' = "probe" /\ count' = hw.num
     ELSE pc' = "list" /\ UNCHANGED count
  /\ UNCHANGED <<hw, raw, bad, i, mtd, names, listed, cmds, ret>>

\* What goldfish_nand_init_device reads of device d before it can fail.
DeviceGeometryLate(d) == Unset   \* Mutant: the sizes are only set once the name is read.

DeviceGeometry(d) ==
  LET c == Chip[d]
      page == c.page + c.extra
  IN  [writesize |-> c.page, oobsize |-> c.extra,
       erasesize |-> (c.erase \div page) * c.page,
       size |-> (c.raw \div page) * c.page, name |-> NULL, ops |-> FALSE]

Row(d) == d * NameMax + 1      \* the address of goldfish_dev_name[d]
Received(d, bytes) ==
  [a \in DOMAIN names |-> IF a - Row(d) + 1 \in DOMAIN bytes THEN bytes[a - Row(d) + 1] ELSE names[a]]

goldfish_nand_init_device ==
  /\ pc = "probe" /\ i < count
  /\ i' = i + 1
  /\ LET g == DeviceGeometry(i)
         name == Chip[i].name
     IN  \/ /\ Len(name) > NameMax                          \* -ENOMEM
            /\ mtd' = [mtd EXCEPT ![i] = g]
            /\ UNCHANGED names
         \/ /\ Len(name) <= NameMax                         \* -ENODEV: a part of the name came
            /\ \E k \in 0 .. Len(name) - 1 : names' = Received(i, SubSeq(name, 1, k))
            /\ mtd' = [mtd EXCEPT ![i] = g]
         \/ /\ Len(name) <= NameMax
            /\ names' = Received(i, Append(name, NUL))
            /\ mtd' = [mtd EXCEPT ![i] = [g EXCEPT !.name = Row(i), !.ops = TRUE]]
  /\ UNCHANGED <<hw, raw, bad, pc, count, listed, cmds, ret>>

ProbeDone ==
  /\ pc = "probe" /\ i >= count
  /\ pc' = "list" /\ i' = 0
  /\ UNCHANGED <<hw, raw, bad, count, mtd, names, listed, cmds, ret>>

-----------------------------------------------------------------------------
(* c08e1's main. *)

\* What printf's %s makes of mtd->name: the bytes up to the first NUL, or of a
\* null pointer nothing of the device's.
CString(name) ==
  IF name = NULL THEN << >>
  ELSE LET end == CHOOSE a \in name .. Len(names) :
                    names[a] = NUL /\ \A b \in name .. a - 1 : names[b] # NUL
       IN  SubSeq(names, name, end - 1)

Junk == "junk"      \* what nobody may rely on

ListingMutant(m) ==     \* Mutant: the size of a block is given in pages.
  [name |-> CString(m.name), size |-> Junk, pagesPerBlock |-> m.erasesize \div m.writesize,
   blockSize |-> m.erasesize \div m.writesize, blocks |-> Junk, pageSize |-> m.writesize,
   pages |-> Junk, extra |-> m.oobsize]

\* The lines printed for a device, but for the flags.  The size and the numbers of
\* blocks and of pages are 64 bits wide, passed in r2 and r3 to a printf whose %d
\* prints what r1 holds.
Listing(m) ==
  [name |-> CString(m.name), size |-> Junk, pagesPerBlock |-> m.erasesize \div m.writesize,
   blockSize |-> m.erasesize, blocks |-> Junk, pageSize |-> m.writesize,
   pages |-> Junk, extra |-> m.oobsize]

ListDevice ==
  /\ pc = "list" /\ i < count
  /\ listed' = Append(listed, Listing(mtd[i])) /\ i' = i + 1
  /\ UNCHANGED <<hw, raw, bad, pc, count, mtd, names, cmds, ret>>

ListDone ==
  /\ pc = "list" /\ i >= count
  /\ pc' = "run"
  /\ UNCHANGED <<hw, raw, bad, i, count, mtd, names, listed, cmds, ret>>

-----------------------------------------------------------------------------
(* goldfish_nand_cmd: how many bytes the device may transfer, and what its  *)
(* bytes are after writing or erasing some.                                 *)
Command(d, addr, len) == [dev |-> d, addr |-> addr, len |-> len]
Result(c) == {k \in 0 .. c.len : k = 0 \/ c.addr + k <= Chip[c.dev].raw}
Bytes(c, k) == [j \in 1 .. k |-> raw[c.dev][c.addr + j - 1]]
Stored(r, c, bytes) ==
  [r EXCEPT ![c.dev] = [a \in DOMAIN @ |-> IF a >= c.addr /\ a < c.addr + Len(bytes)
                                           THEN bytes[a - c.addr + 1] ELSE @[a]]]

AddressMutant(d, ofs) ==     \* Mutant: the offset is multiplied without being divided.
  Wide(ofs * (mtd[d].writesize + mtd[d].oobsize))

\* An offset in the data areas as an address, after do_div: the page's.
Address(d, ofs) == Wide((ofs \div mtd[d].writesize) * (mtd[d].writesize + mtd[d].oobsize))
Misaligned(d, ofs) == ofs % mtd[d].writesize # 0
PastEnd(d, ofs, len) == Wide(ofs + len) > mtd[d].size

\* A request together with its results, or with more of its arguments.
With(r, more) ==
  [f \in DOMAIN r \cup DOMAIN more |-> IF f \in DOMAIN r THEN r[f] ELSE more[f]]

Calling == <<hw, pc, i, count, mtd, names, listed>>
Invalid(r) ==
  /\ ret' = With(r, [rc |-> "EINVAL"])
  /\ cmds' = <<>> /\ UNCHANGED <<raw, bad>>

-----------------------------------------------------------------------------
(* The mtd operations. *)
\* An erase that succeeds calls back a caller that gave a callback.
mtd_erase_callback(r) == [r EXCEPT !.callback = TRUE]

RawLength(d, len) == Word((len \div mtd[d].writesize) * (mtd[d].writesize + mtd[d].oobsize))

goldfish_nand_erase(d, ofs, asked) ==
  /\ LET r == [op |-> "erase", dev |-> d, ofs |-> ofs, len |-> asked, callback |-> FALSE]
         len == Word(asked)                           \* uint32_t len = instr->len
         c == Command(d, Address(d, ofs), RawLength(d, len))
     IN  IF PastEnd(d, ofs, len) \/ Misaligned(d, ofs) \/ len % mtd[d].writesize # 0
         THEN Invalid(r)
         ELSE \E k \in Result(c) :
                /\ raw' = Stored(raw, c, [j \in 1 .. k |-> Erased])
                /\ ret' = IF k # c.len THEN With(r, [rc |-> "EIO"])
                          ELSE With(mtd_erase_callback(r), [rc |-> "0"])
                /\ cmds' = << c >> /\ UNCHANGED bad
  /\ UNCHANGED Calling

goldfish_nand_read(d, from, len) ==
  /\ LET r == [op |-> "read", dev |-> d, ofs |-> from, len |-> len]
         c == Command(d, Address(d, from), len)
     IN  IF PastEnd(d, from, len) \/ len # mtd[d].writesize \/ Misaligned(d, from)
         THEN Invalid(r)
         ELSE \E k \in Result(c) :
                /\ ret' = With(r, [rc |-> "0", retlen |-> k, got |-> Bytes(c, k)])
                /\ cmds' = << c >> /\ UNCHANGED <<raw, bad>>
  /\ UNCHANGED Calling

goldfish_nand_write(d, to, len, buf) ==
  /\ LET r == [op |-> "write", dev |-> d, ofs |-> to, len |-> len]
         c == Command(d, Address(d, to), len)
     IN  IF PastEnd(d, to, len) \/ len # mtd[d].writesize \/ Misaligned(d, to)
         THEN Invalid(r)
         ELSE \E k \in Result(c) :
                /\ raw' = Stored(raw, c, SubSeq(buf, 1, k))
                /\ ret' = With(r, [rc |-> "0", retlen |-> k, put |-> buf])
                /\ cmds' = << c >> /\ UNCHANGED bad
  /\ UNCHANGED Calling

DataLen(ops) == IF ops.datbuf THEN ops.len ELSE 0
OobLen(ops) == IF ops.oobbuf THEN ops.ooblen ELSE 0

OobCommandsMutant(d, ofs, ops) ==     \* Mutant: the page's size is not added.
  << Command(d, Address(d, ofs), DataLen(ops)),
     Command(d, Wide(Address(d, ofs) + ops.ooboffs), OobLen(ops)) >>

\* The first command is the data's, the second the OOB bytes'; each is skipped
\* without a buffer, and a short first one does not stop the second.
OobCommands(d, ofs, ops) ==
  << Command(d, Address(d, ofs), DataLen(ops)),
     Command(d, Wide(Address(d, ofs) + Word(mtd[d].writesize + ops.ooboffs)), OobLen(ops)) >>
OobOutside(d, ofs, ops) ==
  PastEnd(d, ofs, ops.len) \/ Word(ops.ooblen + ops.ooboffs) > mtd[d].oobsize \/ Misaligned(d, ofs)
Sent(c, buffer) == IF buffer THEN << c >> ELSE <<>>
Issued(cs, ops) == Sent(cs[1], ops.datbuf) \o Sent(cs[2], ops.oobbuf)

goldfish_nand_read_oob(d, ofs, ops) ==
  /\ LET r == With([op |-> "read_oob", dev |-> d, ofs |-> ofs], ops)
         cs == OobCommands(d, ofs, ops)
     IN  IF OobOutside(d, ofs, ops) \/ (ops.datbuf /\ ops.len # 0 /\ ops.len # mtd[d].writesize)
         THEN Invalid(r)
         ELSE \E k \in Result(cs[1]), n \in Result(cs[2]) :
                /\ ret' = With(r, [rc |-> "0", retlen |-> k, got |-> Bytes(cs[1], k),
                                   oobretlen |-> n, oobgot |-> Bytes(cs[2], n)])
                /\ cmds' = Issued(cs, ops) /\ UNCHANGED <<raw, bad>>
  /\ UNCHANGED Calling

goldfish_nand_write_oob(d, ofs, ops, buf, oobbuf) ==
  /\ LET r == With([op |-> "write_oob", dev |-> d, ofs |-> ofs], ops)
         cs == OobCommands(d, ofs, ops)
     IN  IF OobOutside(d, ofs, ops) \/ (ops.len # 0 /\ ops.len # mtd[d].writesize)
         THEN Invalid(r)
         ELSE \E k \in Result(cs[1]), n \in Result(cs[2]) :
                /\ raw' = Stored(Stored(raw, cs[1], SubSeq(buf, 1, k)),
                                 cs[2], SubSeq(oobbuf, 1, n))
                /\ ret' = With(r, [rc |-> "0", retlen |-> k, oobretlen |-> n,
                                   put |-> buf, oobput |-> oobbuf])
                /\ cmds' = Issued(cs, ops) /\ UNCHANGED bad
  /\ UNCHANGED Calling

BlockAddressMutant(d, ofs) ==     \* Mutant: OOB areas are not counted.
  (ofs \div mtd[d].erasesize) * mtd[d].erasesize

BlockAddress(d, ofs) ==
  (ofs \div mtd[d].erasesize) * (mtd[d].erasesize \div mtd[d].writesize)
    * (mtd[d].writesize + mtd[d].oobsize)
NoBlock(d, ofs) == ofs >= mtd[d].size \/ ofs % mtd[d].erasesize # 0
BlockOf(c) == c.addr \div Chip[c.dev].erase      \* the device's own numbering

goldfish_nand_block_isbad(d, ofs) ==
  /\ LET r == [op |-> "isbad", dev |-> d, ofs |-> ofs]
         c == Command(d, BlockAddress(d, ofs), 0)
     IN  IF NoBlock(d, ofs) THEN Invalid(r)
         ELSE /\ ret' = With(r, [rc |-> IF BlockOf(c) \in bad[d] THEN "1" ELSE "0"])
              /\ cmds' = << c >> /\ UNCHANGED <<raw, bad>>
  /\ UNCHANGED Calling

goldfish_nand_block_markbad(d, ofs) ==
  /\ LET r == [op |-> "markbad", dev |-> d, ofs |-> ofs]
         c == Command(d, BlockAddress(d, ofs), 0)
     IN  IF NoBlock(d, ofs) THEN Invalid(r)
         ELSE /\ \/ /\ bad' = [bad EXCEPT ![d] = @ \cup {BlockOf(c)}]   \* NAND_RESULT is 1
                    /\ ret' = With(r, [rc |-> "0"])
                 \/ ret' = With(r, [rc |-> "EIO"]) /\ UNCHANGED bad
              /\ cmds' = << c >> /\ UNCHANGED raw
  /\ UNCHANGED Calling

Return ==
  /\ ret # Idle /\ ret' = Idle /\ cmds' = <<>>
  /\ UNCHANGED <<raw, bad>> /\ UNCHANGED Calling

-----------------------------------------------------------------------------
(* Requests around every boundary of a device: pages, their halves, the     *)
(* end; and the lengths and offsets far from them.                          *)
DataSize(d) == (Chip[d].raw \div (Chip[d].page + Chip[d].extra)) * Chip[d].page
Offsets(d) == 0 .. DataSize(d) + 1 \cup FarOffsets
Lengths(d) == {0, 1, Chip[d].page, Word(2 * Chip[d].page)} \cup FarLengths
Ops(d) ==
  [len : {0, Chip[d].page, Word(Chip[d].page + 1)}, ooblen : 0 .. Chip[d].extra + 1,
   ooboffs : 0 .. Chip[d].extra, datbuf : BOOLEAN, oobbuf : BOOLEAN] \cup FarOps

\* A buffer of so many bytes, as far as the device can take or fill it.
Bufs(d, len) == [1 .. (IF len <= Chip[d].raw THEN len ELSE Chip[d].raw) -> Byte]

Probe == board_nand_init \/ goldfish_nand_init_device \/ ProbeDone
List == ListDevice \/ ListDone

Request ==
  /\ pc = "run" /\ ret = Idle
  /\ \E d \in Working : \E ofs \in Offsets(d) :
       \/ \E len \in Lengths(d) \cup LongErases :
            "erase" \in Requests /\ goldfish_nand_erase(d, ofs, len)
       \/ \E len \in Lengths(d) :
            \/ "read" \in Requests /\ goldfish_nand_read(d, ofs, len)
            \/ /\ "write" \in Requests
               /\ \E buf \in Bufs(d, len) : goldfish_nand_write(d, ofs, len, buf)
       \/ \E ops \in Ops(d) :
            \/ "read_oob" \in Requests /\ goldfish_nand_read_oob(d, ofs, ops)
            \/ /\ "write_oob" \in Requests
               /\ \E buf \in Bufs(d, DataLen(ops)), oobbuf \in Bufs(d, OobLen(ops)) :
                    goldfish_nand_write_oob(d, ofs, ops, buf, oobbuf)
       \/ "isbad" \in Requests /\ goldfish_nand_block_isbad(d, ofs)
       \/ "markbad" \in Requests /\ goldfish_nand_block_markbad(d, ofs)

Next == Probe \/ List \/ Request \/ Return

Spec == Init /\ [][Next]_vars

-----------------------------------------------------------------------------
(* Properties. *)
Chars == {NUL} \cup UNION {{Chip[d].name[k] : k \in 1 .. Len(Chip[d].name)} : d \in Ids}

TypeOK ==
  /\ hw \in [version : BOOLEAN, num : 0 .. MaxDev + 1]
  /\ DOMAIN raw = Ids /\ DOMAIN bad = Ids /\ DOMAIN mtd = Ids
  /\ \A d \in Ids : raw[d] \in [0 .. Chip[d].raw - 1 -> Byte] /\ bad[d] \subseteq Nat
  /\ pc \in {"start", "probe", "list", "run"} /\ i \in 0 .. MaxDev /\ count \in 0 .. MaxDev
  /\ \A d \in Ids : mtd[d] \in [writesize : Nat, oobsize : Nat, erasesize : Nat, size : Nat,
                                name : {NULL, Row(d)}, ops : BOOLEAN]
  /\ names \in [1 .. MaxDev * NameMax + 1 -> Chars]
  /\ listed \in Seq([name : Seq(Chars), size : {Junk}, pagesPerBlock : Nat, blockSize : Nat,
                     blocks : {Junk}, pageSize : Nat, pages : {Junk}, extra : Nat])
  /\ cmds \in Seq([dev : Ids, addr : Nat, len : Nat])

\* c08e1's main divides by the sizes of every device it counts, those whose
\* probing failed half-way included: they are set, and sizes are whole blocks'.
ListedHaveGeometry ==
  pc \in {"list", "run"} =>
    \A d \in 0 .. count - 1 : /\ mtd[d].writesize > 0 /\ mtd[d].erasesize > 0
                              /\ mtd[d].erasesize % mtd[d].writesize = 0
                              /\ mtd[d].size % mtd[d].writesize = 0

\* The geometry of a device that has been probed, to the end or not, is its chip's.
Probed(d) ==
  /\ mtd[d].writesize = Chip[d].page /\ mtd[d].oobsize = Chip[d].extra
  /\ mtd[d].erasesize = (Chip[d].erase \div (Chip[d].page + Chip[d].extra)) * Chip[d].page
  /\ mtd[d].size = DataSize(d)

ProbedSoFar ==
  /\ \A d \in Ids : mtd[d].ops => Probed(d)
  /\ pc = "start" => i = 0 /\ count = 0
  /\ \A d \in 0 .. (CASE pc = "start" -> 0 [] pc = "probe" -> i [] OTHER -> count) - 1 : Probed(d)
  /\ pc # "run" => cmds = <<>>

\* The name of a device in use is in its row, and its zero behind it: in the next
\* row, where the next name may replace it, when it fills its own.
NameKept(d) ==
  LET name == Chip[d].name
  IN  /\ mtd[d].name = Row(d) /\ Len(name) <= NameMax
      /\ \A k \in 1 .. Len(name) : names[Row(d) + k - 1] = name[k]
      /\ Len(name) < NameMax => names[Row(d) + Len(name)] = NUL

NamesKept ==
  /\ \A d \in Working : NameKept(d) /\ (pc \in {"start", "probe"} => d < i)
  /\ names[MaxDev * NameMax + 1] = NUL
  /\ pc \in {"start", "probe"} => listed = <<>>
  /\ pc = "list" => i = Len(listed)

\* The invariant of the probed devices: never more than the tables hold, the name
\* of each in its row, and its chip's geometry for every one that is listed or used.
Inv == TypeOK /\ ProbedSoFar /\ NamesKept /\ ListedHaveGeometry

\* main lists every device with the sizes of the chip's pages, OOB areas and blocks
\* and the name the chip gave, whatever was probed before and after it; nothing is
\* said of the 64-bit numbers.  The one exception is a name that fills its row: the
\* zero behind it is stored in the next row, and the next device's name is printed on.
ListRight ==
  \A d \in 0 .. Len(listed) - 1 :
    LET l == listed[d + 1]
        c == Chip[d]
        block == c.erase \div (c.page + c.extra)
    IN  /\ <<l.pagesPerBlock, l.blockSize, l.pageSize, l.extra>> =
             <<block, block * c.page, c.page, c.extra>>
        /\ d \in Working =>
             IF Len(c.name) < NameMax THEN l.name = c.name
             ELSE SubSeq(l.name, 1, NameMax) = c.name

-----------------------------------------------------------------------------
(* The driver implements Mtd: page p's areas are the bytes at p's address.  *)
MtdGeometry ==
  [d \in Ids |-> [writesize |-> Chip[d].page, oobsize |-> Chip[d].extra,
                  erasesize |-> (Chip[d].erase \div (Chip[d].page + Chip[d].extra)) * Chip[d].page,
                  size |-> DataSize(d)]]
PageIds(d) == 0 .. DataSize(d) \div Chip[d].page - 1
Area(bytes, d, p, start, len) ==
  [b \in 0 .. len - 1 |-> bytes[d][p * (Chip[d].page + Chip[d].extra) + start + b]]
Data(bytes) == [d \in Ids |-> [p \in PageIds(d) |-> Area(bytes, d, p, 0, Chip[d].page)]]
Oob(bytes) == [d \in Ids |-> [p \in PageIds(d) |-> Area(bytes, d, p, Chip[d].page, Chip[d].extra)]]

M == INSTANCE Mtd WITH
  Dev <- Ids, Geometry <- MtdGeometry, data <- Data(raw), oob <- Oob(raw)

InDevice(c) == c.addr + c.len <= Chip[c.dev].raw

\* A call only sends the controller commands for bytes of the device, two kinds of
\* requests apart: those with a sum that wraps (M!Wraps), whose end the tests
\* do not see; and OOB bytes at the offset just after the last page, which
\* `ofs + ops->len > mtd->size' lets pass when ops->len is 0.
CommandsInDevice ==
  \A k \in DOMAIN cmds :
    \/ InDevice(cmds[k])
    \/ M!Wraps(ret)
    \/ ret.op \in {"read_oob", "write_oob"} /\ ret.len = 0 /\ ret.ofs = mtd[ret.dev].size

\* Seen through its pages, the driver does what struct mtd_info promises: a
\* request reads, writes or erases exactly the bytes it names on the device it
\* names, reports how far it got, and is rejected only when it is not legal.
\* One with a sum that wraps may pass without being legal: of it Mtd only says
\* which bytes it leaves alone.
ImplementsMtd == M!Spec
=============================================================================
