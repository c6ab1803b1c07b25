-------------------------------- MODULE Mtd --------------------------------
(***************************************************************************)
(* What a user of struct mtd_info (c08/c08e1/mtd.h) is promised: a device  *)
(* is an array of pages, each with a data area and an OOB area, grouped in *)
(* erase blocks.  A request that is not made of whole pages of the device  *)
(* is rejected and changes nothing; any other one touches the bytes it     *)
(* names and no others, and the lengths it returns say how far it got.     *)
(* A request that is not legal may still pass for one if a sum made of it  *)
(* wraps: little is promised of those.                                     *)
(***************************************************************************)
EXTENDS Naturals, Sequences

CONSTANTS
  Dev,           \* the devices
  Geometry,      \* [Dev -> [writesize, oobsize, erasesize, size]]
  Byte, Erased,  \* bytes, and what an erase leaves
  WordBits,      \* bits in which lengths are computed
  WideBits       \* bits in which offsets are

VARIABLES
  data,          \* [Dev -> [page -> [0 .. writesize - 1 -> Byte]]]
  oob,           \* [Dev -> [page -> [0 .. oobsize - 1 -> Byte]]]
  bad,           \* [Dev -> blocks marked bad]
  ret            \* Idle, or what the last request was and what it returned

vars == <<data, oob, bad, ret>>

Idle == [op |-> "idle"]

Page(d, ofs) == ofs \div Geometry[d].writesize
Pages(d) == 0 .. Geometry[d].size \div Geometry[d].writesize - 1
Aligned(d, ofs) == ofs % Geometry[d].writesize = 0
Within(d, ofs, len) == ofs + len <= Geometry[d].size

\* The first k bytes of an area from offset o on, and the area with them replaced.
Prefix(area, o, k) == [i \in 1 .. k |-> area[o + i - 1]]
Filled(area, o, bytes) ==
  [i \in DOMAIN area |-> IF i >= o /\ i < o + Len(bytes) THEN bytes[i - o + 1] ELSE area[i]]

WholePage(d, r) == Within(d, r.ofs, r.len) /\ Aligned(d, r.ofs) /\ r.len = Geometry[d].writesize

\* The data a request may carry, and the page it is for.
OobRequest(d, r) ==
  /\ Within(d, r.ofs, r.len) /\ Aligned(d, r.ofs)
  /\ r.len # 0 /\ (r.op = "write_oob" \/ r.datbuf) => r.len = Geometry[d].writesize
  /\ r.ooboffs + r.ooblen <= Geometry[d].oobsize

EraseRequest(d, r) ==
  Within(d, r.ofs, r.len) /\ Aligned(d, r.ofs) /\ r.len % Geometry[d].writesize = 0

\* Does the length of an erase, with OOB bytes and without, fit its word?
Fits(d, r) ==
  /\ r.len < 2^WordBits
  /\ (r.len \div Geometry[d].writesize) * (Geometry[d].writesize + Geometry[d].oobsize) < 2^WordBits

BlockRequest(d, r) == r.ofs < Geometry[d].size /\ r.ofs % Geometry[d].erasesize = 0

Legal(d, r) ==
  CASE r.op \in {"read", "write"} -> WholePage(d, r)
    [] r.op \in {"read_oob", "write_oob"} -> OobRequest(d, r)
    [] r.op = "erase" -> EraseRequest(d, r)
    [] r.op \in {"isbad", "markbad"} -> BlockRequest(d, r)

-----------------------------------------------------------------------------
(* r is the request and its results. *)
Flash == <<data, oob, bad>>

\* An erase too long for its word is judged by what is left of its length.
Cut(r) == r.op = "erase" /\ Aligned(r.dev, r.ofs) /\ ~Fits(r.dev, r)

Reject(r) == r.rc = "EINVAL" /\ (~Legal(r.dev, r) \/ Cut(r)) /\ UNCHANGED Flash

Read(r) ==
  /\ r.op = "read" /\ r.rc = "0"
  /\ r.retlen <= r.len
  /\ r.got = Prefix(data[r.dev][Page(r.dev, r.ofs)], 0, r.retlen)
  /\ UNCHANGED Flash

Write(r) ==
  /\ r.op = "write" /\ r.rc = "0"
  /\ r.retlen <= r.len
  /\ data' = [data EXCEPT ![r.dev][Page(r.dev, r.ofs)] = Filled(@, 0, SubSeq(r.put, 1, r.retlen))]
  /\ UNCHANGED <<oob, bad>>

\* What an OOB request transfers is no longer than asked.  One at ofs = size is for
\* no page: it touches no page's bytes, whatever it finds behind the last page.
OobTransfer(r) ==
  /\ r.rc = "0" /\ r.retlen <= r.len /\ r.oobretlen <= r.ooblen
  /\ Page(r.dev, r.ofs) \notin Pages(r.dev) => r.retlen = 0

ReadOob(r) ==
  /\ r.op = "read_oob" /\ OobTransfer(r)
  /\ LET p == Page(r.dev, r.ofs)
     IN  p \in Pages(r.dev) => /\ r.got = Prefix(data[r.dev][p], 0, r.retlen)
                               /\ r.oobgot = Prefix(oob[r.dev][p], r.ooboffs, r.oobretlen)
  /\ UNCHANGED Flash

WriteOob(r) ==
  /\ r.op = "write_oob" /\ OobTransfer(r)
  /\ LET p == Page(r.dev, r.ofs)
     IN  IF p \in Pages(r.dev)
         THEN /\ data' = [data EXCEPT ![r.dev][p] = Filled(@, 0, SubSeq(r.put, 1, r.retlen))]
              /\ oob' = [oob EXCEPT ![r.dev][p] =
                           Filled(@, r.ooboffs, SubSeq(r.oobput, 1, r.oobretlen))]
         ELSE UNCHANGED <<data, oob>>
  /\ UNCHANGED bad

\* A failed erase may have erased any of the bytes asked for, a successful one
\* all, unless its length was cut.
Erase(r) ==
  /\ r.op = "erase" /\ r.rc \in {"0", "EIO"}
  /\ LET first == Page(r.dev, r.ofs)
         range == first .. first + r.len \div Geometry[r.dev].writesize - 1
         After(area, p, area2) ==
           \A i \in DOMAIN area :
             IF p \in range
             THEN area2[i] = Erased \/ ((r.rc = "EIO" \/ Cut(r)) /\ area2[i] = area[i])
             ELSE area2[i] = area[i]
     IN  /\ \A p \in Pages(r.dev) :
              /\ After(data[r.dev][p], p, data'[r.dev][p])
              /\ After(oob[r.dev][p], p, oob'[r.dev][p])
         /\ \A d \in Dev \ {r.dev} : data'[d] = data[d] /\ oob'[d] = oob[d]
  /\ UNCHANGED bad

\* The sums made of a request before it is judged: does one wrap?
Wraps(r) ==
  \/ r.op \in {"read", "write", "read_oob", "write_oob"} /\ r.ofs + r.len >= 2^WideBits
  \/ r.op \in {"read_oob", "write_oob"} /\ r.ooblen + r.ooboffs >= 2^WordBits
  \/ r.op = "erase" /\ r.ofs + (r.len % 2^WordBits) >= 2^WideBits

\* Such a request may pass.  Then it leaves other devices and the marks alone, one to
\* read leaves all alone, and one to write OOB bytes, at an offset that does not wrap,
\* the pages before that.
Unchecked(r) ==
  /\ Wraps(r) /\ r.rc \in {"0", "EIO"}
  /\ r.op \in {"read", "read_oob"} => UNCHANGED <<data, oob>>
  /\ \A d \in Dev \ {r.dev} : data'[d] = data[d] /\ oob'[d] = oob[d]
  /\ r.op = "write_oob" /\ r.ofs + r.len < 2^WideBits =>
       \A p \in Pages(r.dev) : p < Page(r.dev, r.ofs) =>
         data'[r.dev][p] = data[r.dev][p] /\ oob'[r.dev][p] = oob[r.dev][p]
  /\ UNCHANGED bad

Block(d, ofs) == ofs \div Geometry[d].erasesize

IsBad(r) ==
  /\ r.op = "isbad" /\ r.rc = IF Block(r.dev, r.ofs) \in bad[r.dev] THEN "1" ELSE "0"
  /\ UNCHANGED Flash

MarkBad(r) ==
  /\ r.op = "markbad"
  /\ \/ r.rc = "0" /\ bad' = [bad EXCEPT ![r.dev] = @ \cup {Block(r.dev, r.ofs)}]
     \/ r.rc = "EIO" /\ UNCHANGED bad
  /\ UNCHANGED <<data, oob>>

Init ==
  /\ data \in [Dev -> UNION {[Pages(d) -> [0 .. Geometry[d].writesize - 1 -> Byte]] : d \in Dev}]
  /\ oob \in [Dev -> UNION {[Pages(d) -> [0 .. Geometry[d].oobsize - 1 -> Byte]] : d \in Dev}]
  /\ bad \in [Dev -> SUBSET Nat]
  /\ ret = Idle

Request ==
  /\ ret = Idle /\ ret' # Idle
  /\ \/ Reject(ret')
     \/ Unchecked(ret')
     \/ /\ Legal(ret'.dev, ret') \/ Cut(ret')
        /\ \/ Read(ret') \/ Write(ret') \/ ReadOob(ret') \/ WriteOob(ret')
           \/ Erase(ret') \/ IsBad(ret') \/ MarkBad(ret')

Return == ret # Idle /\ ret' = Idle /\ UNCHANGED Flash

Next == Request \/ Return

Spec == Init /\ [][Next]_vars
=============================================================================
