------------------------------- MODULE MCNand -------------------------------
(***************************************************************************)
(* Two unlike devices: two pages of two bytes with an OOB byte each, both  *)
(* in one block, and a name that fills its row; and one page of a byte     *)
(* without OOB bytes.  With lengths of 8 bits, an OOB area's offset of 255 *)
(* wraps into the page; with offsets of 16 bits, a page's length added to  *)
(* the last even one wraps to the beginning of the device.                 *)
(*                                                                         *)
(* For bad blocks and long erases, two pages to a block on both, and as    *)
(* many OOB bytes as data on the first: with lengths of two bits, two      *)
(* pages there wrap to 0 and three to one page.                            *)
(***************************************************************************)
EXTENDS Nand, TLC

MCChip ==
  0 :> [page |-> 2, extra |-> 1, erase |-> 6, raw |-> 6, name |-> <<"a", "b">>]
  @@ 1 :> [page |-> 1, extra |-> 0, erase |-> 1, raw |-> 1, name |-> <<"c">>]

MCFarOps ==
  {[len |-> w[1], ooblen |-> w[2], ooboffs |-> w[3], datbuf |-> TRUE, oobbuf |-> TRUE] :
     w \in {<<0, 1, 255>>, <<2, 2, 255>>, <<0, 255, 1>>, <<255, 0, 0>>}}

MCChipOob ==
  0 :> [page |-> 1, extra |-> 1, erase |-> 4, raw |-> 8, name |-> <<"a">>]
  @@ 1 :> [page |-> 1, extra |-> 0, erase |-> 2, raw |-> 2, name |-> <<"c">>]
=============================================================================
