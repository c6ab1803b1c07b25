------------------------------ MODULE MCDiv64 ------------------------------
(***************************************************************************)
(* Div64 for TLC: the powers of two for the width in the cfg.              *)
(***************************************************************************)
EXTENDS Div64

MCPow2 == [j \in 0 .. 2*W |-> 2^j]
=============================================================================
