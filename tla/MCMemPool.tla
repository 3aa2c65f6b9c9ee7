----------------------------- MODULE MCMemPool ------------------------------
(* A small pool for TLC: two pages of eight bytes, a header and a link of   *)
(* two bytes each, so that a split can leave a tail without room for a link.*)
EXTENDS MemPool

TwoPages     == 8 .. 23
TwoPageAddrs == {8, 16}
=============================================================================
