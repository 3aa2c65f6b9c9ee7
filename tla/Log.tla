--------------------------------- MODULE Log ---------------------------------
(***************************************************************************)
(* What a kernel log promises whoever reads the serial line: the characters*)
(* that were printed, each once and in the order in which they were        *)
(* printed.  A character is named by its number.                           *)
(***************************************************************************)
EXTENDS Integers, Sequences

CONSTANT Lengths    \* of the texts that are printed

VARIABLES printed,  \* how many characters were printed
          wire      \* the characters on the line

Init == printed = 0 /\ wire = <<>>

Put(len) == printed' = printed + len /\ UNCHANGED wire

Deliver ==
  /\ Len(wire) < printed
  /\ wire' = Append(wire, Len(wire) + 1)
  /\ UNCHANGED printed

Next == Deliver \/ \E len \in Lengths : Put(len)

Spec == Init /\ [][Next]_<<printed, wire>>
=============================================================================
