---------------------------- MODULE AddressSpace -----------------------------
(***************************************************************************)
(* What a kernel expects of its page tables, whatever their shape: a page  *)
(* that has been given a frame keeps it until it is unmapped.  A mapping   *)
(* covers one page or one aligned run of pages (a huge page).  PagingX86   *)
(* implements Spec, PagingAArch64, which also unmaps, UnmappingSpec.       *)
(***************************************************************************)
EXTENDS Integers

CONSTANTS Pages,      \* the virtual pages, 0 .. k
          RunLengths, \* the sizes a mapping may have
          Frames,     \* the page frames of physical memory
          Attributes  \* the attributes a mapping may carry

VARIABLE translation  \* page -> <<frame, attributes>>, or <<>> if not mapped

Init == translation = [p \in Pages |-> <<>>]

Run(p, len) == p .. (p + len - 1)

(* A run that is not mapped gets consecutive frames and one set of attributes. *)
Map(p, len) ==
  /\ p % len = 0 /\ \A q \in Run(p, len) : translation[q] = <<>>
  /\ translation'[p] \in Frames \X Attributes
  /\ LET frame      == translation'[p][1]
         attributes == translation'[p][2]
     IN  translation' = [q \in Pages |-> IF q \in Run(p, len) THEN <<frame + (q - p), attributes>>
                                                             ELSE translation[q]]

(* A run is unmapped as a whole. *)
Unmap(p, len) ==
  /\ p % len = 0
  /\ translation' = [q \in Pages |-> IF q \in Run(p, len) THEN <<>> ELSE translation[q]]

Next == \E p \in Pages, len \in RunLengths : Map(p, len)

Spec == Init /\ [][Next]_translation

UnmappingSpec ==
  Init /\ [][Next \/ \E p \in Pages, len \in RunLengths : Unmap(p, len)]_translation
=============================================================================
