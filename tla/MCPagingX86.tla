---------------------------- MODULE MCPagingX86 ------------------------------
(* Instances of PagingX86 for TLC: two entries to a table, sixteen pages.   *)
EXTENDS PagingX86

L(p, n, f, fl) == [at |-> p, pages |-> n, frame |-> f, flags |-> fl]

(* What the tables may hold for the pages 2b and 2b + 1: nothing, a huge     *)
(* page, or leaves of their own, in frames that continue those before or not.*)
Small(p) == {{}, {L(p, 1, p - 6, {"accessed"})}, {L(p, 1, p - 6, {"write"})}, {L(p, 1, p - 5, {})}}

Block(b) ==
  {s \cup t : s \in Small(2 * b), t \in Small(2 * b + 1)}
    \cup {{L(2 * b, 2, f, {})} : f \in {2 * b - 6, 2 * b - 4}}

(* Both sides of the canonical hole, and the last block of the address space. *)
BootWalks == {s \cup t \cup u : s \in Block(3), t \in Block(4),
                u \in {{}, {L(14, 2, 4, {})}, {L(14, 1, 4, {"write"})}, {L(15, 1, 4, {})}}}
             \cup {{L(6, 1, 0, {}), L(8, 4, 1, {})}}

Map1 == {[base |-> 1, length |-> 1, kept |-> TRUE], [base |-> 3, length |-> 1, kept |-> FALSE]}
Map2 == {[base |-> 4, length |-> 2, kept |-> TRUE]}
WalkMaps == {Map1, Map2}
NoRequests == {}

(* The higher half maps frame 0 at page 8; areas in pages of three bytes. *)
BootAreas == {{}, {L(8, 2, 0, {"write"})}, {L(8, 1, 0, {"global"}), L(9, 1, 3, {"write"})}}
AllKept == {{[base |-> 0, length |-> 8, kept |-> TRUE]}}
Areas == {[address |-> a, size |-> s, flags |-> {"global"}] : a \in {1, 5, 9}, s \in {1, 2, 4}}
           \cup {[address |-> 9, size |-> 1, flags |-> {}]}
=============================================================================
