-------------------------- MODULE MCPagingAArch64 ----------------------------
(* An instance of PagingAArch64 for TLC: two entries to a table, sixteen     *)
(* pages in each half, of which 16 is the first of the direct map.           *)
EXTENDS PagingAArch64

L(p, n, f, fl) == [at |-> p, pages |-> n, frame |-> f, flags |-> fl]

(* The lower half: nothing, its last page (whose frame the first page of the *)
(* higher half continues), or what lies at the indexes of pages 18 and 19.   *)
Lower == {{}, {L(15, 1, 3, {})}, {L(2, 1, 6, {})}, {L(2, 2, 6, {})}}

(* The higher half: around its first block, and its last pages. *)
Higher == {s \cup t \cup u :
             s \in {{}, {L(16, 1, 4, {})}, {L(16, 1, 4, {}), L(17, 1, 5, {"other"})}, {L(16, 2, 4, {})}},
             t \in {{}, {L(18, 1, 6, {})}, {L(18, 1, 5, {}), L(19, 1, 7, {})}, {L(18, 2, 6, {})}},
             u \in {{}, {L(30, 1, 5, {}), L(31, 1, 7, {})}}}

(* One range from the last page of the lower half into the higher half, which *)
(* the memory map keeps, with the higher half's last page there or not.       *)
AcrossTheRoots == {{L(15, 1, 4, {}), L(16, 1, 5, {})} \cup u : u \in {{}, {L(31, 1, 7, {})}}}

BootWalks == {low \cup high : low \in Lower, high \in Higher} \cup AcrossTheRoots
               \cup {{L(16, 1, 0, {}), L(20, 4, 0, {})}}

Maps == {{[base |-> 5, length |-> 1, kept |-> TRUE], [base |-> 3, length |-> 1, kept |-> FALSE]}}

(* Areas in pages of three bytes; the serial port's page; a block. *)
SomeAreas == {[address |-> a, size |-> 2, flags |-> {"AF+SH"}] : a \in {5, 9}}
M(p, f, n) == [at |-> p, frame |-> f, flags |-> {"AF+SH"}, pages |-> n, count |-> 1]
SomeMappings == {M(19, 3, 1), M(18, 4, 2), M(18, 5, 2)}
U(a, n, c) == [address |-> a, pages |-> n, count |-> c]
SomeUnmappings == {U(9, 1, 1), U(10, 1, 1), U(3, 1, 3), U(6, 2, 1), U(9, 2, 1)}
=============================================================================
