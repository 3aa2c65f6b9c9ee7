-------------------------------- MODULE Smbios --------------------------------
(***************************************************************************)
(* SMBIOS::init, dumpTable and the toString functions                      *)
(* (kernel/smbios/smbios.cpp): the kernel maps the entry point and the     *)
(* table the firmware left, and walks over the structures in it.  A        *)
(* structure is its header, with its type and the length of its fields,    *)
(* the fields, and its strings behind them, which end with a second zero.  *)
(*                                                                         *)
(* Memory is bytes; what is printed is left out, what is read for it is    *)
(* not.  The chains of ksnprintf that build the text are in Stdio.         *)
(***************************************************************************)
EXTENDS Naturals, Sequences, FiniteSets

CONSTANTS
  Tables,       \* what the firmware may have left: see Table
  LengthLimit,  \* 2^16, of the length dumpTable takes
  PageSize,
  MemorySize    \* bound: the addresses there are

(* entry: 64 or 32 for the two kinds of entry point, 0 for none.  bytes lie   *)
(* from address at, and filler elsewhere; length is the entry point's         *)
(* table_length; starts says how far behind at each structure begins, and     *)
(* the last one ends.                                                         *)
Table == [entry : {0, 32, 64}, at : Nat, bytes : Seq(0 .. 255), filler : 0 .. 255,
          length : Nat, starts : Seq(Nat)]

ASSUME SmbiosAssumption ==
  /\ LengthLimit \in Nat \ {0} /\ PageSize \in Nat \ {0} /\ MemorySize \in Nat
  /\ Tables \subseteq Table
  /\ \A t \in Tables : t.at + t.length <= MemorySize
                       /\ (t.entry = 32 => t.length < LengthLimit)

VARIABLES
  table,     \* the table of this boot
  mapped,    \* the pages of the table that are mapped in the higher half
  pc,        \* "init", "walk", "next", "done", "panic" or "fault"
  ptr,       \* ptr of dumpTable
  seen       \* the structures the walk has come to

vars == <<table, mapped, pc, ptr, seen>>

Init ==
  /\ table \in Tables
  /\ mapped = {}
  /\ pc = "init" /\ ptr = 0 /\ seen = <<>>

Byte(a) == IF a >= table.at /\ a - table.at + 1 \in DOMAIN table.bytes
           THEN table.bytes[a - table.at + 1] ELSE table.filler
Word(a) == Byte(a) + 256 * Byte(a + 1)

Type(p) == Byte(p)
Length(p) == Byte(p + 1)
StringTable(p) == p + Length(p)

(* TableType *)
FirmwareInfo == 0
SystemInfo == 1
ChassisInfo == 3
ProcessorInfo == 4
PhysicalMemoryArray == 16
MemoryDevice == 17
EndOfTable == 127

(***************************************************************************)
(* smbiosStructLen and getString                                           *)
(***************************************************************************)
Smallest(S) == CHOOSE i \in S : \A k \in S : i <= k

(* i of the scan: the second of the first two zeros that follow each other.   *)
(* With no such pair in memory it reads on to the end of it.                  *)
ScanEnds(p) == {i \in 1 .. MemorySize : Byte(StringTable(p) + i - 1) = 0 /\ Byte(StringTable(p) + i) = 0}
ScanEnd(p) == IF ScanEnds(p) = {} THEN MemorySize ELSE Smallest(ScanEnds(p))

StructLenAtZero(p) == Length(p) + ScanEnd(p)   \* mutant: the second zero is left to the next
StructLen(p) == Length(p) + ScanEnd(p) + 1

(* The first zero from a on. *)
ZeroFrom(a) ==
  LET zeros == {z \in a .. MemorySize : Byte(z) = 0}
  IN  IF zeros = {} THEN MemorySize ELSE Smallest(zeros)

(* The loop of getString: string i when a is where the first one begins; it   *)
(* stops behind the end of memory.                                            *)
StringFrom[a \in Nat, i \in Nat] ==
  IF i <= 1 \/ a > MemorySize THEN a ELSE StringFrom[ZeroFrom(a) + 1, i - 1]

StringAtZero(p, index) ==   \* mutant: index 0 not told apart, the first string is number 0
  StringFrom[StringTable(p), index + 1]
StringAt(p, index) == StringFrom[StringTable(p), index]

(***************************************************************************)
(* toString: the offsets of the fields each type reads                     *)
(***************************************************************************)
If(condition, offsets) == IF condition THEN offsets ELSE {}

FirmwareReads(len) ==
  {4, 5, 8, 9} \cup 10 .. 17
  \cup If(len >= 21, {20}) \cup If(len >= 23, {21, 22}) \cup If(len >= 24, {23})
  \cup If(len = 26, {24, 25})

SystemReads == {4, 5, 6, 7, 25, 26}

ChassisReads(len) ==
  {4, 6, 7, 8}
  \cup If(len >= 10, {9}) \cup If(len >= 11, {10}) \cup If(len >= 12, {11})
  \cup If(len >= 13, {12}) \cup If(len >= 17, 13 .. 16) \cup If(len >= 18, {17})
  \cup If(len >= 19, {18}) \cup If(len >= 20, {19})

(* socketType is read when processorUpgrade says so. *)
SocketType(p) == If(Byte(p + 25) = 255, {50})

ProcessorReads(p, len) ==
  4 .. 16 \cup 18 .. 25 \cup SocketType(p)
  \cup If(len >= 33, {32}) \cup If(len >= 34, {33}) \cup If(len >= 35, {34})
  \cup If(len >= 36, {35}) \cup If(len >= 37, {36}) \cup If(len >= 38, {37})

(* maximumCapacity 0x8000000 *)
ArrayReads(p, len) ==
  2 .. 10 \cup {13, 14}
  \cup If(Word(p + 7) = 0 /\ Word(p + 9) = 2048 /\ len = 23, 15 .. 22)

DeviceReadsEarly(p, len) ==   \* mutant: the length is compared with where extendedSize begins
  2 .. 5 \cup {12, 13} \cup If(Word(p + 12) = 32767 /\ len >= 28, 28 .. 31)
(* size 0x7fff *)
DeviceReads(p, len) ==
  2 .. 5 \cup {12, 13} \cup If(Word(p + 12) = 32767 /\ len >= 32, 28 .. 31)

Fields(p) ==
  LET len == Length(p)
  IN  CASE Type(p) = FirmwareInfo        -> FirmwareReads(len)
        [] Type(p) = SystemInfo          -> SystemReads
        [] Type(p) = ChassisInfo         -> ChassisReads(len)
        [] Type(p) = ProcessorInfo       -> ProcessorReads(p, len)
        [] Type(p) = PhysicalMemoryArray -> ArrayReads(p, len)
        [] Type(p) = MemoryDevice        -> DeviceReads(p, len)
        [] OTHER                         -> {}

(* The fields among them that are numbers of strings, 0 for none. *)
StringFields(p) ==
  Fields(p) \cap
    CASE Type(p) = FirmwareInfo  -> {4, 5, 8}
      [] Type(p) = SystemInfo    -> SystemReads
      [] Type(p) = ChassisInfo   -> {4, 6, 7, 8}
      [] Type(p) = ProcessorInfo -> {4, 7, 16, 32, 33, 34, 50}
      [] OTHER                   -> {}

StringsRead(p) == {Byte(p + f) : f \in StringFields(p)} \ {0}

BytesOfString(p, index) == StringAt(p, index) .. ZeroFrom(StringAt(p, index))

ScanReads(p) == StringTable(p) .. StringTable(p) + ScanEnd(p)

(* All that is read at p: header, fields, strings, and the scan for the end. *)
Reads(p) ==
  {p} \cup If(Type(p) # EndOfTable,
             {p + 1} \cup {p + f : f \in Fields(p)} \cup ScanReads(p)
             \cup UNION {BytesOfString(p, index) : index \in StringsRead(p)})

(***************************************************************************)
(* SMBIOS::init and dumpTable                                              *)
(***************************************************************************)
Addresses(a, n) == IF n = 0 THEN {} ELSE a .. a + n - 1   \* mutant: addresses for page numbers
Pages(a, n) == IF n = 0 THEN {} ELSE a \div PageSize .. (a + n - 1) \div PageSize
Readable(S) == \A a \in S : a \div PageSize \in mapped

NoEntry ==
  /\ pc = "init" /\ table.entry = 0
  /\ pc' = "done"
  /\ UNCHANGED <<table, mapped, ptr, seen>>

(* The entry point, which says where the table is, is mapped first, in pages  *)
(* of its own.                                                                *)
MapTable ==
  /\ pc = "init" /\ table.entry # 0
  /\ mapped' = mapped \cup Pages(table.at, table.length)
  /\ ptr' = table.at
  /\ pc' = "walk"
  /\ UNCHANGED <<table, seen>>

(* The end of the table, by the length as dumpTable gets it. *)
Limit == table.at + (table.length % LengthLimit)

WalkEnds ==
  /\ pc = "walk" /\ ptr >= Limit
  /\ pc' = "done"
  /\ UNCHANGED <<table, mapped, ptr, seen>>

(* extendedFirmwareRomSize counts in units that are not known. *)
UnknownUnits(p) ==
  Type(p) = FirmwareInfo /\ Length(p) = 26 /\ Word(p + 24) >= 32768

(* A round of the loop; one that reads what is not mapped ends in a fault.    *)
Visit ==
  /\ pc = "walk" /\ ptr < Limit
  /\ seen' = Append(seen, ptr)
  /\ pc' = CASE ~Readable(Reads(ptr))    -> "fault"
             [] Type(ptr) = EndOfTable   -> "done"
             [] UnknownUnits(ptr)        -> "panic"
             [] OTHER                    -> "next"
  /\ UNCHANGED <<table, mapped, ptr>>

Advance ==
  /\ pc = "next"
  /\ ptr' = ptr + StructLen(ptr)
  /\ pc' = "walk"
  /\ UNCHANGED <<table, mapped, seen>>

Finished == pc \in {"done", "panic", "fault"} /\ UNCHANGED vars

Next == NoEntry \/ MapTable \/ WalkEnds \/ Visit \/ Advance \/ Finished

Spec == Init /\ [][Next]_vars

(***************************************************************************)
(* Properties                                                              *)
(***************************************************************************)

(* The types of the variables; only pages that memory has are mapped. *)
TypeOK ==
  /\ table \in Tables
  /\ mapped \subseteq 0 .. MemorySize \div PageSize
  /\ pc \in {"init", "walk", "next", "done", "panic", "fault"}
  /\ ptr \in Nat /\ seen \in Seq(Nat)

(* The structures of the table: where they begin, and their bytes. *)
Structures == [k \in 1 .. Len(table.starts) - 1 |-> table.at + table.starts[k]]
OwnBytes(k) == Structures[k] .. table.at + table.starts[k + 1] - 1
Ends(k) == \E i \in 1 .. k : Type(Structures[i]) = EndOfTable

TableEnd == table.at + table.starts[Len(table.starts)]

(* The table fills its length, or a structure in it says that it ends.        *)
Conforms ==
  /\ TableEnd <= table.at + table.length
  /\ TableEnd < table.at + table.length => Ends(Len(Structures))

(* The walk comes to the structures of the table in their order and to        *)
(* nothing else, and when it ends it has come to all that begin below the     *)
(* length, taken modulo 2^16, and not behind an end of table.                 *)
WalkMeetsItsStructures ==
  Conforms =>
    /\ Len(seen) <= Len(Structures)
    /\ \A i \in DOMAIN seen : seen[i] = Structures[i]
    /\ pc = "done" /\ table.entry # 0 =>
         \A k \in DOMAIN Structures :
           Structures[k] < Limit /\ ~(k > 1 /\ Ends(k - 1)) => k <= Len(seen)

(* The length of a type's structure in the first version that has it. *)
FirstLength(type) ==
  CASE type = FirmwareInfo        -> 18
    [] type = SystemInfo          -> 8
    [] type = ChassisInfo         -> 9
    [] type = ProcessorInfo       -> 26
    [] type = PhysicalMemoryArray -> 15
    [] type = MemoryDevice        -> 21
    [] OTHER                      -> 4

(* What is read whatever the length says: sku and family, which the first     *)
(* version does not have, and socketType.                                     *)
Ungated(p) ==
  If(Type(p) = SystemInfo, {25, 26}) \cup If(Type(p) = ProcessorInfo, {50})
Zeros(from, to) == {z \in from .. to : Byte(z) = 0}

(* A structure all of whose fields are there that are read ungated, and which *)
(* has the strings it names.                                                  *)
Complete(k) ==
  LET p == Structures[k]
      zeros == Cardinality(Zeros(StringTable(p), table.at + table.starts[k + 1] - 1))
  IN  /\ Length(p) >= FirstLength(Type(p))
      /\ \A f \in Fields(p) \cap Ungated(p) : f < Length(p)
      /\ \A index \in StringsRead(p) : index <= zeros

(* Of a structure of whatever version no field is read that it does not have, *)
(* but for the ungated ones; a string is found behind as many strings as its  *)
(* number says; and when the structure is complete all that is read of it,    *)
(* the scan for its end included, is its own.                                 *)
ReadsAreOfTheStructure ==
  pc = "walk" /\ ptr < Limit =>
    \A k \in DOMAIN Structures :
      ptr = Structures[k] /\ Length(ptr) >= FirstLength(Type(ptr)) =>
        /\ \A f \in Fields(ptr) \ Ungated(ptr) : f < Length(ptr)
        /\ Complete(k) =>
             /\ Reads(ptr) \subseteq OwnBytes(k)
             /\ \A index \in StringsRead(ptr) :
                  LET a == StringAt(ptr, index)
                  IN  /\ Cardinality(Zeros(StringTable(ptr), a - 1)) = index - 1
                      /\ a = StringTable(ptr) \/ Byte(a - 1) = 0

(* A walk over a whole table of complete structures reads mapped pages only.  *)
WholeTableNeverFaults ==
  Conforms /\ (\A k \in DOMAIN Structures : Complete(k)) => pc # "fault"

(* A conforming table is walked as it is, and to its end if it is complete.   *)
WholeTableIsWalked == WalkMeetsItsStructures /\ WholeTableNeverFaults
=============================================================================
