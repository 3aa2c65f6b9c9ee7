------------------------------ MODULE PagingX86 ------------------------------
(***************************************************************************)
(* The page tables of the x86_64 kernel, kernel/arch/x86_64/memory.        *)
(* Paging::init walks the tables the boot loader left, collects runs of    *)
(* leaves into ranges, maps every range that touches memory the kernel     *)
(* needs into tables of its own and loads cr3; mapPartial adds mappings    *)
(* later.  Tables come from a pool of pages inside the kernel image.       *)
(*                                                                         *)
(* Addresses are counted in pages: a virtual page is the low 48 bits of an *)
(* address, a frame is a page of physical memory.  A huge page is Entries  *)
(* pages long.  A step is one entry of the walk, one range, or one level   *)
(* of the descent that maps a page.                                        *)
(***************************************************************************)
EXTENDS Integers, FiniteSets, FiniteSetsExt

CONSTANTS
  Entries,     \* PAGE_ENTRIES
  PoolSize,    \* INITIAL_POOL_SIZE
  PageBytes,   \* PAGE_SIZE
  Hhdm,        \* the virtual page where the boot loader maps frame 0
  BootTables,  \* the leaves the boot loader's tables may hold
  MemoryMaps,  \* the memory maps it may report
  Requests     \* the areas the kernel maps after init, in bytes

(* The pages under one entry of a level, and of the address space. *)
Span(level) == CASE level = 1 -> Entries * Entries * Entries
                 [] level = 2 -> Entries * Entries
                 [] level = 3 -> Entries
                 [] level = 4 -> 1
PageCount == Entries * Span(1)
Pages == 0 .. (PageCount - 1)
Index(p, level) == (p \div Span(level)) % Entries

Flags == {"write", "global", "pat", "accessed"}   \* "accessed" for ACCESSED and DIRTY

Blank == [kind |-> "none", to |-> 0, flags |-> {}]
Link(t) == [kind |-> "table", to |-> t, flags |-> {}]
Leaf(kind, frame, flags) == [kind |-> kind, to |-> frame, flags |-> flags]
BlankTable == [i \in 0 .. (Entries - 1) |-> Blank]

(* Leaves of the boot loader's tables: [at, pages, frame, flags].  Entries of *)
(* the memory map: [base, length, kept], kept if the kernel maps that type.   *)
NoRange == [at |-> 0, frame |-> 0, flags |-> {}, pages |-> 0, count |-> 0]
NoJob == [at |-> 0, frame |-> 0, flags |-> {}, pages |-> 1, left |-> 0]

ASSUME PagingAssumption ==
  /\ Entries \in Nat \ {0, 1} /\ PoolSize \in Nat \ {0, 1} /\ PageBytes \in Nat \ {0}
  /\ Hhdm \in Pages
  /\ \A boot \in BootTables : \A leaf \in boot :
       /\ leaf.at \in Pages /\ leaf.frame \in Nat /\ leaf.flags \subseteq Flags
       /\ leaf.pages \in {1, Entries, Span(2)} /\ leaf.at % leaf.pages = 0
  /\ \A boot \in BootTables : \A a, b \in boot :
       a # b => a.at + a.pages <= b.at \/ b.at + b.pages <= a.at
  /\ \A memmap \in MemoryMaps : \A e \in memmap :
       e.base \in Nat /\ e.length \in Nat /\ e.kept \in BOOLEAN
  /\ \A r \in Requests :   \* no caller asks for ACCESSED or DIRTY
       r.address \in Nat /\ r.size \in Nat /\ r.flags \subseteq Flags \ {"accessed"}

VARIABLES
  boot, memmap,   \* what the boot loader left: its leaves and its memory map
  supported,      \* whether it answered with what init demands
  cr3,            \* the tables in force: "boot" or "kernel"
  pool, used,     \* initialPool and initialPoolUsedCount; the root is page 0
  pc,             \* "start", "walk", "map", "idle" or "panic"
  why,            \* the reason of a panic
  at, range,      \* the walk: the next page and the open range (currentBlock)
  job,            \* mapMemory's arguments, advanced as its loop goes on
  node, level,    \* the table of the descent and its level
  wanted          \* the request mapPartial is serving

given  == <<boot, memmap, supported>>
tables == <<pool, used>>
walk   == <<at, range>>
path   == <<node, level>>
vars   == <<given, cr3, tables, pc, why, walk, job, path, wanted>>

Idle == [address |-> 0, size |-> 0, flags |-> {}]

Init ==
  /\ boot \in BootTables /\ memmap \in MemoryMaps /\ supported \in BOOLEAN
  /\ cr3 = "boot" /\ used = 0 /\ pool = [t \in 0 .. (PoolSize - 1) |-> BlankTable]
  /\ pc = "start" /\ why = "none" /\ at = 0 /\ range = NoRange
  /\ job = NoJob /\ node = 0 /\ level = 1 /\ wanted = Idle

Panic(reason) == pc' = "panic" /\ why' = reason

-----------------------------------------------------------------------------
(***************************************************************************)
(* Paging::init up to the walk: the checks, and the root from the pool.    *)
(***************************************************************************)
PoolNeverEmpty == FALSE   \* mutant: the pool is not checked
PoolEmpty == used + 1 >= PoolSize

InitRefuses ==
  /\ pc = "start" /\ ~supported
  /\ Panic("limine")
  /\ UNCHANGED <<given, cr3, tables, walk, job, path, wanted>>

StartWalk ==
  /\ pc = "start" /\ supported
  /\ pc' = "walk" /\ used' = used + 1
  /\ UNCHANGED <<given, cr3, pool, why, walk, job, path, wanted>>

-----------------------------------------------------------------------------
(***************************************************************************)
(* pageTableToRanges over walkPageTableLeaf.  The walk visits the leaves   *)
(* in the order of their pages, and calls missingCallback for every entry  *)
(* that is not present; the tables of the boot loader exist where they     *)
(* hold a leaf.                                                            *)
(***************************************************************************)
LeafAt(p) == {leaf \in boot : leaf.at = p}

Kept(flags) == flags \ {"accessed", "pat"}   \* PAT shares its bit with the size flag

ExtendsAnywhere(leaf) ==   \* mutant: the frame is not compared
  range.flags = Kept(leaf.flags) /\ range.pages = leaf.pages

Extends(leaf) ==
  /\ range.frame + range.count * range.pages = leaf.frame
  /\ range.flags = Kept(leaf.flags) /\ range.pages = leaf.pages

Open == range.count > 0

OpenRange ==
  \E leaf \in LeafAt(at) :
    /\ pc = "walk" /\ leaf.pages # Span(2) /\ ~Open
    /\ range' = [at |-> at, frame |-> leaf.frame, flags |-> Kept(leaf.flags),
                 pages |-> leaf.pages, count |-> 1]
    /\ at' = at + leaf.pages
    /\ UNCHANGED <<given, cr3, tables, pc, why, job, path, wanted>>

ExtendRange ==
  \E leaf \in LeafAt(at) :
    /\ pc = "walk" /\ leaf.pages # Span(2) /\ Open /\ Extends(leaf)
    /\ range' = [range EXCEPT !.count = @ + 1]
    /\ at' = at + leaf.pages
    /\ UNCHANGED <<given, cr3, tables, pc, why, job, path, wanted>>

HugeLeaf ==
  \E leaf \in LeafAt(at) :
    /\ pc = "walk" /\ leaf.pages = Span(2)
    /\ Panic("1GB")
    /\ UNCHANGED <<given, cr3, tables, walk, job, path, wanted>>

(* A missing entry with no range open changes nothing: skip to the next leaf. *)
SkipMissing ==
  /\ pc = "walk" /\ at \in Pages /\ LeafAt(at) = {} /\ ~Open
  /\ at' = Min({leaf.at : leaf \in {l \in boot : l.at > at}} \cup {PageCount})
  /\ UNCHANGED <<given, cr3, tables, pc, why, range, job, path, wanted>>

(***************************************************************************)
(* The callback of init: an open range that the entry at hand does not     *)
(* extend is mapped as a whole if it overlaps memory of a kept type.       *)
(***************************************************************************)
RangeEnds ==
  /\ pc = "walk" /\ Open /\ at \in Pages
  /\ \A leaf \in LeafAt(at) : leaf.pages # Span(2) /\ ~Extends(leaf)

StartsInside(e) ==   \* mutant: a range that starts before the entry is not seen
  e.base <= range.frame /\ range.frame <= e.base + e.length

RangesOverlap(e) ==
  /\ range.frame <= e.base + e.length
  /\ range.frame + range.count * range.pages - 1 >= e.base

IsKept == \E e \in memmap : e.kept /\ RangesOverlap(e)

MapRange ==
  /\ RangeEnds /\ IsKept
  /\ pc' = "map" /\ range' = NoRange /\ node' = 0 /\ level' = 1
  /\ job' = [at |-> range.at, frame |-> range.frame, flags |-> range.flags,
             pages |-> range.pages, left |-> range.count]
  /\ UNCHANGED <<given, cr3, tables, why, at, wanted>>

DropRange ==
  /\ RangeEnds /\ ~IsKept
  /\ range' = NoRange
  /\ UNCHANGED <<given, cr3, tables, pc, why, at, job, path, wanted>>

(* The end of the walk reports nothing, even if a range is open. *)
LoadCr3 ==
  /\ pc = "walk" /\ at = PageCount
  /\ pc' = "idle" /\ cr3' = "kernel"
  /\ UNCHANGED <<given, tables, why, walk, job, path, wanted>>

-----------------------------------------------------------------------------
(***************************************************************************)
(* mapMemory: one turn of its loop descends from the root, adding tables   *)
(* that are not there, and sets the entry of the page.                     *)
(***************************************************************************)
Slot == Index(job.at, level)
Here == pool[node][Slot]

Mapping == pc = "map" /\ job.left > 0
AtLeaf == level = 4 \/ (level = 3 /\ job.pages = Entries)

Descend ==
  /\ Mapping /\ ~AtLeaf /\ Here.kind = "table"
  /\ node' = Here.to /\ level' = level + 1
  /\ UNCHANGED <<given, cr3, tables, pc, why, walk, job, wanted>>

AddSameTable ==   \* mutant: the pool does not advance
  /\ Mapping /\ ~AtLeaf /\ Here.kind = "none" /\ ~PoolEmpty
  /\ pool' = [pool EXCEPT ![used] = BlankTable, ![node][Slot] = Link(used)]
  /\ node' = used /\ level' = level + 1
  /\ UNCHANGED <<given, cr3, used, pc, why, walk, job, wanted>>

AddTable ==
  /\ Mapping /\ ~AtLeaf /\ Here.kind = "none" /\ ~PoolEmpty
  /\ pool' = [pool EXCEPT ![used] = BlankTable, ![node][Slot] = Link(used)]
  /\ used' = used + 1 /\ node' = used /\ level' = level + 1
  /\ UNCHANGED <<given, cr3, pc, why, walk, job, wanted>>

OutOfPool ==
  /\ Mapping /\ ~AtLeaf /\ Here.kind = "none" /\ PoolEmpty
  /\ Panic("pool")
  /\ UNCHANGED <<given, cr3, tables, walk, job, path, wanted>>

NextPageSmall ==   \* mutant: a huge page advances by a page
  /\ node' = 0 /\ level' = 1
  /\ job' = [job EXCEPT !.left = @ - 1, !.frame = @ + job.pages,
                        !.at = (@ + 1) % PageCount]

NextPage ==
  /\ node' = 0 /\ level' = 1
  /\ job' = [job EXCEPT !.left = @ - 1, !.frame = @ + job.pages,
                        !.at = (@ + job.pages) % PageCount]

(* A huge page is where a table should be: the turn ends, and the next one *)
(* is for the same page.                                                   *)
HugeForEver ==   \* mutant: the loop does not count the turn
  /\ Mapping /\ ~AtLeaf /\ Here.kind = "huge"
  /\ node' = 0 /\ level' = 1
  /\ UNCHANGED <<given, cr3, tables, pc, why, walk, job, wanted>>

HugeInTheWay ==
  /\ Mapping /\ ~AtLeaf /\ Here.kind = "huge"
  /\ node' = 0 /\ level' = 1 /\ job' = [job EXCEPT !.left = @ - 1]
  /\ UNCHANGED <<given, cr3, tables, pc, why, walk, wanted>>

NewEntry == Leaf(IF job.pages = Entries THEN "huge" ELSE "page", job.frame, job.flags)

ConflictOfPages == Here.kind # "none" /\ Here.kind # NewEntry.kind   \* mutant
Conflict == Here # Blank /\ Here # NewEntry

SetEntry ==
  /\ Mapping /\ AtLeaf /\ ~Conflict
  /\ pool' = [pool EXCEPT ![node][Slot] = NewEntry]
  /\ NextPage
  /\ UNCHANGED <<given, cr3, used, pc, why, walk, wanted>>

EntryExists ==
  /\ Mapping /\ AtLeaf /\ Conflict
  /\ Panic("exists")
  /\ UNCHANGED <<given, cr3, tables, walk, job, path, wanted>>

Mapped == pc = "map" /\ job.left = 0

MapReturns ==
  /\ Mapped
  /\ pc' = (IF cr3 = "boot" THEN "walk" ELSE "idle") /\ job' = NoJob /\ wanted' = Idle
  /\ UNCHANGED <<given, cr3, tables, why, walk, path>>

-----------------------------------------------------------------------------
(***************************************************************************)
(* mapPartial maps an area through the higher half: whole pages, of which  *)
(* there may be one more than the area needs.                              *)
(***************************************************************************)
RoundedPages(r) ==   \* mutant: the offset in the first page is forgotten
  (r.size + PageBytes - (r.size % PageBytes)) \div PageBytes

PartialPages(r) ==
  LET rounded == r.size + PageBytes - (r.size % PageBytes)
      offset  == r.address % PageBytes
  IN  (IF offset + r.size > rounded THEN rounded + PageBytes ELSE rounded) \div PageBytes

MapPartial(r) ==
  /\ pc = "idle"
  /\ pc' = "map" /\ wanted' = r /\ node' = 0 /\ level' = 1
  /\ job' = [at |-> (Hhdm + r.address \div PageBytes) % PageCount,
             frame |-> r.address \div PageBytes, flags |-> r.flags,
             pages |-> 1, left |-> PartialPages(r)]
  /\ UNCHANGED <<given, cr3, tables, why, walk>>

(* The processor marks an entry it translates through. *)
Access(t, i) ==
  /\ cr3 = "kernel" /\ pool[t][i].kind \in {"page", "huge"}
  /\ pool' = [pool EXCEPT ![t][i].flags = @ \cup {"accessed"}]
  /\ UNCHANGED <<given, cr3, used, pc, why, walk, job, path, wanted>>

-----------------------------------------------------------------------------
InitStep == InitRefuses \/ StartWalk \/ OpenRange \/ ExtendRange \/ HugeLeaf
            \/ SkipMissing \/ MapRange \/ DropRange \/ LoadCr3

MapStep == Descend \/ AddTable \/ OutOfPool \/ HugeInTheWay \/ SetEntry \/ EntryExists \/ MapReturns

Next == \/ InitStep \/ MapStep
        \/ \E r \in Requests : MapPartial(r)
        \/ \E t \in 0 .. (used - 1), i \in 0 .. (Entries - 1) : Access(t, i)

Spec == Init /\ [][Next]_vars

(* The kernel runs on: nothing else uses the processor. *)
FairSpec == Spec /\ WF_vars(InitStep \/ MapStep)

-----------------------------------------------------------------------------
(* Correctness.                                                            *)

Entry == [kind : {"none", "table", "page", "huge"}, to : Nat, flags : SUBSET Flags]

(* Every variable stays in its type; the pool is never exhausted unnoticed. *)
TypeOK ==
  /\ boot \in BootTables /\ memmap \in MemoryMaps /\ supported \in BOOLEAN
  /\ cr3 \in {"boot", "kernel"} /\ used \in 0 .. (PoolSize - 1)
  /\ pool \in [0 .. (PoolSize - 1) -> [0 .. (Entries - 1) -> Entry]]
  /\ pc \in {"start", "walk", "map", "idle", "panic"}
  /\ why \in {"none", "limine", "1GB", "pool", "exists"}
  /\ at \in 0 .. PageCount
  /\ range \in {NoRange} \cup [at : Pages, frame : Nat, flags : SUBSET Flags,
                               pages : {1, Entries}, count : Nat]
  /\ job \in [at : Pages, frame : Nat, flags : SUBSET Flags, pages : {1, Entries}, left : Nat]
  /\ node \in 0 .. (PoolSize - 1) /\ level \in 1 .. 4
  /\ wanted \in Requests \cup {Idle}

(* The entry the processor finds for a page, and what it makes of it. *)
EntryOf(p) ==
  LET e1 == pool[0][Index(p, 1)]
      e2 == pool[e1.to][Index(p, 2)]
      e3 == pool[e2.to][Index(p, 3)]
      e4 == pool[e3.to][Index(p, 4)]
  IN  IF e1.kind = "none" \/ e2.kind = "none" THEN Blank
      ELSE IF e3.kind = "table" THEN e4 ELSE e3

Translate(p) ==
  LET e == EntryOf(p) IN
  IF e.kind = "none" THEN <<>>
  ELSE <<e.to + (IF e.kind = "huge" THEN p % Entries ELSE 0), e.flags \ {"accessed"}>>

Covers(leaf, p) == p \in leaf.at .. (leaf.at + leaf.pages - 1)

(***************************************************************************)
(* The pages of the pool form a tree: each is linked to from one entry of  *)
(* an earlier one, and, between two calls of mapMemory, holds a mapping.   *)
(***************************************************************************)
TablesFormATree ==
  /\ \A t \in 1 .. (used - 1) :
       /\ \E s \in 0 .. (t - 1), i \in 0 .. (Entries - 1) :
            \A r \in 0 .. (PoolSize - 1), j \in 0 .. (Entries - 1) :
              pool[r][j] = Link(t) <=> r = s /\ j = i
       /\ pc \in {"walk", "idle"} => pool[t] # BlankTable
  /\ \A t \in used .. (PoolSize - 1) : pool[t] = BlankTable

(***************************************************************************)
(* When cr3 is loaded, the memory the kernel runs from stays where it was: *)
(* every leaf of the boot loader for a frame of a kept entry is mapped     *)
(* alike, however the walk cut the leaves into ranges.  Only a range that  *)
(* reaches the last page of the address space is lost.                     *)
(***************************************************************************)
InKeptMemory(leaf) ==
  \E e \in memmap : e.kept /\ (e.base .. (e.base + e.length - 1))
                                \cap (leaf.frame .. (leaf.frame + leaf.pages - 1)) # {}

KernelStaysMapped ==
  cr3 = "kernel" =>
    /\ Open => range.at + range.count * range.pages = PageCount
    /\ \A leaf \in boot : InKeptMemory(leaf) /\ (Open => leaf.at < range.at) =>
         \A p \in leaf.at .. (leaf.at + leaf.pages - 1) :
           Translate(p) = <<leaf.frame + (p - leaf.at), Kept(leaf.flags)>>

(***************************************************************************)
(* Up to the load of cr3 the new tables translate a page only as the boot  *)
(* loader's tables do.                                                     *)
(***************************************************************************)
NothingInvented ==
  cr3 = "boot" => \A p \in Pages : Translate(p) # <<>> =>
    \E leaf \in boot :
      Covers(leaf, p) /\ Translate(p) = <<leaf.frame + (p - leaf.at), Kept(leaf.flags)>>

(* The ranges of the walk never collide, so init cannot stop at an entry    *)
(* that exists, and the assertion of paging.cpp:219 holds.                  *)
InitNeverConflicts ==
  /\ why = "exists" => cr3 = "kernel"
  /\ Mapping /\ AtLeaf /\ job.pages = Entries => job.at % Entries = 0

(* Init gives the kernel the memory it runs from as the boot loader had it:   *)
(* it loses nothing, adds nothing, and never collides with what it has mapped.*)
InitIsFaithful == KernelStaysMapped /\ NothingInvented /\ InitNeverConflicts

(***************************************************************************)
(* When mapPartial returns, every byte of the area is mapped as asked,     *)
(* unless a huge page was met: from there on nothing is.                   *)
(***************************************************************************)
Asked(i) == <<wanted.address \div PageBytes + i, wanted.flags>>
AskedPage(i) == (Hhdm + wanted.address \div PageBytes + i) % PageCount
LastAsked == ((wanted.address % PageBytes) + wanted.size - 1) \div PageBytes

MappedUpToHuge ==
  Mapped /\ cr3 = "kernel" =>
    \A i \in 0 .. LastAsked :
      \/ Translate(AskedPage(i)) = Asked(i)
      \/ \E j \in 0 .. i : EntryOf(AskedPage(j)).kind = "huge"

(* Every call comes back to the caller or stops in a panic. *)
KernelGoesOn == []<>(pc \in {"idle", "panic"})

(* The tables are an address space: no page that has a frame ever changes. *)
TheSpace == INSTANCE AddressSpace
              WITH translation <- [p \in Pages |-> Translate(p)],
                   RunLengths <- {1, Entries}, Frames <- Nat,
                   Attributes <- SUBSET (Flags \ {"accessed"})

ImplementsAddressSpace == TheSpace!Spec
=============================================================================
