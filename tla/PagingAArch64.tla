---------------------------- MODULE PagingAArch64 ----------------------------
(***************************************************************************)
(* The page tables of the aarch64 kernel, kernel/arch/aarch64/memory.      *)
(* There are two roots, ttbr0 for the lower half of the address space and  *)
(* ttbr1 for the higher one.  Paging::init walks both of the boot loader's,*)
(* maps every range of leaves that touches memory the kernel needs into    *)
(* tables of its own, and loads them; mapPartial and mapMemory add to them *)
(* later, unmapMemory takes away.                                          *)
(*                                                                         *)
(* Addresses are counted in pages: 0 .. Half - 1 is the lower half, the    *)
(* Half pages after it the higher one, which begins at the direct map of   *)
(* physical memory.  A block (a huge page) is Entries pages long.  A step  *)
(* is one entry of the walk, one range, one new table or one page.         *)
(***************************************************************************)
EXTENDS Integers, FiniteSetsExt

CONSTANTS
  Entries,     \* PAGE_ENTRIES
  PoolSize,    \* INITIAL_POOL_SIZE
  PageBytes,   \* PAGE_SIZE
  BootTables,  \* the leaves the boot loader's tables may hold
  MemoryMaps,  \* the memory maps it may report
  Areas,       \* the areas given to mapPartial, in bytes
  Mappings,    \* the arguments given to mapMemory
  Unmappings   \* the arguments given to unmapMemory

(* The pages under one entry of a level, of a half, and of both. *)
Span(level) == CASE level = 1 -> Entries * Entries * Entries
                 [] level = 2 -> Entries * Entries
                 [] level = 3 -> Entries
                 [] level = 4 -> 1
Half == Entries * Span(1)
Pages == 0 .. (2 * Half - 1)
Index(p, level) == (p \div Span(level)) % Entries
Flags == {"AF+SH", "other"}      \* 0x700 in the calls, or what the boot loader chose

Blank == [kind |-> "none", to |-> 0, flags |-> {}]
Link(t) == [kind |-> "table", to |-> t, flags |-> {}]
Leaf(kind, frame, flags) == [kind |-> kind, to |-> frame, flags |-> flags]
BlankTable == [i \in 0 .. (Entries - 1) |-> Blank]

(* Leaves of the boot loader's tables: [at, pages, frame, flags].  Entries of *)
(* the memory map: [base, length, kept], kept if the kernel maps that type.   *)
NoRange == [at |-> 0, frame |-> 0, flags |-> {}, pages |-> 0, count |-> 0]
NoJob == [at |-> 0, frame |-> 0, flags |-> {}, pages |-> 1, left |-> 0]

ASSUME AArch64Assumption ==
  /\ Entries \in Nat \ {0, 1} /\ PoolSize \in Nat \ {0, 1, 2} /\ PageBytes \in Nat \ {0}
  /\ \A boot \in BootTables : \A leaf \in boot :
       /\ leaf.at \in Pages /\ leaf.frame \in Nat /\ leaf.flags \subseteq Flags
       /\ leaf.pages \in {1, Entries, Span(2)} /\ leaf.at % leaf.pages = 0
       /\ leaf.frame % leaf.pages = 0
  /\ \A boot \in BootTables : \A a, b \in boot :
       a # b => a.at + a.pages <= b.at \/ b.at + b.pages <= a.at
  /\ \A memmap \in MemoryMaps : \A e \in memmap :
       e.base \in Nat /\ e.length \in Nat /\ e.kept \in BOOLEAN
  /\ \A r \in Areas :        \* in memory that the direct map holds
       /\ r.address \in Nat /\ r.size \in Nat \ {0} /\ r.flags \subseteq Flags
       /\ (r.address + r.size - 1) \div PageBytes < Half
  /\ \A r \in Mappings :     \* of pages of the higher half
       /\ r.at \in Pages /\ r.frame \in Nat /\ r.flags \subseteq Flags
       /\ r.pages \in {1, Entries} /\ r.count \in Nat
       /\ Half <= r.at /\ r.at + r.count * r.pages <= 2 * Half
  /\ \A r \in Unmappings :   \* in the direct map
       /\ r.address \in Nat /\ r.pages \in {1, Entries} /\ r.count \in Nat
       /\ r.address \div PageBytes < Half /\ r.address \div PageBytes + r.count * r.pages <= Half

VARIABLES
  boot, memmap,   \* what the boot loader left: its leaves and its memory map
  supported,      \* whether it answered with what init demands
  ttbr,           \* the tables in force: "boot" or "kernel"
  pool, used,     \* initialPool and initialPoolUsedCount; pages 0 and 1 are root1 and root2
  pc,             \* "start", "walk", "map", "unmap", "idle" or "panic"
  why,            \* the reason of a panic
  at, range,      \* the walk: the next page and the open range (currentBlock)
  job,            \* the arguments of mapMemory or unmapMemory, advanced by the loop
  wanted,         \* the call as its caller sees it: the pages and what they are to hold
  tlb             \* one translation the processor has cached, or <<>>

given  == <<boot, memmap, supported>>
tables == <<pool, used>>
walk   == <<at, range>>
call   == <<job, wanted>>
vars   == <<given, ttbr, tables, pc, why, walk, call, tlb>>

Nothing == [first |-> 0, last |-> -1, frame |-> 0, flags |-> {}]

Init ==
  /\ boot \in BootTables /\ memmap \in MemoryMaps /\ supported \in BOOLEAN
  /\ ttbr = "boot" /\ used = 0 /\ pool = [t \in 0 .. (PoolSize - 1) |-> BlankTable]
  /\ pc = "start" /\ why = "none" /\ at = 0 /\ range = NoRange
  /\ job = NoJob /\ wanted = Nothing /\ tlb = <<>>

Panic(reason) == pc' = "panic" /\ why' = reason

-----------------------------------------------------------------------------
(* Paging::init up to the walk: the checks, and the roots from the pool.   *)
PoolNeverEmpty == FALSE   \* mutant: the pool is not checked
PoolEmpty == used + 1 >= PoolSize

InitRefuses ==
  /\ pc = "start" /\ ~supported
  /\ Panic("limine")
  /\ UNCHANGED <<given, ttbr, tables, walk, call, tlb>>

StartWalk ==
  /\ pc = "start" /\ supported
  /\ pc' = "walk" /\ used' = used + 2
  /\ UNCHANGED <<given, ttbr, pool, why, walk, call, tlb>>

-----------------------------------------------------------------------------
(***************************************************************************)
(* pageTableToRanges over walkPageTableLeaf, the lower half first.  The    *)
(* walk visits the leaves in the order of their pages and reports every    *)
(* entry that is not valid.                                                *)
(***************************************************************************)
LeafAt(p) == {leaf \in boot : leaf.at = p}
Walkable(leaf) == leaf.pages \in {1, Entries}

ExtendsAnywhere(leaf) ==   \* mutant: the frame is not compared
  range.flags = leaf.flags /\ range.pages = leaf.pages

Extends(leaf) ==
  /\ range.frame + range.count * range.pages = leaf.frame
  /\ range.flags = leaf.flags /\ range.pages = leaf.pages

Open == range.count > 0

OpenRange ==
  \E leaf \in LeafAt(at) :
    /\ pc = "walk" /\ Walkable(leaf) /\ ~Open
    /\ range' = [at |-> at, frame |-> leaf.frame, flags |-> leaf.flags,
                 pages |-> leaf.pages, count |-> 1]
    /\ at' = at + leaf.pages
    /\ UNCHANGED <<given, ttbr, tables, pc, why, call, tlb>>

ExtendRange ==
  \E leaf \in LeafAt(at) :
    /\ pc = "walk" /\ Walkable(leaf) /\ Open /\ Extends(leaf)
    /\ range' = [range EXCEPT !.count = @ + 1]
    /\ at' = at + leaf.pages
    /\ UNCHANGED <<given, ttbr, tables, pc, why, call, tlb>>

HugeLeaf ==
  \E leaf \in LeafAt(at) :
    /\ pc = "walk" /\ ~Walkable(leaf)
    /\ Panic("1GB")
    /\ UNCHANGED <<given, ttbr, tables, walk, call, tlb>>

(* A missing entry with no range open changes nothing: skip to the next leaf. *)
SkipMissing ==
  /\ pc = "walk" /\ at \in Pages /\ LeafAt(at) = {} /\ ~Open
  /\ at' = Min({leaf.at : leaf \in {l \in boot : l.at > at}} \cup {2 * Half})
  /\ UNCHANGED <<given, ttbr, tables, pc, why, range, call, tlb>>

(***************************************************************************)
(* The callback of init: an open range that the entry at hand does not     *)
(* extend is mapped as a whole if it overlaps memory of a kept type.       *)
(***************************************************************************)
RangeEnds ==
  /\ pc = "walk" /\ Open /\ at \in Pages
  /\ \A leaf \in LeafAt(at) : Walkable(leaf) /\ ~Extends(leaf)

StartsInside(e) ==   \* mutant: a range that starts before the entry is not seen
  e.base <= range.frame /\ range.frame <= e.base + e.length

RangesOverlap(e) ==
  /\ range.frame <= e.base + e.length
  /\ range.frame + range.count * range.pages - 1 >= e.base

IsKept == \E e \in memmap : e.kept /\ RangesOverlap(e)

MapRange ==
  /\ RangeEnds /\ IsKept
  /\ pc' = "map" /\ range' = NoRange
  /\ job' = [at |-> range.at, frame |-> range.frame, flags |-> range.flags,
             pages |-> range.pages, left |-> range.count]
  /\ UNCHANGED <<given, ttbr, tables, why, at, wanted, tlb>>

DropRange ==
  /\ RangeEnds /\ ~IsKept
  /\ range' = NoRange
  /\ UNCHANGED <<given, ttbr, tables, pc, why, at, call, tlb>>

(* The end of the walk reports nothing, even if a range is open. *)
LoadTables ==
  /\ pc = "walk" /\ at = 2 * Half
  /\ pc' = "idle" /\ ttbr' = "kernel" /\ tlb' = <<>>
  /\ UNCHANGED <<given, tables, why, walk, call>>

-----------------------------------------------------------------------------
(***************************************************************************)
(* The descent of mapMemory and unmapMemory.  The root is chosen by        *)
(* comparing the address with higherHalfOffset, which init sets in the     *)
(* object that walks the boot loader's tables only: in this one it is 0,   *)
(* and every address belongs to the higher half.                           *)
(***************************************************************************)
higherHalfOffset == 0
Root(p) == IF p >= higherHalfOffset THEN 1 ELSE 0

(* The tables on the way to a page, by level, and the level where it ends. *)
Path(p) ==
  LET table2 == pool[Root(p)][Index(p, 1)].to
      table3 == pool[table2][Index(p, 2)].to
      table4 == pool[table3][Index(p, 3)].to
  IN  <<Root(p), table2, table3, table4>>

EntryOn(path, p, l) == pool[path[l]][Index(p, l)]

LeafLevel == IF job.pages = Entries THEN 3 ELSE 4

LevelReached(path, p) ==
  Min({l \in 1 .. LeafLevel : l = LeafLevel \/ EntryOn(path, p, l).kind # "table"})

Turn(state) == pc = state /\ job.left > 0
Returned(state) == pc = state /\ job.left = 0

-----------------------------------------------------------------------------
(* mapMemory: one turn of its loop for each page or block.                 *)
Misaligned == job.frame % job.pages # 0 \/ job.at % job.pages # 0

MapRefuses ==
  /\ pc = "map" /\ Misaligned
  /\ Panic("aligned")
  /\ UNCHANGED <<given, ttbr, tables, walk, call, tlb>>

AddSameTable ==   \* mutant: the pool does not advance
  LET path  == Path(job.at)
      level == LevelReached(path, job.at)
  IN  /\ Turn("map") /\ ~Misaligned
      /\ level < LeafLevel /\ EntryOn(path, job.at, level).kind = "none" /\ ~PoolEmpty
      /\ pool' = [pool EXCEPT ![used] = BlankTable, ![path[level]][Index(job.at, level)] = Link(used)]
      /\ UNCHANGED <<given, ttbr, used, pc, why, walk, call, tlb>>

AddTable ==
  LET path  == Path(job.at)
      level == LevelReached(path, job.at)
  IN  /\ Turn("map") /\ ~Misaligned
      /\ level < LeafLevel /\ EntryOn(path, job.at, level).kind = "none" /\ ~PoolEmpty
      /\ pool' = [pool EXCEPT ![used] = BlankTable, ![path[level]][Index(job.at, level)] = Link(used)]
      /\ used' = used + 1
      /\ UNCHANGED <<given, ttbr, pc, why, walk, call, tlb>>

OutOfPool ==
  LET path  == Path(job.at)
      level == LevelReached(path, job.at)
  IN  /\ Turn("map") /\ ~Misaligned
      /\ level < LeafLevel /\ EntryOn(path, job.at, level).kind = "none" /\ PoolEmpty
      /\ Panic("pool")
      /\ UNCHANGED <<given, ttbr, tables, walk, call, tlb>>

BlockInTheWay ==
  LET path  == Path(job.at)
      level == LevelReached(path, job.at)
  IN  /\ Turn("map") /\ ~Misaligned
      /\ level < LeafLevel /\ EntryOn(path, job.at, level).kind = "block"
      /\ Panic("block")
      /\ UNCHANGED <<given, ttbr, tables, walk, call, tlb>>

AdvanceSmall ==   \* mutant: a block advances by a page
  job' = [job EXCEPT !.left = @ - 1, !.frame = @ + job.pages, !.at = (@ + 1) % (2 * Half)]

Advance ==
  job' = [job EXCEPT !.left = @ - 1, !.frame = @ + job.pages,
                     !.at = (@ + job.pages) % (2 * Half)]

NewEntry == Leaf(IF job.pages = Entries THEN "block" ELSE "page", job.frame, job.flags)

ConflictOfPages(e) == e.kind # "none" /\ e.kind # NewEntry.kind   \* mutant
Conflict(e) == e # Blank /\ e # NewEntry

SetEntry ==
  LET path == Path(job.at)
      slot == EntryOn(path, job.at, LeafLevel)
  IN  /\ Turn("map") /\ ~Misaligned
      /\ LevelReached(path, job.at) = LeafLevel /\ ~Conflict(slot)
      /\ pool' = [pool EXCEPT ![path[LeafLevel]][Index(job.at, LeafLevel)] = NewEntry]
      /\ Advance
      /\ UNCHANGED <<given, ttbr, used, pc, why, walk, wanted, tlb>>

EntryExists ==
  LET path == Path(job.at)
  IN  /\ Turn("map") /\ ~Misaligned
      /\ LevelReached(path, job.at) = LeafLevel /\ Conflict(EntryOn(path, job.at, LeafLevel))
      /\ Panic("exists")
      /\ UNCHANGED <<given, ttbr, tables, walk, call, tlb>>

(* Both loops end with invalidateCache. *)
Return ==
  /\ pc' = (IF ttbr = "boot" THEN "walk" ELSE "idle")
  /\ job' = NoJob /\ wanted' = Nothing /\ tlb' = <<>>
  /\ UNCHANGED <<given, ttbr, tables, why, walk>>

MapReturns == Returned("map") /\ ~Misaligned /\ Return

-----------------------------------------------------------------------------
(* unmapMemory: what is not there, or is not of the size asked for, stays. *)
UnmapRefuses(r) ==
  /\ pc = "idle" /\ r.address % PageBytes # 0
  /\ Panic("aligned")
  /\ UNCHANGED <<given, ttbr, tables, walk, call, tlb>>

UnmapMemory(r) ==
  /\ pc = "idle" /\ r.address % PageBytes = 0
  /\ pc' = "unmap"
  /\ LET first == Half + r.address \div PageBytes
     IN  /\ job' = [at |-> first, frame |-> 0, flags |-> {}, pages |-> r.pages, left |-> r.count]
         /\ wanted' = [first |-> first, last |-> first + r.count * r.pages - 1,
                       frame |-> 0, flags |-> {}]
  /\ UNCHANGED <<given, ttbr, tables, why, walk, tlb>>

SkipInPlace ==   \* mutant: a page that is not there does not advance the address
  LET path  == Path(job.at)
      level == LevelReached(path, job.at)
  IN  /\ Turn("unmap") /\ level < LeafLevel
      /\ job' = [job EXCEPT !.left = @ - 1]
      /\ UNCHANGED <<given, ttbr, tables, pc, why, walk, wanted, tlb>>

SkipPage ==
  LET path  == Path(job.at)
      level == LevelReached(path, job.at)
  IN  /\ Turn("unmap") /\ level < LeafLevel
      /\ Advance
      /\ UNCHANGED <<given, ttbr, tables, pc, why, walk, wanted, tlb>>

(* The assertions on a huge page: its address, and that it is one. *)
UnmapAsserts ==
  LET path == Path(job.at)
  IN  /\ Turn("unmap") /\ job.pages = Entries /\ LevelReached(path, job.at) = 3
      /\ job.at % Entries # 0 \/ EntryOn(path, job.at, 3).kind = "table"
      /\ Panic("assert")
      /\ UNCHANGED <<given, ttbr, tables, walk, call, tlb>>

ClearEntry ==
  LET path == Path(job.at)
  IN  /\ Turn("unmap") /\ LevelReached(path, job.at) = LeafLevel
      /\ job.pages = Entries => job.at % Entries = 0 /\ EntryOn(path, job.at, 3).kind # "table"
      /\ pool' = [pool EXCEPT ![path[LeafLevel]][Index(job.at, LeafLevel)] = Blank]
      /\ Advance
      /\ UNCHANGED <<given, ttbr, used, pc, why, walk, wanted, tlb>>

UnmapReturnsStale ==   \* mutant: the cache is not invalidated
  /\ Returned("unmap")
  /\ pc' = "idle" /\ job' = NoJob /\ wanted' = Nothing
  /\ UNCHANGED <<given, ttbr, tables, why, walk, tlb>>

UnmapReturns == Returned("unmap") /\ Return

-----------------------------------------------------------------------------
(***************************************************************************)
(* mapPartial maps an area through the direct map: whole pages, of which   *)
(* there may be one more than the area needs.                              *)
(***************************************************************************)
RoundedPages(r) ==   \* mutant: the offset in the first page is forgotten
  (r.size + PageBytes - (r.size % PageBytes)) \div PageBytes

PartialPages(r) ==
  LET rounded == r.size + PageBytes - (r.size % PageBytes)
      offset  == r.address % PageBytes
  IN  (IF offset + r.size > rounded THEN rounded + PageBytes ELSE rounded) \div PageBytes

MapPartial(r) ==
  LET frame == r.address \div PageBytes
  IN  /\ pc = "idle" /\ pc' = "map"
      /\ job' = [at |-> Half + frame, frame |-> frame, flags |-> r.flags,
                 pages |-> 1, left |-> PartialPages(r)]
      /\ wanted' = [first |-> Half + frame, frame |-> frame, flags |-> r.flags,
                    last |-> Half + (r.address + r.size - 1) \div PageBytes]
      /\ UNCHANGED <<given, ttbr, tables, why, walk, tlb>>

MapMemory(r) ==
  /\ pc = "idle" /\ pc' = "map"
  /\ job' = [at |-> r.at, frame |-> r.frame, flags |-> r.flags, pages |-> r.pages, left |-> r.count]
  /\ wanted' = [first |-> r.at, last |-> r.at + r.count * r.pages - 1,
                frame |-> r.frame, flags |-> r.flags]
  /\ UNCHANGED <<given, ttbr, tables, why, walk, tlb>>

-----------------------------------------------------------------------------
(***************************************************************************)
(* What the processor makes of a page: the entry it finds in the tables in *)
(* force.  It may cache any translation at any time, also on its own       *)
(* account; tlb is one of them, whichever.                                 *)
(***************************************************************************)
EntryOf(p) ==
  LET e1 == pool[p \div Half][Index(p, 1)]
      e2 == pool[e1.to][Index(p, 2)]
      e3 == pool[e2.to][Index(p, 3)]
      e4 == pool[e3.to][Index(p, 4)]
  IN  IF e1.kind = "none" \/ e2.kind = "none" THEN Blank
      ELSE IF e3.kind = "table" THEN e4 ELSE e3

Translate(p) ==
  LET e == EntryOf(p) IN
  IF e.kind = "none" THEN <<>>
  ELSE <<e.to + (IF e.kind = "block" THEN p % Entries ELSE 0), e.flags>>

Covers(leaf, p) == p \in leaf.at .. (leaf.at + leaf.pages - 1)

TranslateByBoot(p) ==
  LET cover == {leaf \in boot : Covers(leaf, p)} IN
  IF cover = {} THEN <<>>
  ELSE LET leaf == CHOOSE l \in cover : TRUE IN <<leaf.frame + (p - leaf.at), leaf.flags>>

InForce(p) == IF ttbr = "boot" THEN TranslateByBoot(p) ELSE Translate(p)

Cache(p) ==
  /\ pc # "panic" /\ tlb = <<>> /\ InForce(p) # <<>>
  /\ tlb' = <<p, InForce(p)>>
  /\ UNCHANGED <<given, ttbr, tables, pc, why, walk, call>>

-----------------------------------------------------------------------------
InitStep == InitRefuses \/ StartWalk \/ OpenRange \/ ExtendRange \/ HugeLeaf
            \/ SkipMissing \/ MapRange \/ DropRange \/ LoadTables

MapStep == MapRefuses \/ AddTable \/ OutOfPool \/ BlockInTheWay \/ SetEntry \/ EntryExists \/ MapReturns

UnmapStep == SkipPage \/ UnmapAsserts \/ ClearEntry \/ UnmapReturns

Next == \/ InitStep \/ MapStep \/ UnmapStep
        \/ \E r \in Areas : MapPartial(r)
        \/ \E r \in Mappings : MapMemory(r)
        \/ \E r \in Unmappings : UnmapRefuses(r) \/ UnmapMemory(r)
        \/ \E p \in Pages : Cache(p)

Spec == Init /\ [][Next]_vars

-----------------------------------------------------------------------------
(* Correctness.                                                            *)

Entry == [kind : {"none", "table", "page", "block"}, to : Nat, flags : SUBSET Flags]

(* Every variable stays in its type; the pool is never exhausted unnoticed. *)
TypeOK ==
  /\ boot \in BootTables /\ memmap \in MemoryMaps /\ supported \in BOOLEAN
  /\ ttbr \in {"boot", "kernel"} /\ used \in 0 .. (PoolSize - 1)
  /\ pool \in [0 .. (PoolSize - 1) -> [0 .. (Entries - 1) -> Entry]]
  /\ pc \in {"start", "walk", "map", "unmap", "idle", "panic"}
  /\ why \in {"none", "limine", "1GB", "aligned", "pool", "block", "exists", "assert"}
  /\ at \in 0 .. 2 * Half
  /\ range \in {NoRange} \cup [at : Pages, frame : Nat, flags : SUBSET Flags,
                               pages : {1, Entries}, count : Nat]
  /\ job \in [at : Pages, frame : Nat, flags : SUBSET Flags, pages : {1, Entries}, left : Nat]
  /\ wanted \in [first : Pages, last : Int, frame : Nat, flags : SUBSET Flags]
  /\ tlb \in {<<>>} \cup (Pages \X (Nat \X SUBSET Flags))

(***************************************************************************)
(* When the roots are loaded, what the boot loader mapped in the higher    *)
(* half for a frame of a kept entry is mapped alike, whatever the lower    *)
(* half held; only a range that reaches the last page is lost.             *)
(***************************************************************************)
InKeptMemory(leaf) ==
  \E e \in memmap : e.kept /\ (e.base .. (e.base + e.length - 1))
                                \cap (leaf.frame .. (leaf.frame + leaf.pages - 1)) # {}

HigherHalfStaysMapped ==
  pc = "walk" /\ at = 2 * Half =>
    /\ Open => range.at + range.count * range.pages = 2 * Half
    /\ \A leaf \in boot : leaf.at >= Half /\ InKeptMemory(leaf) /\ (Open => leaf.at < range.at) =>
         \A p \in leaf.at .. (leaf.at + leaf.pages - 1) :
           Translate(p) = <<leaf.frame + (p - leaf.at), leaf.flags>>

(***************************************************************************)
(* Nothing is ever mapped in the lower half: what the boot loader mapped   *)
(* there turns up at the same indexes of the higher half, and during init  *)
(* nothing is there that is not such a leaf or one of the higher half.     *)
(***************************************************************************)
LowerHalfFolds ==
  /\ pool[0] = BlankTable
  /\ ttbr = "boot" => \A p \in Half .. (2 * Half - 1) :
       Translate(p) \in {<<>>, TranslateByBoot(p), TranslateByBoot(p - Half)}

(* Without a lower half, init cannot stop but for the boot loader or the pool. *)
InitMeetsNothing ==
  ttbr = "boot" /\ (\A leaf \in boot : leaf.at >= Half) => why \in {"none", "limine", "1GB", "pool"}

(* Init gives the kernel the higher half as the boot loader had it, and folds *)
(* the lower half into it, which alone can make it stop at what it has mapped.*)
InitFoldsHalves == HigherHalfStaysMapped /\ LowerHalfFolds /\ InitMeetsNothing

(***************************************************************************)
(* Between two calls the processor holds no translation that the tables in *)
(* force do not give: what was unmapped cannot be reached any more.        *)
(***************************************************************************)
CacheIsFresh == pc = "idle" /\ tlb # <<>> => Translate(tlb[1]) = tlb[2]

(* When mapPartial or mapMemory returns, every page asked for is mapped so. *)
AreaIsMapped ==
  Returned("map") /\ ~Misaligned /\ ttbr = "kernel" =>
    \A p \in wanted.first .. wanted.last :
      Translate(p) = <<wanted.frame + (p - wanted.first), wanted.flags>>

(***************************************************************************)
(* When unmapMemory returns, no page of the area is mapped, but for those  *)
(* in a block when it was asked for pages.  Blocks must be asked for at    *)
(* the address of one: the code asserts it, but only where it finds a      *)
(* table, and skips a missing one with pages of the next still mapped.     *)
(***************************************************************************)
OnlyBlocksRemain ==
  Returned("unmap") /\ wanted.first % job.pages = 0 =>
    \A p \in wanted.first .. wanted.last :
      Translate(p) = <<>> \/ (job.pages = 1 /\ EntryOf(p).kind = "block")

(* A call that returns has mapped or unmapped the whole area. *)
CallsDoAsAsked == AreaIsMapped /\ OnlyBlocksRemain

(***************************************************************************)
(* The tables are an address space: a page that has a frame keeps it until *)
(* it is unmapped, and is unmapped with the run it was mapped in.          *)
(***************************************************************************)
TheSpace == INSTANCE AddressSpace
              WITH translation <- [p \in Pages |-> Translate(p)],
                   RunLengths <- {1, Entries}, Frames <- Nat, Attributes <- SUBSET Flags

ImplementsAddressSpace == TheSpace!UnmappingSpec
=============================================================================
