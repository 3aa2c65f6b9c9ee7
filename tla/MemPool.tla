------------------------------ MODULE MemPool -------------------------------
(***************************************************************************)
(* The kernel heap, kernel/memory/memalloc.cpp.  A block is a header that  *)
(* holds its size, followed by that many bytes; a free block keeps the     *)
(* link to the next free block in its first data bytes.  Blocks are named  *)
(* by the address of their header; address 0 is nullptr.                   *)
(*                                                                         *)
(* One step is one pass of a loop of the code, or the straight-line code   *)
(* between two loops.  The kernel is single-threaded: a call runs to its   *)
(* return before the next one starts.                                      *)
(***************************************************************************)
EXTENDS Integers, Sequences, SequencesExt, FiniteSetsExt

CONSTANTS
  PageSize,     \* PAGE_SIZE
  HeaderSize,   \* memBlockHeaderSize
  LinkSize,     \* sizeof(MemBlock::next)
  SizeLimit,    \* 2^w of size_t, for addresses and sizes
  CountLimit,   \* 2^w of the two call counters
  Sizes,        \* the sizes clients ask for
  Arena,        \* the addresses backed by memory
  PageAddrs     \* the addresses a getPage function may return

ASSUME MemPoolAssumption ==
  /\ HeaderSize \in Nat \ {0} /\ LinkSize \in Nat \ {0}
  /\ LinkSize <= HeaderSize
  /\ PageSize \in Nat /\ HeaderSize + LinkSize <= PageSize
  /\ SizeLimit \in Nat \ {0} /\ CountLimit \in Nat \ {0}
  /\ Sizes \subseteq 0 .. (SizeLimit - 1)
  /\ Arena \subseteq 1 .. (SizeLimit - 1)
  /\ PageAddrs \subseteq Arena

VARIABLES
  freeBlocks,   \* the free list in link order
  size,         \* the size in the header at an address; 0 where no block starts
  sizeInUse, sizeFree, allocCount, freeCount,   \* the statistics

  handed,       \* the addresses getPage has handed to the pool
  live,         \* the blocks clients hold
  asked,        \* the size each live block was requested with
  dropped,      \* the blocks free() was given and did not take

  pc,           \* "idle", "find" (in alloc), "add" (in addFreeBlock) or "smashed"
  from,         \* who called addFreeBlock: "split", "grow" or "free"
  req, try,     \* alloc's argument and loop counter
  block,        \* the block alloc is splitting
  cur, n, addAt, merged   \* addFreeBlock's block, scan position, place and flag

mem   == <<freeBlocks, size, handed>>
stats == <<sizeInUse, sizeFree, allocCount, freeCount>>
held  == <<live, asked, dropped>>
call  == <<from, req, try, block>>
scan  == <<cur, n, addAt, merged>>
vars  == <<mem, stats, held, pc, call, scan>>

End(b) == b + HeaderSize + size[b]      \* the address after the block

(***************************************************************************)
(* The initial pool: the member initialisers of MemPool.                   *)
(***************************************************************************)
Init ==
  /\ freeBlocks = <<>> /\ size = [a \in Arena |-> 0] /\ handed = {}
  /\ sizeInUse = 0 /\ sizeFree = 0 /\ allocCount = 0 /\ freeCount = 0
  /\ live = {} /\ asked = [a \in Arena |-> 0] /\ dropped = {}
  /\ pc = "idle" /\ from = "none" /\ req = 0 /\ try = 0 /\ block = 0
  /\ cur = 0 /\ n = 0 /\ addAt = 0 /\ merged = FALSE

-----------------------------------------------------------------------------
(***************************************************************************)
(* Entering and leaving.  addFreeBlock(b) starts a scan at the head of the *)
(* list with addAt = &freeBlocks (position 0); Return forgets the locals.  *)
(***************************************************************************)
AddFreeBlock(b, caller) ==
  /\ pc' = "add" /\ from' = caller
  /\ cur' = b /\ n' = 1 /\ addAt' = 0 /\ merged' = FALSE

Return ==
  /\ pc' = "idle" /\ from' = "none" /\ req' = 0 /\ try' = 0 /\ block' = 0
  /\ cur' = 0 /\ n' = 0 /\ addAt' = 0 /\ merged' = FALSE

AllocCount == allocCount' = (allocCount + 1) % CountLimit

Grant(b, s) ==
  /\ live' = live \cup {b} /\ asked' = [asked EXCEPT ![b] = s]
  /\ UNCHANGED dropped

AllocCall(s) ==
  /\ pc = "idle"
  /\ pc' = "find" /\ req' = s /\ try' = 0
  /\ UNCHANGED <<mem, stats, held, from, block, scan>>

-----------------------------------------------------------------------------
(***************************************************************************)
(* alloc.  Position i is the first block on the list with size >= req; the *)
(* loop looks twice.                                                       *)
(***************************************************************************)
FirstFitOfBlock(i) ==   \* mutant: the header counted as data
  /\ try <= 1
  /\ size[freeBlocks[i]] + HeaderSize >= req
  /\ \A j \in 1 .. (i - 1) : size[freeBlocks[j]] < req

FirstFit(i) ==
  /\ try <= 1
  /\ size[freeBlocks[i]] >= req
  /\ \A j \in 1 .. (i - 1) : size[freeBlocks[j]] < req

NoFit == \A i \in DOMAIN freeBlocks : size[freeBlocks[i]] < req

Splits(b) == size[b] > req + HeaderSize

RestNoHeader(b) == size[b] - req   \* mutant: no room for the tail's header
Rest(b) == size[b] - req - HeaderSize

(* The block fits closely: it is returned whole. *)
TakeWhole(i) ==
  LET b == freeBlocks[i] IN
  /\ pc = "find" /\ FirstFit(i) /\ ~Splits(b)
  /\ freeBlocks' = RemoveAt(freeBlocks, i)
  /\ sizeInUse' = sizeInUse + size[b] /\ sizeFree' = sizeFree - size[b]
  /\ AllocCount
  /\ Grant(b, req) /\ Return
  /\ UNCHANGED <<size, handed, freeCount>>

(* The block is larger: its tail becomes a block and goes back to the list;  *)
(* the head keeps its old size until that is done.                           *)
TakeAndSplit(i) ==
  LET b    == freeBlocks[i]
      next == b + HeaderSize + req
      rest == Rest(b)
  IN
  /\ pc = "find" /\ FirstFit(i) /\ Splits(b)
  /\ freeBlocks' = RemoveAt(freeBlocks, i)
  /\ size' = [size EXCEPT ![next] = rest]
  /\ sizeInUse' = sizeInUse + size[b] - (rest + HeaderSize)
  /\ sizeFree' = sizeFree - size[b]
  /\ block' = b /\ AddFreeBlock(next, "split")
  /\ UNCHANGED <<handed, allocCount, freeCount, held, req, try>>

(***************************************************************************)
(* Nothing fits: ask getPage, which the pool is constructed with.  It      *)
(* returns pages nobody has, or nullptr (the kernel's own always does).    *)
(* The sum wraps at the width of size_t.                                   *)
(***************************************************************************)
PagesUnrounded == ((req + HeaderSize) % SizeLimit) \div PageSize   \* mutant
Pages == ((req + HeaderSize) % SizeLimit) \div PageSize + 1

PageRun(base) == base .. (base + Pages * PageSize - 1)

Grow(base) ==
  /\ pc = "find" /\ NoFit /\ try <= 1
  /\ PageRun(base) \subseteq Arena \ handed
  /\ handed' = handed \cup PageRun(base)
  /\ size' = [size EXCEPT ![base] = Pages * PageSize - HeaderSize]
  /\ AddFreeBlock(base, "grow")
  /\ UNCHANGED <<freeBlocks, stats, held, req, try, block>>

(* getPage returned nullptr, or the loop has run twice: alloc returns nullptr. *)
AllocFails ==
  /\ pc = "find" /\ (try = 2 \/ NoFit)
  /\ Return
  /\ UNCHANGED <<mem, stats, held>>

-----------------------------------------------------------------------------
(***************************************************************************)
(* free.  A block smaller than a header is not taken back.                 *)
(***************************************************************************)
FreeAny(b) ==   \* mutant: small blocks taken back too
  /\ pc = "idle"
  /\ sizeInUse' = sizeInUse - size[b]
  /\ live' = live \ {b} /\ asked' = [asked EXCEPT ![b] = 0]
  /\ AddFreeBlock(b, "free")
  /\ UNCHANGED <<mem, sizeFree, allocCount, freeCount, dropped, req, try, block>>

Free(b) ==
  /\ pc = "idle" /\ size[b] >= HeaderSize
  /\ sizeInUse' = sizeInUse - size[b]
  /\ live' = live \ {b} /\ asked' = [asked EXCEPT ![b] = 0]
  /\ AddFreeBlock(b, "free")
  /\ UNCHANGED <<mem, sizeFree, allocCount, freeCount, dropped, req, try, block>>

FreeIgnored(b) ==
  /\ pc = "idle" /\ size[b] < HeaderSize
  /\ live' = live \ {b} /\ asked' = [asked EXCEPT ![b] = 0]
  /\ dropped' = dropped \cup {b}
  /\ UNCHANGED <<mem, stats, pc, call, scan>>

-----------------------------------------------------------------------------
(***************************************************************************)
(* addFreeBlock: a scan of the list that merges cur with every neighbour   *)
(* it meets, repeated until a scan merges nothing, then the insertion.     *)
(***************************************************************************)
TouchesAbove(a, b) == End(a) = b   \* mutant: one direction only
Touches(a, b) == End(a) = b \/ End(b) = a

Scanning == pc = "add" /\ n <= Len(freeBlocks)

MergeUnlinkingNothing ==   \* mutant: the neighbour stays on the list
  LET b == freeBlocks[n] IN
  /\ Scanning /\ Touches(b, cur)
  /\ sizeFree' = sizeFree - size[b]
  /\ size' = [size EXCEPT ![b] = size[b] + size[cur] + HeaderSize]
  /\ cur' = b /\ merged' = TRUE
  /\ UNCHANGED <<freeBlocks, handed, sizeInUse, allocCount, freeCount, held, pc, call, n, addAt>>

(* mergeIfPossible with removeFreeBlock: one block swallows the other's header. *)
Merge ==
  LET b    == freeBlocks[n]
      low  == IF End(b) = cur THEN b ELSE cur
      high == IF End(b) = cur THEN cur ELSE b
  IN
  /\ Scanning /\ Touches(b, cur)
  /\ freeBlocks' = RemoveAt(freeBlocks, n)
  /\ sizeFree' = sizeFree - size[b]
  /\ size' = [size EXCEPT ![low] = size[low] + size[high] + HeaderSize, ![high] = 0]
  /\ cur' = low /\ merged' = TRUE
  /\ UNCHANGED <<handed, sizeInUse, allocCount, freeCount, held, pc, call, n, addAt>>

(* No merge: cur belongs behind every block that is not larger. *)
Pass ==
  /\ Scanning /\ ~Touches(freeBlocks[n], cur)
  /\ addAt' = IF ~merged /\ size[cur] >= size[freeBlocks[n]] THEN n ELSE addAt
  /\ n' = n + 1
  /\ UNCHANGED <<mem, stats, held, pc, call, cur, merged>>

RescanForever ==   \* mutant: merged is not reset
  /\ pc = "add" /\ n > Len(freeBlocks) /\ merged
  /\ n' = 1 /\ addAt' = 0
  /\ UNCHANGED <<mem, stats, held, pc, call, cur, merged>>

Rescan ==
  /\ pc = "add" /\ n > Len(freeBlocks) /\ merged
  /\ n' = 1 /\ addAt' = 0 /\ merged' = FALSE
  /\ UNCHANGED <<mem, stats, held, pc, call, cur>>

AtInsertAtOnce == pc = "add" /\ n > Len(freeBlocks)   \* mutant: one scan
AtInsert == pc = "add" /\ n > Len(freeBlocks) /\ ~merged

LinkUncounted ==   \* mutant: sizeFree forgotten
  /\ freeBlocks' = InsertAt(freeBlocks, addAt + 1, cur)
  /\ sizeFree' = sizeFree

Link ==
  /\ freeBlocks' = InsertAt(freeBlocks, addAt + 1, cur)
  /\ sizeFree' = sizeFree + size[cur]

(* The rest of alloc after the tail of a split block is on the list. *)
SplitDone ==
  /\ AtInsert /\ from = "split" /\ size[cur] >= LinkSize
  /\ Link
  /\ size' = [size EXCEPT ![block] = req]
  /\ AllocCount
  /\ Grant(block, req) /\ Return
  /\ UNCHANGED <<handed, sizeInUse, freeCount>>

(* The next turn of alloc's loop after new pages are on the list. *)
GrowDone ==
  /\ AtInsert /\ from = "grow" /\ size[cur] >= LinkSize
  /\ Link
  /\ pc' = "find" /\ from' = "none" /\ try' = try + 1
  /\ cur' = 0 /\ n' = 0 /\ addAt' = 0 /\ merged' = FALSE
  /\ UNCHANGED <<size, handed, sizeInUse, allocCount, freeCount, held, req, block>>

(* The rest of free. *)
FreeDone ==
  /\ AtInsert /\ from = "free" /\ size[cur] >= LinkSize
  /\ Link
  /\ freeCount' = (freeCount + 1) % CountLimit
  /\ Return
  /\ UNCHANGED <<size, handed, sizeInUse, allocCount, held>>

(* The block is too small for its own link: writing it overwrites whatever *)
(* follows the block, and nothing is defined from here on.                 *)
LinkOverrun ==
  /\ AtInsert /\ size[cur] < LinkSize
  /\ pc' = "smashed"
  /\ UNCHANGED <<mem, stats, held, call, scan>>

-----------------------------------------------------------------------------
Step == \/ \E i \in DOMAIN freeBlocks : TakeWhole(i) \/ TakeAndSplit(i)
        \/ \E base \in PageAddrs : Grow(base)
        \/ AllocFails
        \/ Merge \/ Pass \/ Rescan
        \/ SplitDone \/ GrowDone \/ FreeDone \/ LinkOverrun

Call == \/ \E s \in Sizes : AllocCall(s)
        \/ \E b \in live : Free(b) \/ FreeIgnored(b)

Next == Call \/ Step

Spec == Init /\ [][Next]_vars

(* A call that has started keeps running. *)
FairSpec == Spec /\ WF_vars(Step)

-----------------------------------------------------------------------------
(* Correctness.                                                            *)

(* Every variable stays in its type; in particular no size goes negative. *)
TypeOK ==
  /\ freeBlocks \in Seq(Arena) /\ size \in [Arena -> Nat] /\ handed \subseteq Arena
  /\ sizeInUse \in Int /\ sizeFree \in Int
  /\ allocCount \in 0 .. (CountLimit - 1) /\ freeCount \in 0 .. (CountLimit - 1)
  /\ live \subseteq Arena /\ dropped \subseteq Arena
  /\ asked \in [Arena -> Nat]
  /\ pc \in {"idle", "find", "add", "smashed"}
  /\ from \in {"none", "split", "grow", "free"}
  /\ req \in 0 .. (SizeLimit - 1) /\ try \in 0 .. 2
  /\ block \in Arena \cup {0} /\ cur \in Arena \cup {0}
  /\ n \in Nat /\ addAt \in Nat /\ merged \in BOOLEAN

(* The blocks a call holds in its locals. *)
Splitting == IF from = "split" THEN {block} ELSE {}

InFlight == (IF cur = 0 THEN {} ELSE {cur}) \cup Splitting

Blocks == ToSet(freeBlocks) \cup live \cup dropped \cup InFlight

(* The data bytes of a block: what alloc will leave it with if it is being split. *)
Width(b) == IF b \in Splitting THEN req ELSE size[b]

Extent(b) == b .. (b + HeaderSize + Width(b) - 1)

(***************************************************************************)
(* A block is on the list once, or with a client, or dropped, or in the    *)
(* hands of the running call, and in no two of these places: the hazard is *)
(* a merge or an insertion that leaves a second link to a block.           *)
(***************************************************************************)
OneOwner ==
  /\ IsInjective(freeBlocks)
  /\ \A b \in ToSet(freeBlocks) : b \notin live \cup dropped \cup InFlight
  /\ live \cap dropped = {}
  /\ InFlight \cap (live \cup dropped) = {}
  /\ from = "split" => block # cur

(***************************************************************************)
(* The blocks, headers included, tile the memory handed out by getPage: no *)
(* two overlap and no byte is lost, also in the middle of a call.          *)
(***************************************************************************)
NoOverlap == \A a, b \in Blocks : a # b => Extent(a) \cap Extent(b) = {}

Tiling == NoOverlap /\ UNION {Extent(b) : b \in Blocks} = handed

(* Every byte of the pool has one block, and every block one owner. *)
BlocksPartition == OneOwner /\ Tiling

(***************************************************************************)
(* No two free blocks are neighbours in memory: addFreeBlock's scan merges *)
(* in both directions and across separate getPage results.                 *)
(***************************************************************************)
Coalesced == \A a, b \in ToSet(freeBlocks) : End(a) # b

(***************************************************************************)
(* The statistics agree with the blocks at every step: usedSize() counts   *)
(* what clients and dropped blocks hold and freeSize() what is on the list.*)
(***************************************************************************)
Accounting ==
  /\ sizeFree = SumFunctionOnSet(size, ToSet(freeBlocks))
  /\ sizeInUse = SumFunctionOnSet([b \in Arena |-> Width(b)], live \cup dropped \cup Splitting)
  /\ pc \in {"idle", "find"} =>
       (allocCount - freeCount - Cardinality(live \cup dropped)) % CountLimit = 0

(***************************************************************************)
(* alloc gives the smallest block that is large enough, because the list   *)
(* is kept in order of size by the place addFreeBlock inserts at.          *)
(***************************************************************************)
BestFit ==
  [][\A i \in DOMAIN freeBlocks : TakeWhole(i) \/ TakeAndSplit(i) =>
       \A j \in DOMAIN freeBlocks :
         size[freeBlocks[j]] >= req => size[freeBlocks[i]] <= size[freeBlocks[j]]]_vars

(* The free list stays what alloc's first fit relies on: in order, and of     *)
(* blocks that are as large as they can be.                                   *)
FreeListServes == []Coalesced /\ BestFit

(***************************************************************************)
(* The pages alloc asked for are enough: it misses after growing only when *)
(* the size it was asked for wraps around together with the header.        *)
(***************************************************************************)
GrowthServes ==
  pc = "find" /\ (try = 2 \/ (try = 1 /\ NoFit)) => req + HeaderSize >= SizeLimit

(***************************************************************************)
(* The link of a free block overruns it only after a split that left less  *)
(* than a link: free() drops the blocks that are too small, growing the    *)
(* pool makes none, and merging only enlarges.                             *)
(***************************************************************************)
OverrunOnlyFromSplit == pc = "smashed" => from = "split"

(***************************************************************************)
(* memalloc_test.cpp:42 and :78: when everything is freed, nothing is in   *)
(* use.  Violated by an allocation smaller than a header.                  *)
(***************************************************************************)
AllFreedNothingInUse == pc = "idle" /\ live = {} => sizeInUse = 0

(* Every call of alloc and free returns, or has written a link where there *)
(* was no room for it: the merge loop of addFreeBlock ends.                *)
CallReturns == pc # "idle" ~> pc \in {"idle", "smashed"}

(* A call returns, and alloc with a block whenever getPage gave it a page     *)
(* and the size does not wrap around.                                         *)
CallsAreServed == []GrowthServes /\ CallReturns

(***************************************************************************)
(* What clients see is the abstract heap: the data of the live blocks.     *)
(***************************************************************************)
Claims == {<<b + HeaderSize, asked[b]>> : b \in live}

TheHeap == INSTANCE Heap WITH claims <- Claims

ImplementsHeap == TheHeap!Spec
=============================================================================
