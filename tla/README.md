# dvnetos: specifications, model checks and proofs

dvnetos is a small kernel in C++ that Limine boots on x86_64 and aarch64. One
processor runs it, with interrupts off, from `kmain` to `halt`. What is hard in
it is therefore less concurrency than state: a heap whose free list is threaded
through the memory it manages, page tables that are built while a walk over the
boot loader's tables is reporting them, and output that is needed before, while
and after things fail. What runs beside the kernel is hardware: a serial port
that empties its queue at its own pace, a processor that marks page table
entries and caches translations. Around the kernel there are two Python
programs that do run against other processes: the boot test and the warning
collector.

This directory holds the TLA+ modules that model it, the configurations TLC
checks, and the theorems TLAPS proves. `PROJECT.json` lists the runs, the
source lines every definition stands for, for every property a change of the
code that breaks it, and the hazards of the code with the properties that cover
them.

## The system

| part | source | state | operations |
|---|---|---|---|
| kernel heap | `kernel/memory/memalloc.*`, `get-page.cpp` | the free list, the statistics, the headers in memory | `alloc`, `free` (`kalloc`, `kfree`) |
| x86_64 page tables | `kernel/arch/x86_64/memory/paging.*` | the pool of tables, the root, cr3 | `init`, `mapPartial`, `mapMemory` |
| aarch64 page tables | `kernel/arch/aarch64/memory/paging.*` | the pool, two roots, ttbr0/1, the translation cache | the same, and `unmapMemory` |
| formatter | `kernel/utils/stdio.*` | the caller's buffer, the position in it | `kvsnprintf`, `ksnprintf`; `kprintf` of the console calls it too |
| panic | `kernel/utils/panic.*` | none; it uses the formatter and the console | `panic`, `panicf`, `dumpStack` |
| text console | `kernel/framebuffer/VirtualConsole.*` | character buffer, cursor, shape | `init`, `appendText`, `appendFormattedText` |
| framebuffer | `kernel/framebuffer/Framebuffer.*`, `font.h` | the pixels | `init`, `drawCharAt`, `textSize`, `getResolution` |
| aarch64 serial port | `kernel/arch/aarch64/serial/*` | buffer, `enabled`, the port's queue | `init`, `write` |
| x86_64 serial port | `kernel/arch/x86_64/serial/*` | none | `write` |
| SMBIOS | `kernel/smbios/*` | the pages it has mapped | `init`, `dumpTable`, `smbiosStructLen`, `getString`, `toString` of six structures |
| memory map | `kernel/memory/MemMap.*` | none | `init` |
| strings and numbers | `kernel/utils/cstring.cpp`, `inttostring.cpp`, `bytes.cpp` | none | pure functions |
| `kmain` | `kernel/main.cpp` | none | the order of the boot |
| boot test | `image/kernel-boots.py` | the QEMU process, the log read so far | `start_qemu`, `wait_for_output`, `shutdown`, `__exit__` |
| warning collector | `tools/src/warningcollector` | two pipes, the warning being read, the list | `ProcessRunner.run`, `collect`, `merge` |
| generator, headers, build | `tools/enumToString.py`, `kernel/include`, CMake | none | |

How they interact. `kmain` runs the constructors, then `VirtualConsole::init`,
`MemMap::init` (which prints the map and calls `Paging::init`), `Serial::init`
(which maps the page of the port and, if there is none, unmaps it),
`SMBIOS::init` (which maps the entry point, reads it, maps the table and prints
it), prints `start complete` and halts. Every `kprint` goes through
`appendText`, which serves the serial port first and the screen after it; every
`kprintf` formats into a buffer of 1024 bytes before that (the 512 bytes of
`dumpTable` are the buffer a structure's `toString` fills). A failed check or assertion
anywhere calls `panic`, which prints on that same path. The boot test waits for
`start complete` in the log of the serial line.

### What is hard, and what makes each part correct

* **Heap.** `free` merges by scanning the list from the start after each merge,
  while it also looks for the place by size; `alloc` splits, grows the pool by
  pages and retries. Correct: the blocks tile what `getPage` handed out, each
  block has one owner, free neighbours are merged, the statistics agree with
  the blocks, `alloc` takes a smallest block that fits, a client's block never
  overlaps another's, every call returns.
* **Page tables.** The walk cuts runs of leaves into ranges, the ranges are
  filtered by the memory map and mapped into new tables while the old ones are
  in force; then the root is switched in one instruction. Correct: what the
  kernel runs from stays where it was, nothing is mapped that was not, later
  calls map all of what they are asked for and never change what is mapped; on
  aarch64, what is unmapped is gone from the processor's cache as well.
* **Formatter.** Every store compares the position with the size in one of five
  ways, in `size_t`; callers chain `ksnprintf` calls at the result of the one
  before. Correct: inside the buffer is the beginning of the text and one zero,
  no store is outside, chains continue each other, a panic gives the console all its
  message. The code stores outside in one case; a panic is exposed to it, as it
  measures its message in two bytes.
* **Console.** Its shape comes from the framebuffer and the font, its buffer from
  a fixed resolution. Correct: the cursor is always in a cell, nothing is stored
  or drawn outside, the screen shows the last lines of all that was printed.
* **Serial port.** Text is kept until the port is found, the port is switched on
  between two texts, it empties its queue while `write` fills it, and a panic may
  come at any point, from `write` itself. Correct: what was printed arrives once
  and in order, all of it once the port is on, and a panic ends in `halt`.
* **SMBIOS.** The table is what the firmware left: structures of any version,
  strings behind them, a length of its own. Correct: the walk comes to every
  structure of a conforming table and to nothing else, only what a structure has
  is read of it, and a whole table is read in mapped pages only.
* **Boot test.** It waits for a socket, a connection, a line in a file and an exit,
  of a QEMU that may end or hang anywhere. Correct: success means that this guest
  printed its last line, a timeout that it had not, and QEMU does not outlive the
  test.
* **Warning collector.** It waits with `select`, reads with buffers `select` does
  not see, and stops when the compiler has ended. Correct: no line is lost, notes
  stay with their warning, equal warnings are counted once, `run` ends. The first
  and the last hold with the exceptions the properties name.

## The modules

| module | models |
|---|---|
| `Heap` | what a client expects of an allocator: disjoint claims on memory |
| `MemPool` | `memalloc.cpp`, pass by pass of its loops; implements `Heap` |
| `MemPool_proofs` | its theorems |
| `AddressSpace` | what a kernel expects of page tables: a page with a frame keeps it until it is unmapped |
| `PagingX86`, `PagingX86_proofs` | the x86_64 tables; implements `AddressSpace!Spec` |
| `PagingAArch64`, `PagingAArch64_proofs` | the aarch64 tables and the translation cache; implements `AddressSpace!UnmappingSpec` |
| `Stdio`, `Stdio_proofs` | `kvsnprintf` and its callers: `ksnprintf`, the chains of it in SMBIOS and `bytesToHumanReadable`, `kprintf`, `panic`, `panicf`, `dumpStack` |
| `Terminal` | what a terminal shows of a text |
| `VirtualConsole`, `VirtualConsole_proofs` | the console, with the framebuffer as its screen; implements `Terminal` |
| `Log` | a line whose reader receives what was printed, in order |
| `Serial`, `Serial_proofs` | the aarch64 port with `kmain`'s printing and `panic`; implements `Log` |
| `Smbios` | the walk over the SMBIOS table, and what is read of it |
| `KernelBoots`, `KernelBoots_proofs` | the boot test beside QEMU and its guest |
| `WarningCollector` | `collect` and `merge`, as operators on what is collected |
| `ProcessRunner`, `ProcessRunner_proofs` | `run` beside the compiler; extends `WarningCollector` |
| `MC...` | the instances for TLC |

### How state and actions correspond to the code

**MemPool.** `freeBlocks` is the linked list in link order, `size` the header at
each address, `handed` what `getPage` returned; `sizeInUse`, `sizeFree`,
`allocCount` and `freeCount` are the members of that name. `AllocCall`,
`TakeWhole`, `TakeAndSplit`, `Grow` and `AllocFails` are `alloc`; `Pass`,
`Merge`, `Rescan` and `FreeDone`/`GrowDone`/`SplitDone` are the scan of
`addFreeBlock` for each of its three callers; `LinkOverrun` is the store of a
link that does not fit, after which memory is no longer what the model says and
the behaviour stops (`pc = "smashed"`). `live`, `asked` and `dropped` are the
clients' side. Sizes and addresses wrap at `SizeLimit`.

**PagingX86, PagingAArch64.** Addresses are counted in pages; a table has
`Entries` entries and there are four levels of them; `Span` is what one entry of
a level covers, `PageCount` the address space (on aarch64 there are two such
halves). `boot` is the set of leaves of the boot loader's tables;
the walk (`at`) visits them in order, `range` is `currentBlock`, `OpenRange`,
`ExtendRange`, `MapRange` and `DropRange` are the two callbacks, `SkipMissing`
stands for any number of missing entries. `pool` and `used` are `initialPool`
and `initialPoolUsedCount`. On x86_64 a step of `mapMemory` is one level of the
descent (`Descend`, `AddTable`, `SetEntry`, `HugeInTheWay`); on aarch64 the
descent is the operator `Path` and a step is a new table or a page. `Access` is
the processor setting the accessed bit; `Cache` is it caching a translation.

**Stdio.** A format is a sequence of directives, each of which yields a number of
characters; what is formatted is told apart only by its place in the text.
`Stores` and `Terminator` keep the comparisons of the code as they are, `First`
and `Further` are the chain of SMBIOS's `toString`, `Separate` is the blank
`bytesToHumanReadable` puts over the zero before it formats the rest, `Kprintf`
with `AppendText` the console's call. A panic is `Measure` (`panicf`'s pass into
two bytes), `Retry` (the pass into a buffer of the length found), `ReportMessage`
or, from `panic`, `Panic` (file, line and message formatted into `kprintf`'s
buffer, `ReportText`), `DumpFrame` for each return address, and `Halt`.

The buffers are on the stack. A store outside one is undefined behaviour, so a
step that makes one has two outcomes: nobody used those bytes and the call goes
on, or the frame is lost and nothing is known any more (`pc = "smashed"`, where
the behaviour stops, as in MemPool). On aarch64 what `kprintf` hands on may meet the
assertion in the serial port's `write`, a panic inside the panic: this model stops
there (`"asserted"`), and Serial has what follows.

**VirtualConsole.** `buffer`, `cursorX`, `cursorY`, `lineLength`, `lineCount`,
`initComplete` are the members of that name; `Stay`, `Wrap`, `Scroll` are a
character, `UpdateScreen` the drawing at the end of `appendText`. `Pixels` is
where `drawCharAt` puts the glyph of a cell, in words from the start of the
framebuffer; a resolution is a width, a height and the words of a line, which
may be more than the width.

**Serial.** A character is its number in what was printed, so order, loss and
duplication are visible. `WriteToPort`, `WriteToBuffer` and `WriteAsserts` are
`write`; `PortFound`, `Enable` and `PortAbsent` are `init`; `SendChar` is one
turn of the loop with its busy wait, `Transmit` the hardware. The panic actions
are `panic` and `dumpStack`, nested when they fail themselves.

**Smbios.** `table` is the memory the firmware left, byte by byte. `NoEntry` and
`MapTable` are `init`; the entry point, which is mapped and read before the
table, is taken to lie in pages of its own. A round of `dumpTable`'s loop is
`Visit` (the reads of `toString`) and `Advance` (`smbiosStructLen`). `Fields`
gives, for every type, the offsets that `toString` reads, with its conditions on
`length` as they are; `StringAt` is `getString`. A round that reads a page which
is not mapped ends in `"fault"`, the `kpanic` for unknown units in `"panic"`. The
text is left out.

**KernelBoots.** Every `await`, call and test of the program is a value of `pc`;
`raising` is the exception on its way to the `finally` of `main`. `Bind`,
`Listen`, `End`, `Hang` and `GuestPrints` are QEMU and the guest, which writes its
last line whole or in two pieces. Time is the number of turns that sleep. A log
and a socket of an earlier test may be there at the start.

**ProcessRunner, WarningCollector.** `output` is all a pipe has carried; `fetched`
and `taken` divide it into what `readline` returned, what Python's buffer holds
and what is in the pipe. `Select`, `ReadLine`, `ReadRest`, `ReadNothing`, `Poll`,
`Report` and `ReportFails` are `run`, `Fetch` is the buffer being filled; `Write`,
`WaitForRoom`, `WriteNow`, `Close` and `Exit` are the compiler. `recs` is every
warning and note in the order of creation, with the one it belongs to.

## What the runs check

`tlc -config X.cfg M` checks each; together they take some nine minutes on two
cores. Deadlock is not checked where the system really stops: in `halt`, in a
panic, after memory was overrun, or where the text or the requests of the
instance are used up.

| run | module, cfg | question | bounds, and why they are enough |
|---|---|---|---|
| `mempool` | MCMemPool, MemPool.cfg | Is the heap a heap, and is its own bookkeeping right in the middle of every loop? | Two pages of eight bytes, in either order, adjacent. Header and link take two bytes, the sizes are nothing, less than a header, one that leaves a tail smaller than a link, one that needs two pages and one that wraps around. Several blocks fit, so lists of several blocks, merges on both sides and across pages, and growth by one or two pages all happen. |
| `mempool_used` | MCMemPool, MemPoolUsed.cfg | Is nothing in use when all was freed? No. | the same |
| `paging_walk` | MCPagingX86, PagingWalk.cfg | Does the kernel survive the load of cr3? | Two entries to a table, four levels, sixteen pages. 2594 sets of leaves on both sides of the canonical hole and at the end of the address space, small and huge, with frames and flags that continue those before or do not, and one 1 GiB leaf; two memory maps. |
| `paging_areas` | MCPagingX86, PagingAreas.cfg | Do later calls map what they are asked for and leave the rest alone? | Ten areas, in pages of three bytes, so that an area begins inside a page, ends at its end, or needs the extra page; in any order and repeated, with the accessed bit set at any time; a pool that runs out. |
| `paging_aarch64` | MCPagingAArch64, PagingAArch64.cfg | The questions of both on aarch64, with two halves, unmapping and the translation cache. | 131 sets of leaves: a lower half that is empty, continues into the higher half, in one range that the memory map keeps or in one it drops, or collides with it. Two areas, the port's page, blocks that are aligned or not, five unmappings (of pages, of blocks, of what is not there, not aligned); any one translation is cached at any time. A pool that runs out. |
| `stdio_formats` | MCStdio, StdioFormats.cfg | Does the formatter keep to its buffer? | Every format of at most three directives of eight kinds, in buffers of 1, 2, 4 and 6 bytes, chained up to the end, with and without a blank: a directive begins inside, at the last byte and behind the buffer, in each combination. `kprintf`'s buffer is ten bytes, so texts fit it, fill it and are cut; every format of two directives is a message of `panic` and `panicf`, from two places, with up to two frames on the stack. |
| `stdio_overflow` | MCStdio, StdioOverflow.cfg | Does `ksnprintf` stay inside? No. | the formats of `stdio_test.cpp` |
| `console` | MCVirtualConsole, Console.cfg | Does the screen show the last lines of the text, and are its pixels in the framebuffer? | Six framebuffers, among them a single cell and one larger than the buffer, three with lines longer than their width; eight characters with newlines anywhere, so that lines fill up exactly and the screen scrolls twice. |
| `serial_log` | Serial, SerialLog.cfg | Does what was printed arrive? | A buffer of eight characters, a queue of three, texts of one, two and four: the buffer fills up exactly and overflows, the queue fills up in the middle of a text; a panic at any point, its message of three, two frames, three panics inside each other. |
| `smbios` | MCSmbios, Smbios.cfg | Is the table walked as it is? | 557 tables: every type that is printed and two that are not, in the lengths of several versions of SMBIOS and in between, alone, among others, at and across the edge of a page, in memory of zeros or of other bytes; without an end, cut off, with strings missing. The sixteen-bit length wraps at 128, so longer tables are walked in part. |
| `boot_test` | KernelBoots, KernelBoots.cfg | Is the verdict true, and does all of it end? | Three turns until the timeout, three lines before the last; QEMU ends or hangs at any point, its socket binds before it listens, leftovers of an earlier test. More turns or lines repeat these. |
| `warning_collector` | MCProcessRunner, ProcessRunner.cfg | Is every line collected, and does `run` end? | Pipes of two, reads of two, so pipes fill up and a buffer holds several lines; two pieces on one pipe (a warning, an unfinished line), three on the other (warnings, notes, indented notes, continuations, text), in every order. |

A run's property may be a conjunction of named parts; `mutants` in
`PROJECT.json` then has a change of the code for at least one of them.
`BlocksPartition` is `OneOwner` and `Tiling`; `FreeListServes` is `Coalesced` and
`BestFit`; `CallsAreServed` is `GrowthServes` and `CallReturns`;
`InitIsFaithful` (x86_64) is `KernelStaysMapped`, `NothingInvented` and
`InitNeverConflicts`;
`InitFoldsHalves` (aarch64) is `HigherHalfStaysMapped`, `LowerHalfFolds` and
`InitMeetsNothing`; `CallsDoAsAsked` is `AreaIsMapped` and `OnlyBlocksRemain`;
`TextContinues` is `HoldsPrefix`, `PiecesChain`, `WholeMessageReported` and
`OnlyMeasuringSmashes`;
`PanicHaltsOrBufferFull` is `OverflowMeansFull` and `PanicEnds`; `WholeTableIsWalked` is
`WalkMeetsItsStructures` and `WholeTableNeverFaults`; `VerdictIsTrue` is
`SuccessMeansBooted` and `TimeoutMeansLate`; `TestAndQemuEnd` is `TestEnds` and
`QemuEndsWithTheTest`.

### Fairness

In the kernel, liveness is claimed for `CallReturns`, `KernelGoesOn`,
`PanicHalts`, `PrintedArrives` and `PanicEnds`, under weak fairness of the steps
of the running call (`Step`, `InitStep \/ MapStep`, `Kernel`). The kernel is a
single thread and interrupts are off, so a step that can be taken is taken;
nothing is assumed of the clients, who may stop calling. `PrintedArrives` needs
weak fairness of `Transmit` besides, that is, a port that transmits what it has
accepted: the busy wait of `write` has no limit and rests on it.

`RunEnds` assumes that `run()` and the compiler are both scheduled, and that the
compiler writes, closes its pipes and exits when it can (`Compiler`); a compiler
that never ends keeps `run()` for ever, by design. `TestEnds` and
`QemuEndsWithTheTest` assume that the test is scheduled (`Test`), that QEMU comes
up unless it has hung or ended (`Bind`, `Listen`), and that a process that was
sent SIGKILL ends; nothing else is assumed of QEMU or the guest, which may hang or
stop at any point. `TestEnds` therefore has an exception, a test that stays in
`WaitsWithoutLimit` for ever: in the wait for a socket that no QEMU will create, or
in a call to a QEMU that has accepted the connection and hangs.

## What is proved

TLAPS checks these for every value of the constants that satisfies the named
assumptions (`MemPoolAssumption`, `PagingAssumption`, `AArch64Assumption`,
`StdioAssumption`, `ConsoleAssumption`, `SerialAssumption`, `BootAssumption`, and
`RunnerAssumption` with `WarningAssumption`); TLC evaluates the assumptions on
every run. What they ask of the environment is what the code relies on: that the
boot loader's leaves are aligned and do not overlap, and that no caller of
`mapPartial` asks for ACCESSED or DIRTY (`PagingAssumption`), that what is mapped
and unmapped is in the direct map or elsewhere in the higher half, as the calls in
`Serial.cpp` and `smbios.cpp` have it (`AArch64Assumption`), that a line of the
framebuffer has at least as many words as pixels (`ConsoleAssumption`), and that no
text is as long as the address space, since its length and its zero are counted in a
`size_t` (`StdioAssumption`).

* **MemPool.** `TypeCorrect`, `BlocksPartitionMemory` (from `BlocksHaveOneOwner`
  and `BlocksTile`), `FreeListIsSound` (from `FreeListCoalesced` and
  `AllocIsBestFit`), `OverrunIsOfSplit`, `GrowthIsEnough`, `StatisticsAgree` and
  `PoolImplementsHeap`: all its safety properties. The inductive invariant `IInv` adds to the
  properties what the loops keep while they run: `Control` says which locals the
  running call has set; `Covering`, with `NoOverlap`, says that the extents of the
  blocks, the one being split counted at its future size, cover what was handed
  out; `LinkFits` that only the tail of a split may lack room for a link;
  `Ordered` that the list is in order of size; and `Scanned` what a scan that has
  merged nothing knows of the blocks it has passed: none touches the new one, and
  `addAt` is its place. Coalescing alone is not inductive: inserting a block keeps
  it only because of `Scanned`, and the place is right only because a merge
  starts the scan again. There is one lemma per action. `PoolImplementsHeap`
  maps a block to the claim of its client; `Served` and `Layout` make a new claim
  disjoint from every other. `GrowthIsEnough` has an invariant of its own, on
  the block that was just grown. So has `StatisticsAgree`: `Stats` says in the middle
  of every loop that `sizeFree` is the sum over the list, that `sizeInUse` is the sum
  over the blocks of clients, those dropped and the one being split, and that the two
  counters differ by the blocks not given back, modulo their width (`Balance`). `SumTakes` and `SumAdds`, on
  taking one element out of a sum and putting one in, are what its steps rest on;
  merging two neighbours keeps the sum of the pair.
* **PagingX86.** `TypeCorrect`, `TablesAreATree`, `TablesAreAnAddressSpace`,
  `InitFaithful` and `AreaMapped`: all five of its safety properties, for tables
  and pools of any size, all tables a boot loader may leave and all areas.
  `IInv` has, besides the types: links lead to later pages of the pool and no
  two to the same (`LinksDown`, `LinksUnique`), pages not taken yet are blank, an
  entry that is not present is all zero, and what a level may hold is there only
  (`Shape`); every table but the root is linked to (`Linked`); the descent stands
  where the root leads for its page (`OnPath`); only the table it stands in may
  be empty (`Filled`); huge pages are aligned (`Aligned`). The tree alone is not
  inductive: without `OnPath` and `NoneIsBlank` a link could be written over one
  that is in use. Everything about translations rests on one lemma,
  `SameTableSameWay`: descents for two pages that are at the same table have come
  there at the same level by the same indexes. From it follows what writing one
  entry does to the descents of all pages (`PathsKept`, `PathsOld`), so that a new
  table changes no translation, a new leaf those of its pages only, and the
  accessed bit none; so every step is one of `AddressSpace` or a stutter. That
  indexes are the digits of a page number, and that a huge page is the pages that
  differ in the last one, is proved from division (`IndexesAreDigits`,
  `BlockOfPages`).
  `InitFaithful` adds `WInv`, on the walk: from the open range's first page, or
  from what is left of the range that is being mapped, to the walk's next page
  there are leaves without a gap, with one size, one set of flags and consecutive
  frames (`RangeOfLeaves`, `JobOfLeaves`); from the first page that is not
  settled on nothing is mapped (`Ahead`), and what is to be mapped before it is
  (`Behind`). That `mapMemory` meets neither an entry nor a huge page during init
  needs `Filled` again: a table in the place of a huge page would hold a page the
  walk has not come to. `AreaMapped` adds `Serves`: what `mapMemory` has behind it
  is mapped as asked, and the pages behind and the turns left add up to
  `PartialPages`, or a huge page is at the page it is at. `LastIsCounted` is the
  arithmetic of `mapPartial`: the pages it counts reach the area's last byte,
  for every address, size and page size.
* **PagingAArch64.** `TypeCorrect`, `CacheFresh`, `TablesAreAnAddressSpace`,
  `CallsServed` and `InitFolds`: all five of its safety properties, for tables and
  pools of any size and all tables a boot loader may leave. `IInv` has the shape of a pool
  with two roots, the first two pages (`Shape`), and which tables are in force at
  which point (`TablesInForce`). A table may be empty here, as `unmapMemory` clears
  entries and keeps tables, so there is no counterpart of `Filled`. What the
  processor sees of a page of the higher half is the entry its path ends at, and of
  the lower half nothing (`Seen`); the loops of the code reach for every page the
  entry of the page of the higher half with its indexes (`Fold`). `LeafWrittenShows` says what writing the
  entry a path ends at does to every page. `CacheIsFresh` is inductive only with the call's
  end: no turn of a loop reaches `"idle"` but through `Return`. `CallsServed` adds
  `Serves`, for both calls: the pages behind are mapped as asked, or gone, and those
  ahead reach the end of the area. Its proof showed that `OnlyBlocksRemain` had said
  too much (see below).
  `InitFolds` adds `WInv`, on the walk. `RangeOfLeaves`, `JobOfLeaves` and `Behind`
  are those of x86_64, `Behind` for what the higher half has. Nothing is ahead of the
  walk only if the lower half is empty (`Ahead`); otherwise its leaves are there
  already, folded, and the walk may meet them: it then writes the translation that is
  there or panics, so `Behind` lasts, and what is mapped is a leaf of the page or of
  its like in the lower half (`Folded`). That init without a lower half never meets an
  entry needs `TablesHold`, which takes the place of `Filled`: while init runs a last
  table holds a page or is about to, so none stands where a block is to be written.
* **Stdio.** `FormatTypes`, `OnlyLateFieldsStoreOutside` and, for the four parts of
  `TextContinues`, `BufferHoldsPrefix`, `PiecesStayInside`, `PanicReportsItsMessage`
  and `OnlyMeasuringOverruns`: all its safety
  properties, for formats of any length, buffers of any size and stacks of any
  depth. The
  invariant says that all stores so far cover the buffer up to `j` or to its end
  (`Filled`), that the pieces of a chain begin where the one before ended
  (`Chained`), and that a finished text has its zero (`Ended`). `Told` ties it to the
  format: `j` is where the directive at hand begins (`Printed`), something was stored
  outside if and only if one of the directives so far had to begin inside and did
  not, and only then can a frame be lost (`Escaped`), `panicf`'s second buffer is as
  long as the message and its zero (`Measured`), and what follows is the report of
  that message, or a frame, in `kprintf`'s buffer (`Reported`). That a second pass
  and a report are never late rests on the assumption that file and line fit
  `kprintf`'s buffer, and on lengths that are not negative. These theorems say
  nothing of a behaviour behind `"smashed"`.
  That every format has such beginnings, each behind the one before by its length, is
  `StartsFollow`.
* **VirtualConsole.** `CursorInCell`, `NeverOutside` and `ConsoleImplementsTerminal`:
  all its properties, for every framebuffer, font and text. For the first two is
  needed that before anything is printed the cursor is at the
  origin, otherwise the shape that `init` sets could leave it outside. That the
  glyph of a cell lies in the framebuffer is a lemma of its own on products
  (`GlyphInFrame`), from the assumption that a line has at least as many words as
  pixels. The refinement maps the screen to the terminal's, which a fold over all that
  was printed gives. Its invariant `PInv` holds between two characters: what was put
  so far is all that was printed but for the rest of the current text (`Behind`), and
  the buffer has the last lines of it, with the cursor behind the last (`BufferShows`).
  `TypingWrites` says on which line one more character goes, and `StayPInv`,
  `WrapPInv` and `ScrollPInv` that the three ways of putting it show just that;
  `UpdateScreenShows` then has the picture of the buffer.
* **Serial.** `TypeCorrect`, `OverflowIsOfFullBuffer` and `SerialIsLog`. The
  invariant `Order` says that line, queue, text being sent and buffer are, one
  after the other, exactly what was printed; `Control` says which of them may be
  filled at which point of the program.
* **KernelBoots.** `TypeCorrect` and `VerdictCorrect`, for every timeout and every
  number of lines. `MarkerMeansBooted` is the heart: the log is emptied by the
  start of QEMU, so a last line in it is this guest's. `NotSeenYet`, that what was
  read holds no last line while the test still reads, and `TurnInTime` make a
  timeout mean what it says.
* **ProcessRunner.** `TypeCorrect`, `OnlyBehindTheOther`, `NotesFollow` and
  `WarningsAreCounted`: all its safety properties, for
  all pipes, reads, outputs and timings. `PassedWithoutLine` is what the first of these
  rests on: a pipe that was ready and gave no line in this turn is closed and read
  to its end. The others have an invariant of their own, `AllKept`, per stream: there
  is a record for every warning and note read, in their order (`Recorded`), a note
  read is kept with the warning before it (`NotesKept`), and `last` is the
  warning the next note belongs to, or the one still being read (`LastKept`); and the
  records that are in no other have each warning as often as it was read (`Tallied`).
  `MergeCounts` says what `merge` makes of such records: if the list has every text
  once, with its count, it has so again, with the counts added up. That an earlier file
  stays only when there was no warning needs `Tallied`'s second part: the first record
  is in no other, so a collector without warnings has no notes either.

**Induction over data** is not to be had from the library, whose induction theorems
take an operator as a parameter. What the proofs use in its place is that the finite
subsets of a set are well-founded under inclusion: of the subsets that are bad one is
least. From that come least and greatest elements (`LeastNatural`, `LastPlace`, for
`Min`, `Max` and the first line in a text), the uniqueness and then the existence of a
fold (`FoldsAgree`, `FoldExists`), and with them what the folds and recursive functions
of the models compute: sums over blocks (`SumTakes`), where the directives of a format
begin (`StartsFollow`), the lines of a text (`LinesGrow`) and the merged list
(`MergeCounts`). The modules that need these lemmas each have them.

### What is only model-checked

* Liveness under fairness: `CallReturns`, `KernelGoesOn`, `PanicHalts`,
  `PrintedArrives`, `PanicEnds`, `RunEnds`, `TestEnds`, `QemuEndsWithTheTest`. The
  prover has no rule for `ENABLED`, on which fairness rests.
* All of `Smbios`: `TypeOK`, `WholeTableIsWalked` and `ReadsAreOfTheStructure`. What
  they say is about bytes that `MCSmbios` lays out, type by type and version by version
  of SMBIOS; to prove it the layout would have to be an assumption on `Tables`, that
  is, most of what is to be shown about the walk.

## What was found

Two runs have a counterexample that is an execution of the code:

* `mempool_used`: `free` does not take back a block of fewer than eight bytes:
  it stays in `sizeInUse` for ever, against what the allocator's test expects.
* `stdio_overflow`: once the text has filled the buffer, `n - 1` is compared with
  a rest of zero, and further conversions are stored behind the buffer.

Properties that hold, but say something a reader may not expect:

* `OverrunOnlyFromSplit`: a split may leave a tail of one to seven bytes; putting
  it on the list writes an eight-byte link over the header behind it.
* `PanicHaltsOrBufferFull`: without a port the text of the run fills the buffer,
  the assertion of `write` prints on the path that failed, and panics nest until
  the stack is used up; `halt` is never reached.
* `OnlyLateFieldsEscape`: `panicf` measures its message in a buffer of two bytes, so
  a number, string or pointer that does not begin in the first two characters, as in
  most of the kernel's messages, is stored over its own frame: `va_list`, arguments,
  return address. What comes then depends on the compiler's layout, and no property
  promises anything of it. `OnlyMeasuringSmashes` says that this is the only way a
  panic can overrun a buffer; `WholeMessageReported` and `PanicHalts` hold of the
  panics whose frame survives. Of a report longer than 1023 characters the console
  gets the beginning.
* `MappedUpToHuge`: on x86_64 an area that meets a huge page is left unmapped from
  there on, without a message; aarch64 panics. `KernelGoesOn` counts a panic as an
  end, and there is one that is uncalled for: mapping a page exactly as it is
  mapped panics if the processor has used it since, because
  `setPageTableEntry` compares the accessed bit too.
* `LowerHalfFolds`: on aarch64 `higherHalfOffset` of the global object stays 0, so
  what the boot loader mapped in the lower half turns up in the higher half; with
  the base revision the kernel asks for, the lower half is empty.
  `OnlyBlocksRemain`: unmapping pages leaves a block that covers them; and
  unmapping blocks at an address that is not a block's asserts only where there is
  a table: a missing one is skipped, a block's length at a time, and pages of the
  next that belong to the area stay mapped (`paging.cpp:228-242`).
* `WalkMeetsItsStructures`: a table of 64 KiB or more is walked in part, as
  `dumpTable` takes its length in sixteen bits. `WholeTableNeverFaults` needs
  complete structures: `SystemInfo::toString` reads `sku` and `family`, and
  `getSocket` reads `socketType`, whatever the length says, and takes bytes of the
  strings for their numbers; and the scan for two zeros runs out of a table that
  is cut off. `ReadsAreOfTheStructure` holds with exactly these fields excepted.
* `LostOnlyBehindTheOther`: lines of the compiler can be lost, when it has ended
  between the last `select`, which reported only the other pipe, and `poll`.
  `RunEnds` has an exception: `readline` waits for the rest of a line while the
  compiler waits for room in its other pipe. `CountsAddUp`: a build without
  warnings leaves the file of an earlier one in place. `ReportFails`: a command
  without `-o` ends in a `TypeError` after the compiler did its work.
* `TimeoutMeansLate`: a timeout is true of what the test had looked at one turn
  before. It gives up without a last look, so a kernel that prints its last line while
  the test sleeps for the last time has reached the point in time, and is reported as
  one that has not. `TestEnds` has two exceptions: the
  wait for a socket nobody will create, and a call to a QEMU that hangs; ctest's
  limit of 120 seconds then ends the test without `__exit__`, and QEMU stays. A
  connection refused because the socket is bound and not yet listened on fails the
  test of a kernel that would boot, and an exception before QEMU was started is
  replaced by an `AttributeError` of `__exit__`: both end the test.

Where the code does what a hazard warns of, and nothing in the repository forbids
it, a property that the code satisfies can only say where the case begins and that
nothing else goes wrong. `PROJECT.json` lists such a hazard without a property, or
with those that cover its consequences, and says so in its note: the rest of an
area behind a huge page and the uncalled-for panic (x86_64), the truncated length,
the cut-off table and the fields without a length check (SMBIOS), the deadlock
inside a line and the file of an earlier build (warning
collector), the waits without a limit, the line during the last sleep and the
refused connection (boot test).

Read, and outside what a model says: `Framebuffer::init` takes
`response->framebuffers[0]` before it looks whether there is a response; its fill
stores `width * height` words where the lines may be longer;
`extendedFirmwareRomSize` is masked with `~0x3` where its unit is in the two high
bits.

## What is not modelled, and why

* The bits of a page table entry other than its kind, frame and flags; colours
  of pixels; wording. Digits of numbers (`inttostring.cpp`) and `memcpy`,
  `strlen` and the like (`cstring.cpp`): pure functions without state, whose
  every case a unit test reaches. `bytesToHumanReadable` is modelled for where it
  writes, not for what number it prints.
* The x86_64 serial port: one `outb` per character, no state, no wait.
* `MemMap::init` adds up and prints the boot loader's map and calls `Paging::init`;
  its entries are the memory maps of the page table instances.
* The report mode of the warning collector: a sequential loop over files.
* A serial port that stops for good, outside the fairness.
* On aarch64 the higher half is taken to begin at the direct map, which is where
  Limine puts it. The mapping of the SMBIOS entry point and of its table are
  taken to share no page (see the panic under `MappedUpToHuge`).
* The enumToString generator, the freestanding headers and the build: no
  behaviour at run time.

## Plan

Done, the most important first: the heap with its proofs; the x86_64 page
tables; the formatter and `panicf` with proofs; the console with proofs; the
serial port, the log and `panic` with proofs; the aarch64 page tables; the
warning collector; the boot test; SMBIOS; the blanks of `bytesToHumanReadable`
and the pixels of glyphs with their proofs.

Then the proofs of the boot test, of the warning collector, and of all safety
properties of the x86_64 and the aarch64 page tables.

Last the properties that need to know what a fold computes: the heap's statistics, the
length of formats, the refinement of the terminal, the counts of the merged list.

What is left: every safety property of a run is proved but those of `Smbios`. They need
an assumption on `Tables` that says how structures, their strings and their ends lie in
memory, weak enough to leave the walk something to show; a least zero behind an address
and the end of a scan are then least elements, as in the other modules.
