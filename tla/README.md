# Verification of the zion kernel

TLA+ modules, TLC configurations and TLAPS proofs for the x86 kernel in `src/`.
The kernel is small: it boots, sets up paging, a heap, interrupts and a timer,
prints, and waits in a loop. There is no documentation and there are no tests;
what the code promises is taken from its comments, its declarations and its
callers. Lines cited are lines of the source files.

## 1. Inventory

| part | state | operations | properties that make it correct |
|---|---|---|---|
| boot memory (`arch/x86/mm.c`, `heap.c`) | a virtual and a physical cursor | `mm_init`, the `arch_kmalloc` family, `heap_init` | extents never overlap; the two cursors stay in step; the heap starts behind everything handed out |
| kernel heap (`kernel/alloc.c`) | a list of areas with headers in the heap itself | `kmalloc`, `kfree`, with split and merge | live allocations are disjoint and inside the heap; every request returns; the list survives what clients store |
| bitset (`kernel/bitset.c`) | an array of words | `bit_set`, `bit_clear`, `bit_test`, `bit_find_first_free` | it is a set of numbers; nothing outside the array changes; the search finds the least free bit |
| paging (`arch/x86/paging.c`, `gdt.c`, `init.c`) | page tables, frame bitmap, current directory, CR3, the CPU's translation cache | the boot sequence, `page_get`, `page_frame_alloc`, `page_frame_free`, `virt_to_phys`, `kern_page_dir_clone` | bitmap and tables agree; no frame is used twice; software and CPU translate alike; the low mapping goes away |
| interrupts (`arch/x86/irq.c`, `idt.c`, `segment.s`) | handler table, two 8259 controllers, interrupt flag | `request_irq`, `irq_enable`, `irq_disable`, `irq_handler`, `isr_handler` | every interrupt is acknowledged where it must be and nowhere else; masks follow the calls |
| timer and delay (`arch/x86/timer.c`, `kernel/timer.c`, `jiffies.h`) | `jiffies`, the target of a delay | `timer_handler`, `delay`, the comparisons | a delay waits long enough, also over the wrap of jiffies, and ends |
| lists (`include/zion/list.h`) | `next` and `prev` of list_heads | add, delete, move, splice, walks | each list is a ring in both directions, and an ordered list of its entries |
| consoles (`kernel/console.c`) | the list of consoles, `early` | register, unregister, get | a lookup finds the latest console of an index; `early` agrees with the list |
| VGA terminal (`arch/x86/early_printk.c`, `lib/printk.c`) | text memory, cursor | setup, write | the screen shows the tail of the output; nothing is written behind it; an exception's report is readable |
| init and exit calls (`kernel/module.c`, `module.h`, `link.ld`) | two tables made by the linker | `do_initcalls_*`, `do_exitcalls_*` | every call once, in order; exits in reverse |
| formatting (`lib/vsprintf.c`) | none | `put_dec`, `number`, `string`, `pointer`, `vsprintf` | prints what C99 says; finds its arguments; its length is bounded by the format |
| numbers and strings (`lib/strtol.c`, `atoi.c`, `rand.c`, `string.c`, `ctype.c`) | a seed | pure functions on texts and memory; `gets` of `printk.c` is written like them | what is printed is read back; no byte too many is written; no overflow in `rand_r` |
| boot entry, descriptor tables (`boot.s`, `gdt.c`) | tables written once | straight-line code | (results appear as constants of BootMem and Paging) |
| main (`kernel/main.c`) | what it holds of the heap | allocates, stores, frees, prints, waits | what the CPU needs of the page directory survives it |

How the parts meet. `arch_main` runs the early init calls (which register the
VGA console), switches paging on with a static page directory and page table,
takes boot memory for the frame bitmap, gives the rest of the mapped region to the
kernel heap, takes the clone of the directory from that heap, enables interrupts, runs the
arch init calls (`timer_init` among them) and calls `main`, which allocates,
frees, prints and waits. There is one flow of control besides interrupts and
exceptions. An interrupt's handler returns; an exception's report is the last thing
that runs.

What is hard here: interrupts between any two instructions and spurious ones;
an exception in the middle of a character on its way to the screen; a translation cache
that the code does not invalidate; headers and client data in the same memory;
wrapping counters; loops without a bound; tables that only the linker sees
whole. `PROJECT.json` lists each of these under "hazards", at its line.

## 2. Modules

| module | models | abstract counterpart |
|---|---|---|
| `Allocator` | extents that never overlap | - |
| `BootMem`, `BootMemProofs` | `mm.c`, `heap.c` | implements `Allocator` |
| `KernelHeap` | `alloc.c`, word by word | - |
| `KernelMain`, `HeapProofs` | `KernelHeap` with `page_dir_clone` and `main` as its clients | - |
| `NumberSet` | a set of numbers with a least-missing search | - |
| `BitsetOps`, `Bitset`, `PagingProofs` | `bitset.c` | implements `NumberSet` |
| `Paging`, `PagingProofs` | `paging.c` with `BitsetOps` for the frames | - |
| `Clock` | time that passes and delays that last | - |
| `Interrupts`, `InterruptsProofs` | `irq.c`, `idt.c`, `segment.s`, `timer.c`, `delay` | implements `Clock` |
| `OrderedLists` | ordered lists of entries | - |
| `ListOps`, `Lists`, `ListProofs` | `list.h` | implements `OrderedLists` |
| `ConsoleRegistry` | the registered consoles, latest first | - |
| `Console` | `console.c` with `ListOps` | implements `ConsoleRegistry` |
| `Terminal`, `TerminalProofs` (`MCTerminal`) | `early_printk.c`, `putc`, the exception's report | - |
| `InitCalls` (`MCInitCalls`) | `module.c`, `module.h`, `link.ld` | - |
| `Startup`, `StartupProofs` (`MCStartup`) | `InitCalls` and `Console` together: what the init calls do to the console list | implements `ConsoleRegistry` |
| `Decimal` | `put_dec_trunc`, `put_dec_full`, `put_dec` | the digits, stated in the theorems |
| `Numbers` | `number` and the fetch of its argument | - |
| `Format` | `vsprintf`: parse, arguments, every conversion | `C99`: what the standard says of a directive |
| `Machine`, `Ctype` | the widths of the integers, C's division; `ctype.c` | - |
| `Strtol` | `strtol.c`, `atoi.c` | the numeral, stated in `Library` |
| `Strings` | `string.c`, `gets` | sets of bytes, stated in `Library` |
| `Random` | `rand.c` | `A * X mod M`, stated in the theorems |
| `Library`, `LibraryProofs` (`MCLibrary`) | one call of the library at a time, over `Format`, `Strtol`, `Strings`, `Random` | - |

State and actions, module by module:

* **BootMem.** `alloc_current`, `alloc_current_phys` are the cursors; `grants`
  records the extents. `arch_kmalloc` stands for the four wrappers (aligned or not,
  physical address wanted or not). The guard `alloc_current & 0xfffff000` holds of
  every address but those of page 0, so an aligned request skips a page even when
  the cursor is aligned: `NextPage` does so too.
* **KernelHeap.** `mem` is the heap's memory in words, a header is four of them, and
  each iteration of a loop is a step. `alloc` never looks at the free flag, the
  split never makes the old area smaller, and the merge clears the flag it
  should set; the model does the same. A client may store anything from
  `Data` in what it was given (`ClientWrite`), headers included.
* **KernelMain.** `stage` follows `kern_page_dir_clone`: the directory is requested,
  then cleared, filled and made current; after that `main` and other clients
  allocate, store and free in the same memory. `Tables` entries stand for the 1024,
  `KernelTable` for entry 768. `ints_only` remembers whether every request was for one word,
  `sizeof(int)`; `spans` remembers whether the head's area has held the whole heap all along
  without its end wrapping. Both are history, which nothing in the code reads.
* **Bitset.** Words are sets of bit positions. The array has one word behind it,
  which the loose bound `idx > len` lets an operation reach. `Asked` has the numbers that
  callers pass: those of the array, those of the word behind it, and some beyond, which are ignored.
* **Paging.** `pc` follows `arch_main`. `pages` and `bits` are the low page table
  and the frame bitmap, `kern` and `clone` the directories, `cr3` and `tlb` the
  CPU's side. The CPU may cache any translation it can walk (`Touch`) and forgets
  them when CR3 is loaded. After boot, client pages are freed and taken again, which
  leaves the cache as it is.
* **Interrupts.** `main` is where the kernel's main flow is, `intr` the handler that
  has interrupted it. `irr`, `isr`, `mask` are the controllers' registers. A read
  of the mask and the write that follows are two steps. `outb` takes its
  arguments in the order of `io.h`, which is not the order in which `irq_enable`
  and `irq_disable` pass them.
* **Lists.** Any sequence of legal operations (an entry is added only when it is in no
  list), and a `list_for_each_safe` walk whose body may delete.
* **Console.** Registration on the ring, the `early` pointer, the lookup.
* **Terminal.** Each store of `early_printk_write` is a step (a row of the scroll
  is one), so that `isr_handler` can come between any two; it starts its report with
  the position as it finds it. `setup` prints a screen of blanks over whatever the
  memory holds.
* **InitCalls.** The registered functions of each section are chosen in `Init`; the
  tables and the symbols are computed from them as `link.ld` says.
* **Startup.** An init call of a console's function is `console_register` of that
  console (`early_printk_init`), another one (`timer_init`) leaves the consoles alone;
  once `main` waits, consoles are registered, unregistered and looked up in any order.
* **Decimal, Numbers, Format.** Pure operators. A format is a sequence of characters, an
  argument list a sequence of words; `parse` takes a directive and the
  arguments of its stars, `converted` what it prints, `vsprintf` the whole text
  with what each `%n` stored. `C99` has the directives as a caller means them (`Spell` writes
  them, `Words` passes their arguments) and what the standard prescribes.
* **Strtol, Strings, Random.** Pure operators too: a text with a place in it, a memory
  from addresses to bytes (word stores before byte stores, as `memcpy` and `memset` do), a seed.
* **Library.** A call is chosen in `Init` and answered by the one action of its
  function; the properties relate the two.

Names are the source's where TLA+ allows it. Definitions preceded by
"mutated:" are forms of the definition below them with a plausible bug; the
specifications do not use them, they show that a property notices.

## 3. What TLC checks

| run | bounds | shows |
|---|---|---|
| `boot_memory` | pages of 4, requests of 1, 4, 6, room for 4 pages | `HeapClearOfGrants`, `GrantsUsable`; implements `Allocator` |
| `kernel_heap` | `KernelMain`: 32 words of heap, pages of 16, a directory of 12 words and two more live allocations of 1, 6, 27 or 30 words, 2 frees, stores of 29 and 30, addresses modulo 92 | up to the first free `FixedPlacement`; `UnalignedStaysInHeap` while the head's area spans the heap; `HeadIntact`, `NeverShrinks`, `DirectoryHolds` while requests are for single words, and `CallsReturn` while both hold |
| `kernel_heap_overlap` | two live allocations, nothing freed | violation, see below |
| `bitset` | 2 words of 3 bits and a word behind; calls with the numbers 0 to 11 | implements `NumberSet` |
| `paging` | 6 pages, 8 frames, 3 directory entries | `FramesKept`, `NeighbourUntouched`, `TranslationsAgree`, `LowMappingGone`, `FramesSuffice` |
| `interrupts` | the timer, a device on each controller, spurious interrupts, exceptions, jiffies modulo 8 | `InServiceClean`, `CascadeHeld`, `DelayReturns`; implements `Clock` |
| `irq_mask` | the timer and one device | violation, see below |
| `lists` | 3 entries, 2 lists | `RingsIntact`, `WalkIsComplete`; implements `OrderedLists` |
| `startup` | 3 consoles, 2 of one index, and `timer_init`, up to two in a section | `InitInOrder`, `LinkOrderDecides`, `EarlyIsFirst`; implements `ConsoleRegistry` |
| `exit_calls` | up to two calls in each section | violation, see below |
| `terminal` | a screen of 3 by 2, texts of 7 characters, a report of two lines | `ShowsTail`, `ReportReadable`, `Confined` |
| `library` | all flags, widths and precisions given every way, all qualifiers, 16 arguments at boundaries; sizes with 8 units; 20 bytes of memory, counts of -1 to 9; 63 seeds around the constants; up to 4 answers of `getc` | `FollowsC99`, `ReadsBack`, `LengthBounded`, `SizesRead`, `StringsExact`, `GetsConfined`, `IsLehmer` |

Four properties are conjunctions: `FramesKept` (the bitmap marks exactly the frames
in use, no two pages share one), and `RingsIntact`, `Confined` and `InitInOrder`, which
include the type invariants of their modules.

Why the bounds are enough. The heap is large enough for a head, the directory with more
entries than a header has words, a page boundary with an area behind it, requests that end
just in and just behind the heap, and small enough for the loops and the wrap of sizes
to be reached. The heap starts at 32, and the words clients store, 29 and 30, are the worst they can: a
merge that takes one for the address of the next area writes its `prev` into the flags
of the head, or into its size. Clients with larger requests than `main`'s do lose the head's magic that way, so `HeadIntact` and
`NeverShrinks` are about requests for single words. The
bitset has a word boundary, a word behind the array, and numbers beyond both. The pages are those of
both directories, the heap's first, and two whose frames come and go; there
are more frames than pages, as on the machine. Jiffies wraps many times in a run.
Two lists and three entries give every way in which two neighbours and a head can be
related. Seven characters fill the screen of six and scroll it once, newlines
scroll it several times. `LongMod` is 2^20: above the 100000 at which `put_dec`
starts its second round, and within TLC's integers; the generator's `A`, `Q`, `R` are chosen for
its `M` of 2^19 - 1 as those of `rand.c` are for 2^31 - 1, and `Kilo` is 8 so that the
units can overflow and need not. Memory has strings on either side of a word's length, at every
alignment. `LengthBounded` makes `printk_buf` a matter of adding up:
the longest format of the kernel (`irq.c:55`) has 32 characters of its own and four
pointers of eight digits, 64 of 128.

What is left out on purpose: the rate of the timer, the values of
most registers, the wording of what is printed. `CHECK_DEADLOCK FALSE` is used
where the system really stops or the bound ends the run: a finished boot, a
halted CPU, an exhausted bound of calls.

Fairness. `KernelMain!MainSpec` has weak fairness of the loops of `alloc` and `free`:
interrupt handlers do not use the heap, so what is begun runs to its end. `Interrupts!FairSpec` has weak
fairness of the timer's ticks and of a handler that has begun (interrupts are
disabled in it), and strong fairness of accepting a request that is
deliverable again and again and of the loop in `delay`, since a tick is a
millisecond (`HZ` is 1000) and an iteration a few instructions. `DelayReturns` lets an
exception end the wait: after one nothing returns.

### Where code and text disagree

With a run that finds the disagreement:

* `LiveGrantsDisjoint`: `alloc_area_split` never makes the area it splits smaller
  (`alloc.c:48`), and `alloc` does not look at the free flag. The next call takes
  the same memory.
* `MaskFollows`: `irq_enable` and `irq_disable` swap the arguments of `outb`
  (`irq.c:22`).
* `ExitInReverse`: the exit calls lie in sections called `.module"1".exit`, which
  `link.ld` does not gather; the tables are empty (`module.h:21`).

Met while modelling; the model behaves the same way, and the property named says
what is left:

* A page-aligned allocation is the address of the header that has just been
  written (`alloc.c:90`), not the "start of data" of `alloc.c:16`: `FixedPlacement`.
* A request larger than the heap is not always refused: the walk goes on into what clients
  made of the list, and a word of theirs can be the size it looks for (`alloc.c:81`).
  `UnalignedStaysInHeap` is about requests of at most the heap's size.
* Two unaligned allocations of one size make a header its own successor, and a later request that
  does not fit walks for ever (`alloc.c:81`) although callers test for NULL
  (`paging.c:263`); so does `kfree(NULL)`, which no area contains (`alloc.c:107`). `CallsReturn` is about `main`'s calls, which the head
  serves.
* As nothing is taken off the head's size, each `kfree` of a word adds to it (`alloc.c:62`); when
  the sum has wrapped, the head contains no address any more, and the next `kfree` walks a list that is a loop
  for ever. `spans` ends where that begins, and with it what `UnalignedStaysInHeap` and `CallsReturn` say.
* After "unmap the first 4mb of pages" (`init.c:28`) the CPU may still have the
  translations (`paging.c:209`); they are gone with the next load of CR3:
  `LowMappingGone`.
* `page_frame_free` invalidates nothing (`paging.c:68`): a free frame can still be reached
  through a cached translation, and a page that is freed and mapped again is translated one way by the
  CPU and another by `virt_to_phys`. `TranslationsAgree` is about the pages that no client frees.
* `console_unregister` leaves `early` as it is (`console.c:25`), so `putc` goes on writing to a console that is gone:
  `EarlyIsFirst` is about an `early` that is registered.
* Ticks that come before `timer_init` has installed its handler are acknowledged and lost (`init.c:36`);
  `Clock` allows that, and `DelayReturns` is about delays that begin once the handler is there.
* `vsprintf.c:383` says that it follows C99, but `%#x` of 0 prints `0x0`, `%05.3d` pads with
  zeros, `%.0d` of 0 prints `0`, `%#.3o` has its own digit count, a negative `.*` is 0
  instead of no precision, `ll` reads one word where a caller passes two, and NULL has
  its own texts. The extension `%pS` that `vsprintf.c:384` names prints no symbol: it is `%p`, and its suffix is
  skipped. `OwnRules` in `C99` lists these directives; on all others `FollowsC99` holds.
* `strtoul` takes a prefix over the base it is given (`strtol.c:10`), does not know `0X`, which
  `%#X` prints, and so reads it as 0; `ReadsBack` excludes that. `ustrtoul` applies a
  unit but reads past it only if an `i` follows (`strtol.c:50`): `SizesRead`.
* `atoi` multiplies in a signed long before it negates (`atoi.c:12`): the least int overflows.
* `strchr` compares a signed char with an int (`string.c:94`): a caller that asks for 200 does not find it,
  one that asks for -56 does; `StringsExact` is about the latter.
* `memcpy` and `memset` of a count below zero go on until the count has wrapped (`string.c:43`, `69`); nothing calls
  them so, and `Calls` has no such call.
* `getc` returns how many characters were read, not the character (`printk.c:13`); `gets`
  writes up to two cells behind the size it is given (`printk.c:27`): `GetsConfined`.
* `srand(0)` and `srand(M)` make `rand` return 0 for ever (`rand.c:31`): `IsLehmer`.
* `page_table_clone` stops with "failed" when `kmalloc` succeeds and goes on with NULL when it
  does not (`paging.c:239`); nothing reaches it.
* `main`'s aligned `kmalloc` (`main.c:12`) returns the address of the current page directory. Its
  store and the headers written there destroy the first four table pointers, and no more as long as
  all requests are single words: `DirectoryHolds`.

## 4. What is proved

All theorems hold for every value of the constants that the modules'
assumptions allow.

* **BootMemProofs.** `TypeCorrect`, `HeapNeverCoversBootData`,
  `PhysicalAddressesAgree`, `BootMemImplementsAllocator`. The inductive invariant
  adds to the properties that the cursors differ by `KERNEL_BASE` (`CursorsInStep`),
  that there is room below the heap's end, and that every extent lies below the
  cursor (`BelowCursor`): without the last, a new extent could not be told apart from
  the old ones.
* **PagingProofs**, first part: the bitset. `BitsetImplementsSet`. The lemmas
  say what each operation does to the set that the array stands for, that a number beyond the array changes
  nothing in it (`OutsideIgnored`), and that the search stops
  at the least missing number; the frame bitmap of the second part rests on the same ones.
  Second part: `PagingTypes`, `FramesAlwaysAccounted` (which states `FramesKept`), `FramesNeverRunOut`,
  `NeighbourStaysUntouched`, `LowMappingStaysGone`, `TranslationsAlwaysAgree`. The invariant adds what is mapped
  and marked at each stage of the boot loops (`Marking`, `BootMap`, `HeapPages`), which
  directories exist (`Directories`), and that once the clone is loaded only
  kernel addresses are cached (`CachedHigh`); for the cache of the kernel's own pages, that these stay mapped as at boot
  (`KernelMap`) and that every cached translation of one is that frame (`KernelCached`). That frames never run out is a
  counting argument: there are fewer pages than frames and no two share one.
* **InterruptsProofs.** `InterruptsTypes`, `NoLineStaysInService`, `CascadeAlwaysHeld`, and
  `DelaysAreExact`, the refinement of `Clock`. The invariant of the first three adds
  that no mask ever changes (`AllOpen`, which rests on the swapped `outb`), which line
  is in service at each point of the handler (`InService`), and that nothing is
  interrupted before `sti` (`Quiet`). The refinement's (`ClockInv`) adds that only line 0 has
  the timer's handler, and that a delay's target is passed by at most the ticks that came since
  `delay` last looked (`NotOverrun`): without it the signed difference could wrap and
  a delay that is over would begin again.
* **ListProofs.** `RingsStayIntact`, `WalksAreComplete`, `ListsImplementOrder`, for any finite sets of
  entries and heads. The invariant (`Holds`) gives each head a sequence of distinct entries, no
  entry in two, and says that `next` leads through it and `prev` back (`Ring`); one lemma for each kind of
  pointer surgery (`RingAdd`, `RingUnlink`, ...) says which sequence the ring holds afterwards, and that a
  ring whose cells a step does not write is as it was (`RingElsewhere`). Entries in no list may hold
  anything: deleted ones do. That the walk is complete needs where it stands in the list it began with, and that
  everything ahead of it that is still linked is still ahead (`Ahead`): its body may delete the entry it
  is at, not the one after.
* **StartupProofs.** `ConsolesAreARegistry`, `EarlyStaysFirst`, `InitCallsInOrder`,
  `LinkOrderAlwaysDecides`, for any consoles, indices and sections. It takes what `ListProofs` says of rings.
  The invariant of the consoles (`ConsolesKept`) is stronger than `EarlyIsFirst`: `early` has index 0 even
  when it is no longer registered, and while it is NULL nothing of index 0 is in the list, or a
  console that is registered later could find `early` behind it. The walk of `console_get` stops at the
  first match or at the head (`FirstStop`, `WalkFinds`). For the calls (`Progress`), between two loops as many have been made as
  the sections before hold, and in a loop the pointer stands behind the calls made; with the sections as the linker puts
  them together (`TableIs`) every symbol is where the one before it ends. `InLinkOrder` relates list and calls.
* **TerminalProofs.** `StoresAreConfined` (to the screen, but for the first character of an exception's report, which
  may land one cell behind it), for every size of the screen, every text and every report.
  The invariant says for each store where row and column can be: behind the last row only the first column
  is waited in (`Vertical`); behind the last column only the first character of an exception's report
  finds itself (`Horizontal`).
  `ScreenShowsTail` and `ReportIsReadable` compare the screen with paper, the rows of what was
  written as if there were room for all of them (`LinesAfter`). The invariant (`Shown`) says at
  each step of a character which rows of the paper each row of the screen shows: the cells stored and those yet to
  come, the rows a scroll has moved and those it has yet to, the cells the setup has blanked, and
  that the hardware's cursor follows. An exception begins a paper of its own, whose first row holds what
  was there (junk), in any of those steps; the one character it can lose is the one that finds a row
  full and not yet wrapped. The paper of a text with one more character is the old paper with it
  put on (`Onto`): `LinesAfter` is a recursive function, which is shown to exist by counting up
  from the empty text (`CountUp`).
* **HeapProofs.** `HeapStaysTyped` has no hypothesis: whatever headers and data do to each other,
  the heap's loops stay within its addresses or stop being the heap's (`wild`). The others say under what
  condition a part of the list survives.
  - `PlacementIsFixed` and `HeadUntilFree`: until the first free, if no page-aligned request is larger
    than the heap (`AlignedFits`; the kernel's are for a page and a word). The invariant
    (`Untouched`) is that the head is as `alloc_init` wrote it and
    leads behind its own data, so that every request the heap can hold is served where the walk
    begins. A larger aligned request walks on and writes a header where a client's word sends it.
  - `UnalignedInHeap`: frees included, as long as the head's area has spanned the heap (`spans`): whatever
    lies behind the head, the walk does not get there (`Spanned`). Splits leave the head's size and
    merges add to it; the wrap of `uint32_t` ends this, or a client's word that a merge takes for an area.
  - `DirectorySurvives`, `IntsKeepTheHead`, `IntsNeverShrinkIt`: while all requests are for
    single words, frees, merges and stores included. There are two places behind the head where a header can come to lie, the one a
    split for a word makes and the page's; clients store into neither's links (`Chain`), so
    the list never leads elsewhere, and the directory lies on the second from its fifth entry on (`Stages`).
    A free at most doubles the head's size (`Sized`). `HeapFits` asks that this many doublings fit
    the address space; on the machine a heap of less than 4 MB has room for ten. What TLC finds
    beyond that, at the wrap, is the second disjunct of `NeverShrinks`.
* **LibraryProofs.** `FullIsDecimal`, `TruncIsDecimal`: for every number below 100000
  the shifts and multiplications of `put_dec` give its decimal digits. The two
  approximations are exact up to 339 and 68 (`TenthIsExact`, `TenthOfSmallIsExact`), the sums
  of weighted nibbles stay below these (`Quotients`), and each quotient of the
  number by a power of ten is a multiple of ten plus the next sum.
  `NeverOverflows`, `RandIsLehmer`, `ZeroIsSeeded`, for every seed of the word and
  every `A` and `M` with `R < Q`, and from them `LibraryRandom`. Schrage's identity `A * X = (A * (X % Q) - R * (X / Q)) + M * (X / Q)`
  (`Schrage`) makes the difference congruent to the next value; both products lie in
  `0 .. M - 1` for a positive seed and in `-(M - 1) .. 0` for a negative one (`Step`), so
  that one correction suffices. That zero comes only from multiples of M takes an inverse
  of `A` modulo `M`, the form in which their being coprime is assumed.
  `LibraryGets`: where `gets` puts the line and its NUL, for every memory, buffer and answers of `getc`.
  `LibraryStrings`, for every memory that is a row of bytes and every count: the invariant
  (`Returned`) is that an answer is the function's for its own arguments, and then each function
  is compared with what it is for. The stores of `memcpy` and `strcpy`, words first and then bytes,
  amount to a single one, as the target lies below the source or apart from it, and so do those of `memset` (`FilledIs`); `strncmp` stops where two
  strings, taken as sets of places, first differ or end.
  `DigitsAreTheNumbers`, for every number and the bases 8, 10 and 16: the digits are the
  remainders of dividing by the base until nothing is left (`InBase`, a relation with one solution).
  `put_dec` takes five digits at a time and never divides by ten; that its chunks join to
  the division's digits takes `FullIsDecimal` and `TruncIsDecimal`. Both recursions (`put_dec`, the shifts of
  `put_pow2`) are functions on the naturals, which exist because the digits do (`PutDecExists`,
  `PutPow2Exists`). `NumberFillsField` and `StringFillsField`: the length of what `number` and `string` write, for
  every width, precision and set of flags. The digits of a 32-bit long are at most eleven
  (`FewDigits`), so the 66 characters of `tmp` hold them.

Only model-checked, and why: `CallsReturn` and `DelayReturns` are liveness, which the prover
does not reach. `FollowsC99`, `ReadsBack`, `LengthBounded` and `SizesRead` are about texts that
are written or read a character at a time: the formats are parsed by folds, the numerals of the
references are powers, and a recursion with three arguments goes through `vsprintf`. The prover takes no such
function, knows nothing of `^`, and would need an induction over an operator for the folds. What it can say of
single conversions are the theorems about `number` and `string`.

## 5. What is not modelled

* `page_get` with `alloc = 1` and `page_table_clone`: nothing calls them as long as every
  table is the kernel's own.
* The network directives of `vsprintf`, which are not compiled; `tolower`, which nothing calls;
  a read function of a console, as no console has one.
* `boot.s`, the descriptor tables: straight-line code; the CPU's and the controllers'
  behaviour is modelled only as far as the code relies on it.
* The divisor of the timer chip, port wait states, the contents of exception reports.

## 6. Plan

Done, in this order, because the rest of the kernel stands on what comes first: boot memory,
heap, bitset, paging, interrupts and timer; then lists, consoles, terminal, init calls
and number formatting; then the library and the heap as `main` and the page
directory use it; proofs about all of them. What comes next:

1. A proof that the texts of single conversions are those C99 prescribes, should the references be
   restated without powers; with it, the length of a text for every format.
2. `page_get` with allocation and `page_table_clone`, should anything come to call them.
