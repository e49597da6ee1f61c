# A TLA+ model of the dynamic memory allocator

The repository holds an allocator (`mm.c`: segregated free lists, boundary tags
without footers in allocated blocks, 16-byte "mini" blocks) and the driver that
tests it (`mdriver.c`, on the simulated memory of `memlib.c`, with a splay tree
`stree.c`, trace files `tracefile.c` and timing `fcyc.c`, `clock.c`). This
directory models the parts with state worth checking, model-checks them with
TLC and proves with TLAPS the allocator, on words and on blocks, the splay tree, the
memory system, the range set, the evaluation of traces, the timing and the test loop
correct.

The program has one thread. What makes it hard is not concurrency but long
sequences of legal calls: flags that can be set and not cleared, words that are
a footer or client data depending on a flag elsewhere, list pointers that live
in memory the client has written, an arena that ends. The one asynchronous
event is the driver's alarm, which leaves the test loop by `longjmp`.

## Inventory

| Component | State | Operations | What makes it correct | Module |
|---|---|---|---|---|
| allocator, `mm.c` | heap words, `heap_start`, `seg_list`, `mini_list` | `mm_init malloc free realloc calloc` | blocks tile the heap; flags right; free neighbours merged; free lists exact; client data untouched; a fit is found | `MmWord`, `Mm`, `BlockHeap`, contract `AllocSpec` |
| heap checker, `mm.c` | none | `mm_checkheap` | accepts every reachable heap | `Mm` |
| simulated memory, `memlib.c` | break, page protection, page table, `initSet` | `mem_init mem_deinit mem_reset_brk mem_sbrk mem_read mem_write mem_memcpy mem_memset setUBCheck` | reads what was written; accessible up to the break; one page structure per page | `Memlib` |
| splay tree, `stree.c` | nodes and links | `tree_insert tree_remove tree_find tree_find_nearest tree_free` | an ordered map, call by call; links sound | `Stree`, abstract `OrderedMap`, `OrderedKeys` |
| range set, `mdriver.c` | list and tree of ranges | `add_range remove_range` | follows all blocks, never rejects a correct one (it misses some overlaps, see below) | `RangeSet` |
| evaluations, `mdriver.c` | trace blocks, random data, running total and high-water mark | `eval_mm_valid eval_mm_util eval_mm_speed` | a correct allocator passes, garbled data are found, utilization at most 1 | `Evaluate` |
| trace files, `tracefile.c` | requests, ids, blocks and sizes | `read_trace reinit_trace free_trace` | ids within the arrays; a second run starts clean | `TraceFile` |
| naive allocator, `mm-naive.c` | break | `malloc free realloc` | implements `AllocSpec` | `MmNaive` |
| test loop and libc evaluation, `mdriver.c` | loop variables, records, jump buffer, alarm, verdicts | `main run_tests timeout_handler` | records freed once, verdicts right, the run ends | `Driver` |
| timing, `fcyc.c` | k best samples in a static buffer | `fsec add_sample` | the k least, in order; ends; survives an interrupted call | `Fcyc` |
| scoring, `mdriver.c` | none | end of `main` | no score after an error; a score rests on correct traces, with a time for each in the build that times them | `Driver` (formulas left out) |
| clock, scripts, instrumentation | | | I/O, floating point, glue | not modelled |

The allocator calls `mem_sbrk` and is called by the driver, which resets the
memory before each trace. `mm.c` appears with `mem_sbrk` as a guard on the
break; the rest of `memlib.c` has a module of its own. The range set uses the
splay tree as a set of keys with a nearest predecessor (`OrderedKeys`), which is
what `Stree` is shown to be. An
evaluation drives allocator, memory and range set with the requests of a trace;
the test loop runs the evaluations, and the timing calls one of them over and
over.

## Modules

`MmWord` is the arithmetic of `mm.c`: `size_t` modulo `SIZE_MOD`, header words
with their three flag bits, `round_up`, `find_class`. The thresholds of
`find_class` are the table `ClassBound`.

`Mm` is `mm.c` on words. The heap is a record of arena words, break and the
three globals; each C function is an operator of the same name on that record.
Nothing is erased from the arena but by a store: stale footers, stale pointers
and client data remain. The actions `Malloc`, `Free`, `Realloc`, `Calloc` and
`Reset` are whole calls, and the client then fills its block with a word chosen
to look like a header (32: a free block of 32 bytes; 49: an allocated one).
`mm_checkheap` is modelled test by test.

`BlockHeap` is the same allocator on blocks: headers by address, free lists as
sets, one possible result of `malloc` for each block `find_fit` could take.
Every decision made from a header is kept. `Mm` implements it
(`ImplementsBlocks`, mapping: the headers met by walking the arena and the
chains as sets).

`AllocSpec` is the contract of `mm.h`: aligned, disjoint regions inside the
heap, changed by nobody but the client; a failed call takes nothing away.
`BlockHeap` implements it (`ImplementsContract`).

`MmProofs`, `BlockHeapProofs`, `StreeProofs`, `MemlibProofs`, `RangeSetProofs`,
`DriverProofs` (with the timing) and `EvaluateProofs` hold the theorems, `NatFacts`
what they share.

`Memlib` is `memlib.c` on bytes, dense and sparse, with the ways the process may
end (no page left, read of an unwritten byte, fault). `flat` remembers what was
last written to each address.

`OrderedMap` / `Stree`: the map, and the splay tree with its rotations, splay
steps and removal; a node is named by its key. Both record the last call, its key and
its result (`call`, and the history variable `called`), so that a step of the tree must
be the step of the map for the same call, not just for some call. `OrderedKeys` is the
nearest predecessor in a set of keys. Each `while` loop of `stree.c` is a
recursive function of the loop's variables.

`RangeSet`: `add_range` and `remove_range` as `eval_mm_valid` calls them, facing
an allocator that returns any address.

`TraceFile`: `read_trace` line by line with its error exits, and `reinit_trace`.
A line is one of the constant `Lines`, already taken apart, or malformed. Ids are
`unsigned int` modulo `UINT_MOD`. `WellFormed` says what a trace should be;
`read_trace` checks little of it.

`MmNaive`: the functions of `mm-naive.c` as operators on a heap of written cells
and a break.

`Evaluate` composes `TraceFile`, `MmNaive` and the operators of `RangeSet`: one
trace is read, run twice by `eval_mm_valid`, then by `eval_mm_util`, then by
`eval_mm_speed` as often as the timing likes. One request is one step. The
allocator may make one mistake in a behaviour (`faults`): overwrite a byte that
was written before (client data or a size word), return a misaligned address,
return NULL for no reason, fail `mm_init` or `mm_checkheap`. Only in the
correctness runs does it spoil data: the later runs look at nothing but NULL.
`held`, `wrote` and `damage` are history: what the client holds, what was left in
it, and whether a request met a change.

`Fcyc`: `fsec` step by step. The buffer `values` is "null", "valid" or "freed",
and outlives a call that is left by `longjmp`.

`Driver` extends `Fcyc`: `main` from the alarm on, the libc loop, `run_tests` call
by call; `timeout_handler` may run before each call and each step of `fsec`. `build`,
chosen at the start, is one of the programs the Makefile makes: `mdriver`
measures correct traces with `fsec`, `mdriver-emulate` (sparse) times nothing and
records one second, `mdriver-dbg` leaves the measurement out (`mdriver.c:283`). An
evaluation gives a verdict or ends the process (`EvalExits`: the assertion and
`unix_error` of `add_range`, the exits of `memlib.c`).
`trace`, not volatile, may have its old value after the jump.

## Runs

| Run | Instance | Shows |
|---|---|---|
| `mm_words` | arena 112 bytes, chunk 48, up to 3 live blocks, requests 0, 8, 20, realloc 0, 8, 36, calloc with and without overflow, `size_t` modulo 512 | checker accepts, lists exact, flags right, data intact, nothing leaked, fits found, refines `BlockHeap` |
| `mm_lists` | arena 144, chunk 128, up to 5 live blocks of 8 and 24 bytes | list surgery with three and more blocks on a list |
| `mm_wrap` (violation) | requests 500 and 508 of 512 | `malloc` returns too small a block |
| `block_heap` | arena 208, chunk 64, up to 5 live blocks | each conjunct of the inductive invariant, refines `AllocSpec` |
| `stree` | keys 1..7 | every reachable tree is sound; every call does to the keys, and returns, what the map does for that key |
| `range_set` | 12 addresses, alignment 2, sizes 1, 2, 5, 4 blocks, all debug modes | links, tracking, no false alarm |
| `range_overlap` (violation) | same | an overlap that is accepted |
| `memlib` | 6 bytes, pages of 2, 2 page structures for 3 pages, 2 buckets, words of 2 bytes, 2 `mem_init` | reads back, page table, protection |
| `memlib_deinit` (violation) | same | the sparse mapping stays |
| `evaluate` | traces of at most 3 of 11 requests on at most 2 ids, sizes 0, 1, 20, 36, arena 128 bytes, 2 bytes of random data per block, `size_t` modulo 256, ids modulo 4, all debug modes, one mistake | correct allocators pass and only they, totals exact, refines `AllocSpec` |
| `driver` | 3 traces; 3 best of at most 4 samples from 3 times; repetitions from 1 on until they take 3 units | records, verdicts and measurements around an alarm; the run ends |
| `driver_timeout` (violation) | 2 traces | a hang after the alarm |

Why these bounds are enough to be of interest: the arenas of `Mm` hold blocks of
16 (mini), 32, 48 and more bytes, so both lists, three size classes, all four
merge cases with mini and ordinary neighbours, splits with a remainder of 0, 16
and more, growth with a free and with an allocated last block, and the end of
the arena all happen. `memlib` has fewer page structures than pages, colliding
hash chains, words that straddle pages, and resets. Seven keys give splay paths
with every step kind and removals with a near and a far successor. Three
requests are enough to allocate, resize and free, to reuse an id, to free twice
and to resize what was freed; sizes lie on both sides of the 2 bytes that carry
data, the arena has room for three small blocks but not for three large ones,
and two bytes of random data tell a block apart from its shifted copy. The three
times of `driver` hold pairs that agree within epsilon and pairs that do not. Symmetry is
not used: addresses, sizes and keys are compared.

Each run's `MaxLive`, `MaxBlocks`, `MaxInits`, `NumOps` and `MaxHeap`, and the
number of mistakes in `Evaluate`, are the only bounds;
`MaxHeap` is a real parameter of the program, `MaxLive` disables no call that
returns blocks.

Every property has a mutant in `PROJECT.json`: a changed form of an operation
(`..._no_footer`, `..._own_class`, ...) under which TLC finds it violated.

## Fairness

Only `Driver` states fairness. `Spec` has weak fairness of the driver's own
steps, which nothing blocks (the reference driver it may run is taken to end),
and of the alarm, which the kernel delivers. The evaluations have none there:
they run the allocator under test, which may loop; that is what the alarm is for.

`FairSpec` adds weak fairness of the evaluations and of the steps of `fsec`: every
call of the allocator returns, and the clock advances, so that a measurement is
positive again and again (one of 0 is not counted by the code and is no step of
the model). `Termination` is checked under it. The ways the process may end
early have no fairness.

The other modules are sequential calls made at the client's pleasure: there is
nothing that must happen, and their properties are safety properties.

## What the runs found

* `mm.c:1281`: `size + wsize` and the rounding wrap for requests within 23 bytes
  of `SIZE_MAX`; `mm.h:25` promises at least `size` bytes.
* `mdriver.c:772`: a block below all tracked ones is linked with no successor
  and becomes the whole list; overlaps above it are accepted, although
  `mdriver.c:1003` excludes them, and the expensive data check no longer visits
  the lost ranges. `range_set` shows that the links stay sound all the same and
  that correct blocks are never rejected.
* `memlib.c:217`: in sparse mode `munmap` is given `SPARSE_HEAP_START`, not the
  mapping; `memlib.c:213` says the storage is freed.
* `mdriver.c:455`: the alarm is armed once; `-s` does not bound the run
  (`mdriver.c:1722`).

`CleanRun` also delimits where the alarm is harmless: from `setjmp` until
`free_trace` is called, but not between `free_range_set` and the following
`new_range_set`, and inside `fsec` not between a `free(values)` and the assignment
that follows it (steps "calloc" and "clear_values"): the next call of `fsec` would
free the buffer again. Elsewhere the model ends in "undefined".

Met while reading, and visible in the model but not stated as a property of its own:

* `mdriver.c:248` says of a trace that times out that the driver "will reread the trace
  file". `setjmp` (`mdriver.c:256`) comes after `read_trace`, so the jump goes behind it:
  the trace is marked wrong and freed. `TypeOK` of `Driver` has it that no trace is ever
  read twice (`reads`), for every run by the theorem `TypeCorrect`.
* `mm.c:28` ("all blocks with sizes smaller or equal to 2^5" in the first bucket) and the
  table at `README.md:47-60` ("≤ 32", "33-64", ...) put the upper bound of a class into
  the class. `find_class` (`mm.c:557`) compares with `<`: a block of 32 bytes is in class 1,
  one of 64 in class 2, and so at every bound (`ClassBound` of `MmWord`). Nothing is lost by
  it, since insertion, removal and search ask the same function (`FitIsFound`).
* `mdriver.c:544`: with `-c` and several files the verdict printed is that of the
  last file, though only the first was run.
* `mdriver.c:1240` says "terminate if any libc malloc call fails";
  `eval_libc_valid` counts the error and goes on.
* `tracefile.c:385`: the id for `free(NULL)` passes only in a trace whose header
  says there are no ids.
* `mdriver.c:684`: with the autograder option, one trace and no error, `score` is
  read from a variable that was never set ("unset" in `Driver`).
* `mdriver.c:558`: the throughput of libc compared at the end is averaged from
  `libc_stats[].tput`, which nothing sets.
* `mm-naive.c:104`: `size + HEADER_SIZE` wraps as in `mm.c`; `mm-naive.c:166` does
  not check its product and clears through NULL when `malloc` failed.

## Proofs

The theorems hold for every value of the constants that the named assumptions
allow, while a run looks at one instance. A proof by induction on a number
goes through `NatFacts`: a set of natural numbers that is not empty has a least
element, so a claim that holds at 0 and is handed on from k to k + 1 has no
least exception (`UpToBound`).

### Blocks: `BlockHeapProofs`

For every `SIZE_MOD` (a multiple of 16, at least 64), chunk size (a positive
multiple of 16 with room to round), arena size, set of requests that do not wrap
(`FitsWord`), and number of live blocks: `TypeCorrect`, `HeapTiled`, `FlagsRight`,
`AlwaysMerged`, `ListsExact`, `NothingLost`, `BlocksApart`, `NoFitMissed`, and
`Implementation`: the allocator implements the contract `AllocSpec`.

The invariant `Inv` says that the heap is well formed (`WF`: type, tiling, flags,
merging, lists) and that the client's regions are exactly the allocated blocks
(`Owns`). None of its parts is inductive alone: a merge is right only if the
flags it reads are; a flag names the right neighbour only if the sizes tile the
heap; `free` is given a block of the heap only because the client holds
allocated blocks and nothing else.

Inside one call the heap is not well formed: `free`, `split_block` and
`extend_heap` make a free block that is on no list, may touch another free block
and that the next header does not know of. So `WF(h, X)` carries the set `X` of
such pending blocks. One lemma per internal operation says how it changes `X`
and the set of used blocks: `Take`, `Split`, `MarkFree` and `Grow` lead to at most one
pending block, `Coalesce` (which rests on the `Merge...` lemmas, one for each
conjunct) brings a single pending block back to none. `MallocResult` and
`FreeBlock` compose them; `AcquireInv`, `FreeInv` and `ReallocInv` lift them to
the actions, and `OwnsAdd`, `OwnsRemove` follow the client's set.

`NoFitMissed` needs the lists to be exact and the classes to be in the order of
the sizes: a block that is large enough lies in the class of the request or in a
later one, and the search visits those in turn.

### Words: `MmProofs`

For every word width, chunk size and arena size, and all requests that do not wrap
(`NoWrap`): `TypeCorrect`, `CheckerAccepts`, `ListsExact`, `FlagsRight`,
`DataKeptIntact`, `NothingLost`, `NoFitMissed`, and `Implementation`: `mm.c` on words
implements `BlockHeap`, hence the contract.

`NoWrap` is a hypothesis of the theorems and not an assumption of the module, because
the code does not establish it: `mm_wrap` is a run in which it is false and `malloc`
returns too small a block. It says that every size asked for leaves room in a word for
header and rounding, the product that `calloc` computes included, and that clients
fill their blocks with words. `MCMm.cfg` satisfies it, and so does every request more
than 23 bytes below `SIZE_MAX`.

None of the properties is inductive: `find_prev` reads a footer that is there only if
a flag elsewhere is right, a list pointer is sound only if nobody has written to the
payload of a free block, and client data are safe only if every block the allocator
takes for free is free. The invariant `Inv` says that the words show a well-formed heap
of `BlockHeap` (`Shows`), that the client's records are exactly its allocated blocks, and
that each holds what the client wrote (`Client`). The heap shown is the one `BlockView`
reads by walking the arena and the lists, so the invariant needs no history variable;
`ViewIs` says that the words determine it.

`Rep` is what showing means: at every header of the tiling the packed word, at the end of
every free block that is not a mini block the same word again (`Tag`), and for every list a
`ListRep`. A list is described without its order: some ranking of its nodes falls along the
`next` pointers from the head to `NULL` (`Linked`). Pushing at the head gives a new highest
rank and unlinking keeps the ranks of the others, so no argument about sequences is needed;
`WalkIs` then says, once, that a loop over such a list visits each node once and ends.
Everything else an operation must not disturb is a question of which words it writes:
tags, links and payloads in use are pairwise different words (`Zones`, `TagsApart`,
`LinkClear`, `TagClear`).

On this rest `RemoveFree` and `InsertFree` (all the cases of the list surgery, the
walk for a mini block included) and `Retag` (rewriting headers and footers). With them
each function is compared with the one of the same name in `BlockHeap`, whose lemmas say
where the blocks then are: `CoalesceShows`, `TakeShows`, `SplitShows`, `MarkFreeShows`, `GrowShows`,
`ExtendShows`, `PlaceShows`, `FreeShows`, `InitShows`, `FindFit`, `MallocShows`. Each also says
that the payload of blocks in use is kept (`Keeps`). `FillNew`, `FreeStep` and `MovedTo` add
the client: its fills, its frees and the copy of `realloc`. `NextGoes` puts a step together,
from which both the induction (`NextInv`) and the refinement (`SteppedIs`) follow.

`CheckerAccepts` is the converse of what a checker is for: the tests of `mm_checkheap`
hold of every heap the allocator can leave, so an alarm always means that something else wrote to the heap.

### Splay tree: `StreeProofs`

For every finite set of keys: `TypeCorrect`, `LinksStaySound`, `NearestCorrect`, and
`Implementation`: the tree implements `OrderedMap`, call by call with key and result.

`LinksSound` is not inductive: it says nothing of the order of the keys, on which
the place of a new node depends, and "every node is below the root" is a
statement about all paths, which a rotation changes for whole subtrees. The
invariant `Good` gives every node an open interval of keys, from 0 to a bound above
all keys at the root; a node's key lies in its interval and divides it between its
two children (`NodeSound`). Only neighbours are related, so a rotation disturbs the
conditions of at most four nodes, with the new intervals named (`Taken`, `Pushed`).

What is global follows. `Nested`: two intervals that meet are nested. `Vacant`: where
a link is `NULL`, no node anywhere has a key in that half of the interval; so a
search that ends there misses nothing (`FindIsMember`, `NearestEnds`) and a new leaf
there is in order (`AttachBelow`). The width of the interval is the measure of every
loop: it shrinks on the way down and grows for the node that `splay` raises
(`StepSound`). `LoopExists` and `LoopEnds` give the result of a loop with a measure,
which also shows that the loops of `stree.c` end.

`RightRotateSound`, `LeftRotateSound`, `StepSound` and `SplaySound` go up from one
rotation to `splay`; `CutNoLeft`, `CutNoRight` and `CutBoth` are the three ways
`tree_remove` closes the gap, the last for a successor that is the child of the
removed node or lies deeper. `FreeReachesAll`: the nodes below a node are those with
keys in its interval, hence `tree_free` leaves nothing allocated. `InsertGood`,
`RemoveGood` and `FreeGood` say what an operation does to the set of nodes, which is
what `OrderedMap` sees; `FindIsMember` says that the result a call reports, which it
takes from its search, is the one the map gives.

### Range set: `RangeSetProofs`

For every heap size, alignment and set of sizes: `TypeCorrect`, `ListSound`,
`BlocksFollowed`, `AlarmsJustified`. The list is not sound by itself: that
unlinking a range leaves the links of its neighbours mutual needs them mutual and
ordered before, that a new range is not one the set has already needs the ranges
not to be empty, and that freeing a block removes its range needs the blocks to
determine the ranges. `LinksSound` is what is true of the list in spite of the
ranges it loses (`range_overlap`).

### Memory system: `MemlibProofs`

For every size of heap, pages, hash table, words and system pages (the limit of
the heap a multiple of the last, a word no longer than a page): `TypeCorrect`,
`PageTableSound`, `BreakUsable`, `HeapReadsBack`. The invariant adds to them that
`mem_brk_chunk` is the break rounded up, and that `flat` records the memory
(`Recorded`): a byte is marked in the `initSet` of its page exactly if it was
written since the last reset, and then the page holds what was written.

The argument goes up access by access. `FindPage`: the search along a chain
finds the slot of a page exactly if it has one. `PageProvided`: taking a page
changes no byte of another. `GetToRead`, `GetToWrite`, `LoadBytes`, `StoreBytes`: one
access inside a page. `ReadMem`, `WriteMem`: a word, split at the end of a page or
not (`TouchedParts`). `Pieces`: the words of `mem_memset` and `mem_memcpy` cover the area
without gap and overlap; `SetMem` and `CopyMem` follow the loops. A copy of bytes
that were never written is covered too: what the destination then holds is what
the page of the source held.

### Test loop and timing: `DriverProofs`

For every number of traces, `kbest`, `maxsamples`, set of times and epsilon:
`TypeCorrect`, `AlarmSurvived`, `VerdictsRight`, `TimingRight`. `FcycInv` says of the
sampler that its cells are the least samples of this call in order, with a
function from cells to samples that shows it (`AddSample` keeps it through the
insertion), and that the buffer a broken call left is the one the next call
frees. `ControlInv` says which step belongs to which evaluation,
`RecordsInv` which records exist at which step, as long as the alarm came at a
covered point, and `VerdictInv` relates `valid`, `errors` and the recorded
times to the evaluations passed so far and to the build. The alarm is one more action, enabled nearly everywhere: for each
conjunct the proof has to say what it is like at every point the jump may start
from.

### Evaluation of a trace: `EvaluateProofs`

For every set of requests, number of ids and requests, arena size and amount of
random data: `TypeCorrect`, `Implementation` (the contract `AllocSpec`),
`GarblingSeen`, `CorrectPasses`, `UtilizationRight`. `EvaluateAssumption` asks that the
arena size be a `size_t`, and that a request leave 32
bytes below the greatest `size_t`: `malloc` of `mm-naive.c` adds header and
rounding without a check, and a request above that wraps to a block smaller
than what was asked for. Traces are not assumed to be well formed; `GarblingSeen`,
`CorrectPasses` and `UtilizationRight` speak of well-formed ones, as the properties do.

The invariant has five parts.

- `TypeInv`: types, what `read_trace` has established so far, and that regions
  handed out lie below the break. It gives `TypeCorrect`, and `Implementation`,
  since `mm-naive.c` makes blocks above the break only.
- `Followed`, whatever mistake the allocator makes: the live ids are those whose
  last request was not a free nor for 0 bytes, and the arrays of the trace, the
  regions, the range set and the notes of what was written agree about them
  (`Placed`, `Ranged`, `Noted`). Entries of freed ids are stale and nothing is said
  of them: `WellFormedStep` shows that the next request of such an id is `ALLOC`,
  which looks at neither. With `DBG_EXPENSIVE` the walk along the list meets every
  range (`WholeWalk`; the least of those it would miss has a predecessor that it
  does not miss). It gives `GarblingSeen`.
- `Growth`: without a mistake the break before request k is the same in every run
  (`Course`), because `mm-naive.c` gives nothing back. So a run after the first
  never runs out of memory (`LaterRunsFit`).
- `Undamaged`, without a mistake: the headers of live blocks are at least as large
  as the payload and the random data are in place (`Intact`). `realloc` copies by
  the size in the header, so the data checks after it need the header to be
  right. With `Growth` it gives `CorrectPasses`.
- `Measured`, for `eval_mm_util` and whatever mistake the allocator makes: `Placed`,
  and the totals are those of the regions handed out, with the high-water mark
  below the break. A request takes back at most one region and hands out at most
  one, above the old break (`TotalsStep`), so the totals stay below the break and
  never wrap. That the sum over a set, which the community modules define by a
  function that refers to itself, may be taken member by member in any order
  (`TotalSplits`) is proved by looking at a smallest set for which it is false.
  It gives `UtilizationRight`.

### Only model-checked

Liveness (`TimeoutStops`, `Termination`), which is outside the prover's reach. Every
other property of a passing run is also a theorem.

## Not modelled

Output and statistics; the sanitizer and `REF_ONLY` builds;
`mem_read128`/`mem_write128` (two word accesses each) and `hprobe` (reads and
prints); option parsing; the tables and formulas of the score; the calibrated
clock; `fcyc` and the setters of `fcyc.c`, which nobody calls; `calloc` of
`mm-naive.c`, likewise; Perl scripts and build files; the instrumentation pass,
a binary. The arithmetic on pointers in `mem_sbrk` cannot wrap for the addresses
the heaps are mapped at and is plain addition. So is `lo + size - 1` of `add_range`
(`mdriver.c:744`), which in C may wrap for a size near `SIZE_MAX` and then pass the test
of the heap's bounds: numbers of the model do not wrap, and it rejects such a block.

In debug builds of `mm.c`, `malloc` calls `mm_checkheap` before it looks whether
`mm_init` has run (`mm.c:1100`) and would abort on a heap that was never set up. The
driver always calls `mm_init` first, and `HeapChecks` speaks of heaps that were set up.
A first chunk that does not fit in the arena (`mm.c:1241`) is met by the theorems,
which do not bound the arena from below, and by no run.

`Driver` leaves out `mdriver-uninit`, which in the test loop does what `mdriver-dbg`
does.

The alarm comes between calls of the driver and between steps of `fsec`, not in
the middle of a library call or of a splay, where the outcome is undefined or
arbitrary. libc's own `calloc` for `values` does not fail, and `reps` does not
overflow. `Driver` takes any verdict from an evaluation; that the verdict is right
is the subject of `Evaluate`.

## Plan

1. Done: `MmWord`, `Mm`, `BlockHeap`, `AllocSpec` and the block-level proofs;
   `Stree`, `OrderedMap`, `RangeSet`, `Memlib`; `TraceFile`, `MmNaive` and
   `Evaluate`; `Fcyc` and the whole of `Driver`.
2. Done: proofs for `Mm`, `BlockHeap`, `Stree`, `RangeSet`, `Memlib`, `Fcyc`, `Driver` and
   `Evaluate`.
3. Left to TLC: `Termination` and `TimeoutStops`.
