# Specifications of libmprofile and its companions

TLA+ models, TLC configurations and TLAPS proofs for the programs in this
repository. The centre of it is `src/mprofile`: a library that is preloaded
into an OpenSSL application, replaces OpenSSL's `malloc`, `realloc` and `free`
by wrappers, and writes a profile when the application exits. It is the part
with state that matters: several threads, atomic counters without a lock,
records ordered by an id that is not the order of the heap, and an exit handler
that frees what other threads may still use.

All line numbers below are those of `src/mprofile/` unless a path says
otherwise.

## 1. The system

| component | files | state | operations | hard behaviour |
|---|---|---|---|---|
| mode 1 statistics | `init.c` | `ms` (seven `uint64_t`), a header in front of each block | three wrappers, `update_alloc()`, `update_release()`, `save_stats()` at exit | several atomic updates per call that are not atomic together; the compare-exchange loop for the maximum; a report printed field by field |
| recording (modes 2 to 5) | `init.c`, `record.c` | per-thread profiles, the global list of profiles, `mpr_id` | six wrappers (with and without stacks), `get_mprofile()`, `merge_profile()`, `mprofile_record_*()` | the id is taken before `free()` but after `malloc()` and `realloc()`; a record is linked later than its id is taken; profiles outlive their threads; allocations that fail |
| saving at exit | `record.c`, `init.c` | the sorter tree, the tree of open addresses, the links of the records | `mprofile_save()`, `build_chains()`, `profile_save()`, `mprofile_destroy()` | no lock against threads that still run; assertions that abort the application's exit |
| call stacks (modes 3 and 5) | `stack.c`, `record.c` | a stack set per profile: two trees over the same stacks, an id counter | `mprofile_add_stack()`, `mprofile_merge_stack()` | source and destination may be one set; ids move between sets with their own counters; counts decide when a stack is freed |
| symbol tables | `ksyms.c`, `kelf.h`, `record.c` | the libraries behind the frames, one sorted table of functions | find libraries, load, look up | the index a second library starts from; functions without a size; a comparison for `bsearch()` that is not an order |
| the reader | `scripts/mprofile.py` | the records and stacks of a saved file | leaks, chains, sizes, totals, maximum, samples | depends on ids being positions, and on chains being present |
| backtrace.test | `src/backtrace.test` | one stack buffer, its top, a flag | SIGTRAP handler that unwinds, exit handler that prints | one buffer for all threads, no bound, a flag that is set at the end |
| base64.so | `src/base64.so` | handlers to arm, flags for `dlopen()` | options, `OPENSSL_atexit()`, encode, `dlclose()`, `OPENSSL_cleanup()` | code that is unloaded before its exit handler runs, in two libraries that need not go together; pointers not set; loops over words |
| base64.dll | `src/base64.dll` | none | two calls into OpenSSL | none |
| scripts | `src/build-CA-chain`, `src/anon-size`, `src/misc` | files | straight-line shell | none of interest |
| vendored | `utils/tree.h`, `utils/queue.h` | | | third party |

How they interact. The application calls a wrapper; in modes 2 to 5 the wrapper
finds its thread's profile in thread-specific storage (`get_mprofile()`), calls
libc, and appends a record to the profile (`record.c`), whose stack goes into
the profile's stack set (`stack.c`). The destructor of the thread-specific key
runs when a thread exits and leaves the profile on the global list. At exit one
handler deletes the key, merges all profiles and stack sets into those of the
first profile, sorts by id, in modes 4 and 5 links the records of each block,
and writes a file, with names from `ksyms.c`, that `mprofile.py` reads.

What makes each part correct:

* *statistics*: bytes and operations are counted once, the maximum is the peak,
  the report is true (`MemStats`);
* *recording*: every id taken belongs to one record, and the records in the
  order of their ids are a history of the heap (`Recorder`, `AllocHistory`);
* *saving*: the file has every record, in order, its chains are those of the
  history and their loose ends are the leaks; the handler ends (`TraceSave`);
* *call stacks*: every record finds its stack under its id, before, during and
  after the merge, and no count is lost (`ProfileMerge`);
* *the reader*: what it computes from a file is what the heap was
  (`ProfileReport`, and `ReaderFindsStacks` in `ProfileMerge`);
* *symbol tables, backtrace.test*: one stack is collected, stays in its buffer
  and is printed, with the names of the functions that cover its frames
  (`Ksyms`, `Backtrace`);
* *base64.so*: the options decide what is opened and armed, and the handlers
  find their code (`Base64Test`).

## 2. Modules

| module | models | lines |
|---|---|---|
| `MemStats` | mode 1, one atomic access per step | `init.c:55-105`, `268-408` |
| `AllocHistory` | abstract: what a log promises to those who read it | `record.c:468-528` as a specification of its input |
| `Recorder` | modes 2 to 5 up to the record in the list, one visible effect per step | `init.c:73-156`, `410-501`, `record.c:206-388` |
| `TraceSave` | extends `Recorder` by the exit handler, one list or tree operation per step | `init.c:107-127`, `record.c:461-590` |
| `ProfileMerge` | the stack sets, one record per step; profiles exist in the order of their threads' first calls | `stack.c:129-352`, `record.c:333-341`, `548-580` |
| `ProfileReport` | extends `AllocHistory` by what `mprofile.py` computes from a log | `scripts/mprofile.py:144-410` |
| `Ksyms` | libraries, table and search; one frame, one library or one comparison per step | `ksyms.c:32-236`, `record.c:400-451` |
| `Backtrace` | extends `Ksyms` by the SIGTRAP handlers, one access to the shared buffer per step | `src/backtrace.test/backtrace.c:102-185`, `libmain.c` |
| `Base64Test` | `test.explicit`, and `test.implicit` and `test.static`, which are one program, from the options to the end of the process | `src/base64.so/explicit.c`, `implicit.c`, `base64.c`, `Makefile` |
| `MCMemStats`, `MCTraceSave`, `MCProfileMerge`, `MCProfileReport`, `MCBacktrace`, `MCBase64Test` | model values, symmetry, finite inputs for TLC | |
| `MemStatsProofs`, `AllocHistoryProofs`, `ProfileMergeProofs`, `ProfileReportProofs`, `BacktraceProofs`, `Base64TestProofs` | theorems about the module in the name (`BacktraceProofs`: also `Ksyms`) | |
| `TraceSaveProofs` | theorems about `Recorder` (part 1), `TraceSave` (part 2) and the chains (part 3) | |
| `SumTheorems` | lemmas on sums over finite sets, induction over sets of numbers, recursion along the next-ids | |

`TraceSave` composes the wrappers and the handler on the same variables.
`Recorder`, and `TraceSave` with it, are shown to implement `AllocHistory`
(`History == INSTANCE AllocHistory WITH log <- hist`, property `LogIsHistory`).
`ProfileReport` starts where they end: its logs are those of `AllocHistory`, so
what it shows of the reader is true of every file the library can write under
the conditions of the refinement. `ProfileMerge` stands beside them: sets are
not shared between threads, and it models the merge for joined threads only.
`Ksyms` is used by the library and by backtrace.test; it is checked where its
frames come from racing handlers, in `Backtrace`.

Correspondence. In each module `pc[t]` is the next step of thread `t` and
`req[t]` the locals of the wrapper it is in. An action named like a function
(`MallocTrace`, `MergeStack`) is that function or the named part of it, and
`PROJECT.json` gives the lines of every definition. `hist`, `open`, `bytes` (in
`Recorder`) and `peak` (in `MemStats`) are history variables. Definitions with a
comment that begins with "Variant:" are not part of the specifications: each is
its neighbour with a plausible mistake, used to confirm that a property notices
it.

What the models abstract:

* A block is its address. Headers are the functions `hdr`/`size`; the check word
  is the set `intact`. In modes 2 to 5 the check cannot fail for blocks the
  application got from the library, so it is left out there.
* In mode 1 the `uint64_t` counters are kept modulo `Wrap`, 16 in the runs,
  which is larger than any sum of sizes they reach.
* RB trees are sets, with an insertion that reports a duplicate where the code
  looks at the result; TAILQs are sequences. `utils/*.h` is taken as correct.
* The wrappers with stacks make the same calls in the same order as those
  without, but for the backtrace, which has no shared state. Stacks are model
  values. `Empties` are the stacks without frames recorded by `realloc(b, 0)`:
  `stack_compare()` reads the word before the frames of such a stack, which is
  the pointer to its frames, so no two are equal.
* After `MergeProfile(t)`, `t` is another thread: its storage is empty.
* A frame is an address; libelf is what it returns, the list of symbols of each
  library (`elf`, one of `Images`), and `dladdr()` is the function `LibAt`.
  Refused memory in `ksyms.c` is left out.
* A function in a table is its library, its index there, its value and its size.
  The sizes that are missing are filled in with the distance to the next entry,
  as `ksyms.c` does after sorting; entries with one value may be sorted either
  way.
* The words of an option are the sets of names they are a part of, since the
  code compares with `strcasestr()`; the message is all or part of itself.

Assumptions about what is not in the repository: glibc's `realloc(p, 0)` frees
`p` and returns NULL and `realloc(NULL, 0)` returns a block; a single RB or TAILQ
operation is atomic (with threads racing the handler it is not; the races inside
one operation are undefined behaviour and are not modelled, so the racing part
of `save_faults` is a lower bound on what can go wrong); assertions are compiled
in, as the Makefile does not define `NDEBUG`. 
`Base64Test` keeps apart what OpenSSL and libc do at the end, and which code is
left for it (`mapped`: base64.so or base64-static.so, and libcrypto, which is a
part of base64-static.so):

* `cleanup` is what calls `OPENSSL_cleanup()`: the destructor of libcrypto
  (openssl-3.4), or an exit handler that `OPENSSL_init_crypto()` sets
  (openssl-3.3 and earlier, `base64.so/Makefile:55-72`), which libc runs at
  `dlclose()` of the library it is in, or at the end of the process only. In
  openssl-3.3 `OPENSSL_init_crypto()` is called by `base64ArmAtExit()`, that is,
  with `-a` (`inited`); without it nobody cleans up.
* `keeps` is what `dlclose()` leaves in memory: nothing; a libcrypto that is a
  library of its own and linked not to be unloaded, while base64.so goes; or
  what calls OpenSSL: libcrypto from `OPENSSL_init_crypto()` on, and from
  `OPENSSL_atexit()` on the library the handler is in, which is how OpenSSL pins
  a library when it is not built with `-DOPENSSL_USE_NODELETE`
  (`backtrace.test/ReadMe.txt:62` has a build with it).

All nine combinations are initial states. The code of a handler is called when
`OPENSSL_cleanup()` runs; if it is not mapped then the process crashes.

## 3. Runs

| run | question | instance |
|---|---|---|
| `stats_joined` | do the counters stay right, is the exit report true, do calls return? | 2 threads, 2 blocks, sizes 0, 1, 3, 4 calls, refused requests, joined, fair |
| `stats_racing` | is the maximum right, is a block in one place, with threads not joined and headerless blocks? | 3 threads, 3 blocks, sizes 0, 1, 4 calls |
| `save_joined` | is the order of ids a history when threads interleave and exit and `realloc()` moves blocks; are the chains built from it those of that history, and the leaks the blocks held; does the handler end? | 2 threads, 2 addresses, sizes 0, 1, 4 calls, 2 profiles, no call overlaps a realloc that moves its block, fair |
| `save_faults` | what is left when everything may fail? | 2 threads, 2 addresses, sizes 0, 1, 3 calls, refused requests, lost records, moves, racing exit |
| `report` | does `mprofile.py` compute from a log what the heap was? | all logs of up to 5 records over 3 addresses and 2 sizes, with and without chains, up to 4 samples |
| `merge` | does the merge of stack sets keep every record's stack, and does the reader find it? | 3 profiles, 3 stacks, 2 empty ones, 5 records, failing allocations of sets and copies |
| `backtrace` | which stack is collected and what is printed for it? | 2 threads with 2 and 3 frames, a buffer of 3, 3 traps, an application without symbols and 2 libraries with 4 different tables, fair |
| `base64` | do the programs do what the options say, do handlers find their code, do the programs end? | all programs, both libraries, 3 ways to clean up, 3 to keep libraries, up to 3 words after `-f` and 2 after `-a`, each library call may fail, fair |
| `save_racing_realloc`, `merge_abort`, `symbols_second_library`, `samples_asked` | expected violations of one property each, see section 6 | small: 2 threads and 3 calls, or the instance of the passing run |

What the properties say:

* `CountersExact`: current bytes, and the difference of the totals, equal the
  live bytes give or take what threads in a wrapper have yet to count;
  `MaxIsPeak`: no interleaving of the compare-exchange loops loses a peak;
  `ReportTrue`: the exit report; `Ownership`: no block is in two places.
* `LogIsHistory` (refinement), `LogMatchesHeap`: an address has an open chain
  exactly while its block is in use, with deltas that add up to its size.
* `RecordsAccounted`: each id is in exactly one place from the call to the file;
  `OutputIsHistory`: the file has all of them in order; `ChainsFollowHistory`,
  `SaveSucceeds`, `LeaksAreHeld`: the chains, that nothing aborts, the leaks.
* `LeaksAreBlocks`, `FiguresAgree`, `ChainsPartitionLog`, `SamplesKeepPeak`: the
  reader's leaks and sizes, its totals and curve, its chains, and the sampling:
  every point of the curve has a sample at least as high near it.
* `SourceCountsRecords`, `RecordsKeepStacks`, `MasterKeepsStacks`,
  `ReaderFindsStacks`: counts decide when a stack leaves a set, the master
  survives being merged into itself, ids stay positions.
* `OneStack`, `CollectedIsFinal`, `StaysInBounds`: the stack of one thread is
  collected as a whole and never overwritten later; only overlapping handlers
  or a deeper stack write behind the buffer. `LookupIsExact`, `NamesAreLocal`:
  the search finds a function exactly when one covers the address, and the sizes
  filled in do not give a frame a function of another library.
* `TestTargetsPass`: the targets of `Makefile.in`, `test-*-noatexit` and the static
  ones included, end with the message decoded, the handler that `-a` names run
  once, and `OPENSSL_cleanup()` called with `-a`, or by the destructor. For the
  `noatexit` targets and openssl-3.3 it says no more than the note in the
  Makefile, and of handlers in `test.implicit` without `-a` it says nothing.
  They crash only if code that `-a` has called is gone.
* `HandlersFindTheirCode`: exactly when that is so, for every command line
  (`CodeIsGone`): `OPENSSL_cleanup()` is an exit handler of the process in a
  libcrypto that was unloaded, or `base64AtExit()` is armed in a base64.so that
  was unloaded while libcrypto stays. `OptionsDecide`: what options arm and open.

Bounds. `MaxCalls`, `MaxRecords`, `MaxLog`, `MaxTraps` bound the length of a
behaviour, `MaxProfiles` how often threads are replaced. Each passing instance
is larger than the shortest behaviour in which its property could break: a lost
peak needs three calls in flight; a wrong order of ids needs a realloc and a
malloc in two threads (three calls); a wrong chain needs an address used, left
and used again (four calls); the ids of two sets collide with four records in
three profiles; a sample can miss the peak from three records on; a second
handler needs a second trap, and one that does not see the flag a third; a
library with a skipped function has two. The "Variant" definitions confirm it:
under the same instance each property is violated by at least one mistake in the
code. In `save_joined` no other thread is in a call while `realloc()` moves a block
(`MovesOverlap` is FALSE): a single thread, or threads with a lock around their
calls, satisfy this, and without it the moving blocks break the history (section
6). Calls that move nothing overlap freely there. Symmetry is used over blocks, addresses, stacks and interchangeable
threads only, in runs without liveness properties. The runs with racing threads
(`stats_racing`, `save_faults`) check less than those with joined ones: what a
property still promises there, it says itself.

Fairness. `FairSpec` of `MemStats` has weak fairness of the accesses of each
thread inside a wrapper and of the printing: such a thread is a running thread
in a function without locks. Whether the application calls again is left open.
`FairSaveSpec` has weak fairness of the exit handler's steps, as `exit()` runs
in a running thread; `FairSpec` of `Backtrace` the same of its exit handler, and
the traps of other threads are left open. Workers have none. `Base64Test` is one
sequential program and has weak fairness of its only next step.

## 4. What is proved

Every safety property that a passing run checks, invariant or action property,
is also a theorem: for every number of threads, blocks, calls, records and words
and every choice of the flags, unless the theorem says otherwise.

`MemStatsProofs` (mode 1)
* `TypeCorrect`, `BlocksAreExclusive`: types, and `Ownership`.
* `MaximumIsExact`: `MaxIsPeak`, and `MaximumIsMonotone`: `MaxMonotone`, which
  no run checks as it follows from the same invariant.
* `CountersAreExact`: `CountersExact`, which is about `ms.current` and the
  difference of the totals, and `ReportIsTrue`: `ReportTrue`, which has the
  counts of `malloc` and `free` as well.

The inductive invariant is `TypeOK /\ Control /\ Ownership /\ MaxInv`. `Control`
says which operation a program counter can belong to (the subtraction in
`cur_sub` is only reached with a size in `req`). `MaxIsPeak` is not inductive: it
speaks about the moment when nobody is raising the maximum. `MaxInv` adds why the
moment comes with the right value: as long as `ms.max` is below the peak, a
thread that produced the peak is still in the loop, and a thread leaves the loop
only when `ms.max` is at least its value.

The two theorems about the counters have hypotheses. `Fits(m)`: no request is
larger than m, and neither the calls nor m bytes for each of them reach `Wrap`,
which is 2^64 in the code, so a counter cannot wrap in the runs it speaks about.
`~ZeroRealloc`: the application does not call `realloc(NULL, 0)`, whose block has
a header that was never written. The instance of `stats_joined` satisfies both.
The argument is a ledger (`CounterInv`). Each thread inside a wrapper has debts:
what it has yet to add to or to take from each counter (`OwedCurrent`,
`OwedTotals`, `OwedOps`), and `ms.current`, the difference of the totals and that
of the counts of `malloc` and `free` are what the heap says they should be, give
or take the sum of the debts over all threads (`Ledger`). An access pays a debt: it
changes one counter and the debts of one thread by the same amount (`Books`), so
each action has a row in one table (`Account`, `Moves`, `Posts`, `Agree`). The
bound on what can be in flight (`Fits`) turns the equations between integers
into equations modulo `Wrap`. `ReportInv` says that of the lines that were
printed each has the value of its counter, since nobody is left to change it.

`AllocHistoryProofs` (a log that is a history)
* `ChainsAreLinear`: `ChainsLinear`, `LeaksAreLooseEnds`: `LeaksAreOpen`.
* `HistoryReplays`: for every k, the record that the k-th one continues is among
  the loose ones of the first k - 1, with the right address, and an address that
  the k-th one brings in is not (`ReplayInv`).

The strengthening `OpenInv` says that `open` points, for each address, to a
record that leaves that address behind and that nothing continues. So the loose
records at the end of the log are those `open` points to, which makes the guards
of the abstract actions, stated with `open`, facts about the log alone
(`ReplayStep`); these stay true when the log grows.

`TraceSaveProofs`, part 1 (`Recorder`, modes 2 to 5)
* `TypeCorrect`, `AddressesAreExclusive`: with refused requests, lost records,
  moving blocks and threads that exit.
* `LogIsFaithful`: under `ChainSafe`, `LogMatchesHeap`.
* `RecorderImplementsHistory`: under `ChainSafe`, `LogIsHistory`, that is, every
  step of `Recorder` is a step of `AllocHistory` or leaves its variables alone.

`IInv` adds to the types that a thread's record has the shape its operation
gives it (`Shape`) and that its profile exists (`ProfileExists`). `SafeInv` is
`LogMatchesHeap` with what makes it inductive. The argument: an address has an
open chain exactly while its block is with the application, or in a call whose
releasing record is still due or whose acquiring record has been made; by
`Ownership` an address cannot be in two of these places; so an `ALLOC` meets a
closed address and a `FREE` or `REALLOC` an open one. These are the cases in
which `build_chains()` calls `abort()`.

`ChainSafe` is a condition on the constants. It excludes refused requests, and
calls that overlap a `realloc()` of another thread that moves its block
(`MovesOverlap`), for which `save_racing_realloc` shows what happens; a refused
`malloc()` is recorded as an `ALLOC` of NULL, and `build_chains()` aborts at the
second one. While a block is moved and its record is due, no other thread is past
`get_mprofile()` (`SafeInv`), so nobody is given the old address. It also excludes
lost records: a block whose record was lost has no chain, and its `FREE` is one
that `build_chains()` does not know.

`TraceSaveProofs`, part 2 (the exit handler beside the threads; racing exits,
failing allocations, moving blocks included)
* `SaveTypeCorrect`: `SaveTypeOK`; `SaveKeepsOwnership`: `Ownership`.
* `NoRecordIsLost`: `RecordsAccounted`.
* `OutputIsTheHistory`: `OutputIsHistory`.

`SInv` is `IInv` with four parts: the profiles the handler works on exist
(`HandlerOK`), ids are taken ones (`IdsOK`), no two records in lists, sorter and
threads share an id (`Unique`), and every id taken is somewhere unless a profile
was freed under a running thread (`Kept`). `RecordsAccounted` is `Unique` and
`Kept` in terms of places. For the output, `Collected` says how far the walk is:
what it has passed is empty, and the master's list has the records 1 to n when n
records left the sorter. The least id left is then n + 1: it is somewhere by
`Kept`, nowhere else by `Unique` and `Collected`, so in the sorter.

`TraceSaveProofs`, part 3 (`build_chains()`; under `ChainSafe`, joined threads)
* `SavedLogIsFaithful`: `LogMatchesHeap`, and `SaveImplementsHistory`:
  `LogIsHistory`, of the wrappers together with the handler.
* `SavingSucceeds`: `SaveSucceeds`; `ChainsAreTheHistory`:
  `ChainsFollowHistory`; `LeaksAreTheHeld`: `LeaksAreHeld`.

The invariant of the abstract log is carried over to `hist`. `RecInv` says that
a record with an id says what the history says at this id; with `Collected` and
`Kept` the master's list then is the history (`MasterIsHistory`). `Links` is the
loop invariant: after k records the tree holds those that are loose among the
first k, and the links are those of the history. `ReplayInv` at k + 1 gives, for
each branch of the loop, what its assertion or its search needs; `ChainsLinear`
gives that no link is set twice. At the end the loose records correspond one to
one to open addresses, which `LogMatchesHeap` says are the blocks held.
`CallsInv` bounds the ids by the calls made, so that the links have a place.

`ProfileMergeProofs` (stack sets; any profiles, records, stacks, failing
allocations of sets and copies)
* `Invariance`: `MInv`; `TypeCorrect`: `TypeOK`.
* `CountsAreRecords`: `SourceCountsRecords`; `MergeKeepsStacks`:
  `RecordsKeepStacks`; `MasterIsKept`: `MasterKeepsStacks`, an action property.
* `ReaderIsRight`: `ReaderFindsStacks`.

`MInv` has the two trees of each set agree (`SetsInv`), every record refer to a
stack its set holds under its id (`RecordsInv`), and the count of a stack be the
number of its records in a set that is still to be merged and at least that in
the master (`CountsInv`), so a count that reaches zero has no record left.
Records of a stack are counted by places in a list (`Instances`), for which
`InstancesAppend` and `InstancesTail` are the two facts used. `ReaderFindsStacks`
is about positions and needs more (`NInv`): where all ids of the master are
distinct they are 1 to n (`DenseInv`). An id given out in a profile's set has a
stack, and the records meet them in that order (`Numbering`, `InOrder` in
`OrderInv`); so when a record brings its stack into the master, the stacks with
the smaller ids are there, and by a pigeonhole its id is n + 1 at most.

`ProfileReportProofs` (`mprofile.py`; any log of `AllocHistory`)
* `LeaksAreTheBlocks`: `LeaksAreBlocks`; `FiguresAreRight`: `FiguresAgree`;
  `ChainsArePartition`: `ChainsPartitionLog`; `PeakIsKept`: `SamplesKeepPeak`.

What a reader computes is a function defined by recursion along the next-ids.
These lead forward (`NextFacts`), so the recursion is well founded, a function
that satisfies it exists (`DownRecursion` in `SumTheorems`), and the definition
is one (`LastOfIsLoop`, `GetLeakSzIsLoop`, `GetChainIsLoop`, `CurrentIsSum`). The
invariant `RInv` gives each record the record its block began with, its number
in the history of the block, and the size of the block after it (`TraceInv`; the
three functions exist and grow with the log), and has the deltas add up to the
bytes in use (`SumInv`) and the blocks started be those open or freed
(`CountInv`). Then: the loop from an `ALLOC` ends at the record `open` points to,
with the size of the block, and two blocks do not share a beginning, which gives
the leaks one by one; a record is in the chain of its beginning at its number and
nowhere else, which gives the partition; sums renamed along that bijection give
the figures (`SumRenamed`); and the slices, by the arithmetic of division
(`SliceFacts`), are ordered, cover the log, are shorter than one part in count
of it and at least as many as were asked for.

`BacktraceProofs` (any libraries, tables, frames and threads)
* `TypeCorrect`; `LibrariesAreReadOnce`: `ShlibsAreDistinct`, not checked by a
  run of its own.
* `SearchIsExact`: `LookupIsExact`. The part of the table between `lo` and `hi`
  contains every function that covers the address (`Window`), provided no
  function ends behind the end of one with a larger address (`Orderly`).
* `BufferIsSafe`: `StaysInBounds`, `OneStackIsPrinted`: `OneStack`, from `Alone`:
  without overlaps one thread is collecting, `top` counts its frames and the
  buffer holds them.
* `StackIsFinal`: `CollectedIsFinal`, an action property.
* `NamesStayLocal`: `NamesAreLocal`. `LocalInv` says that an entry of the table is
  a function of its library as libelf gave it, but for a size filled in
  (`Origin`), and that such a size ends before the next function of the same
  library (`Filled`). With `MappingAssumption`, a library is mapped in one piece,
  a frame an entry covers is in its library.

`Base64TestProofs` (any lists of words after `-f` and `-a`)
* `TypeCorrect`: `TypeOK`; `HandlersAreFound`: `HandlersFindTheirCode`;
  `OptionsAreObeyed`: `OptionsDecide`; `TargetsPass`: `TestTargetsPass`.

`CodeInv` says which code is in memory between which steps (`PlaceInv`) and what
is left to be called of it once `dlclose()` has returned (`ExitInv`), which are
the cases of `CodeIsGone`. `FlagInv` is the loop
invariant of `parseFlags()`: the words before the current one have left their
flags in `mode`. `ArmInv` follows the one handler from the argument to the list
of OpenSSL, and `Progress` says for each step what a target of the Makefile has
reached there.

`SumTheorems` holds what the library lacks: sums over finite sets by
`SumFunctionOnSet()` (`SumAdd`, `SumChange`, `SumRenamed`, `SumSupport`, ...), and
induction stated about a set of numbers or of sets (`NumberInduction`,
`SetInduction`, `DownInduction`), derived from well-foundedness without an
operator as a parameter.

Assumptions used: the named ones on the constants. `Threads` and `Addrs` are
finite, NULL is not an address, sizes and bounds are natural numbers, address 0
is in no library, a library is mapped in one piece, an absent option is not a
list of words, and the like. TLC evaluates all of them on every instance.

## 5. What is only model-checked

* Liveness (`CallsReturn`, `SaveEnds`, `PrintEnds`, `ProcessEnds`): TLAPS does not
  prove properties under fairness.
* The four expected violations of section 6: they are counterexamples.

## 6. What the models show about the code

Properties a comment, an assertion or the documentation states, and a run
violates:

* `save_racing_realloc`: `realloc()` releases the old address in libc, then
  `mprofile_record_realloc()` takes the id (`record.c:386`). Another thread can
  be given the old address in between and take the smaller id. `build_chains()`
  then meets an `ALLOC` of an address whose chain is open and aborts at exit.
* `merge_abort`: a stack moved into the master with its own id does not raise the
  master's `stset_id` (`stack.c:309`). The id generated later for another stack
  can be the one moved in, and `assert(chk_mps_id == NULL)` at `stack.c:319` ends
  the process. A stack added by `mprofile_add_stack()` can get an id that is taken
  in the same way, without notice.
* `symbols_second_library`: `kelf_open()` reads the symbols of a further library
  from index `syms->nsymb` on (`ksyms.c:132`), the number of functions kept so
  far, instead of from the start. Frames in the functions it skips are printed
  as addresses, though the library is loaded.
* `samples_asked`: `samples()` rounds the length of a slice down
  (`mprofile.py:359`), so n samples asked for can become up to 2n - 1, where
  `ReadMe.txt:105-106` promises n. The peak survives it (`SamplesKeepPeak`).

Other behaviour the models have, for which there is no run of its own:

* `realloc(NULL, 0)` in mode 1 returns an address behind a header that was never
  written (`init.c:372`, `ReallocNullZero`), so a later `free()` of what
  `OPENSSL_realloc()` returned aborts unless the memory held a valid header, where
  `ReadMe.txt:46-48` has it abort on memory that is not from these calls only;
* a refused `malloc()` is recorded as `ALLOC` of NULL (`init.c:427`), and
  `build_chains()` aborts at the second such record (`LinkAlloc`);
* with a thread that was not joined, a record goes to a list that the exit handler
  has drained, or to a profile created behind its walk, and is not in the file
  (`record.c:548`), where `ReadMe.txt:66` has all calls recorded; the handler can also free a profile that is still written to
  (`UseAfterFree`, `record.c:576`);
* two threads at int3 before the flag is set mix their frames in one buffer
  (`backtrace.c:120`, `overlap`), and can write behind it;
* `test.implicit` without `-a` reads `atExitFuncs` before it is set
  (`implicit.c:120`) and may arm any handler, where `ReadMe.md:11` says none;
* an application that never calls the allocator crashes in the handler for want
  of a master (`SaveProfilesDone`); a failed `mprofile_create()` is dereferenced
  (`CreateProfileFails`);
* `realloc(b, 0)` is recorded in modes 3 and 5 before its backtrace is collected
  (`RecordEmpty`);
* a stack set that could not be allocated is passed on to the merge, where it is
  looked up through NULL once a record of another profile has a stack
  (`MergeStack`);
* the copy made at `stack.c:340` starts with the whole count of the source and is
  then counted up for the rest, 2n - 1 for n records, which is why
  `RecordsKeepStacks` says "at least";
* in the modes without chains the reader calls every allocation a leak
  (`LeaksAreBlocks` says how many too many);
* the exit handler can print a stack while it is collected, and a stack deeper
  than the buffer is stored behind it (`StoreOutside`);
* in base64.so a list of handlers after `-a` is refused with a message that
  prints a pointer that was not set; a message that was encoded in part is
  decoded without notice.

## 7. Order of the work, and what is not modelled

Modelled, in this order: `MemStats`, `AllocHistory`, `Recorder`, `TraceSave`,
`ProfileMerge`, `ProfileReport`, `Ksyms`, `Backtrace`, `Base64Test`, with the
proofs of section 4. Left to prove: how often a stack copied into the master is
counted exactly (`RecordsKeepStacks` says at least), and the two theorems about
the counters of mode 1 for an application that calls `realloc(NULL, 0)`, where
what holds is weaker.

Not modelled:

* the choice of the mode from environment variables in `mprofile_start()`: it is
  read once before any other call; the modes are parameters of the modules here;
* the wording and layout of the files written and printed, the templates, the
  sample programs, and the options and plots of `mprofile.py`. In the wording one
  mistake was seen: the loop of `get_annotation()` (`record.c:628-634`) writes a
  backslash for a quote but does not step over the quote, so a quote in the
  annotation fills the rest of the buffer with backslashes;
* `utils/tree.h` and `utils/queue.h`, which are third-party;
* refused memory in `ksyms.c`, and the variant of backtrace.test with libunwind,
  whose handler stores nothing;
* `base64.dll` (two calls into OpenSSL, without exit handlers), the shell scripts
  (straight lines around other programs).
