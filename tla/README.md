# A verification project for python-memtools

python-memtools takes a snapshot of the memory of a running CPython 3.10
process and analyses it in a shell. These modules model the program in TLA+;
TLC checks the models on small instances, and TLAPS proves theorems about them
for every value of their constants.

Paths are those of the repository: `MemoryReader.cc` is `src/MemoryReader.cc`.

## The system

| Component | State | Operations | Hard behaviour | Correct when |
|---|---|---|---|---|
| **Dumper** (`MemoryReader::dump`, `ranges_for_pid`, `ProcessPauseGuard`) | the target process, a list of ranges, one file per range | pause, read the map, open the memory, copy ranges in several threads, resume | the stop is asynchronous; ranges vanish, reads and writes fail, the directory is missing, the dumper is killed | the files show one moment; nothing that can be read is lost; the target always runs again |
| **Streaming dumper** (`dump_memory.py`) | one output stream, or a directory | the same, sequentially | a range that vanishes becomes an empty record; the stream is cut in the middle of a record; an interrupt at any statement | what arrives can be loaded or is refused; the target runs again but for an interrupt at two places |
| **Snapshot reader** (`MemoryReader`) | mapped files, regions by snapshot address and by host address | load a directory or a stream, look up, read, `exists*`, `obj_valid*`, translate host pointers back | duplicate and overlapping regions, empty ones, addresses at 2^64 | what exists can be read; the result does not depend on the order of the directory |
| **Parallel scan** (`MemoryReader::map_all_addresses`) | an atomic counter of blocks, each worker's block, region and position, the progress line | claim a block, call back, join | workers race for blocks; blocks meet the ends of regions; exceptions in threads | every eligible address once, none beyond its region, all of them before the return |
| **Analysis data** (`Environment`, `AnalysisShell::prepare`) | base type, type objects by name, `analysis-data.json` | load, find the base type, find the types, save | duplicates by name, crash while saving, data of another snapshot | the saved data describes the memory that is loaded |
| **Object validity** (`invalid_reason`, `direct_referents`) | none | check one object of each type | corrupt lengths, missing types, exceptions in worker threads | only readable memory is read |
| **Traversal** (`Traversal::repr`) | depth, objects in progress, limits | print one object and what it contains | objects that contain themselves | ends, within the limits, and restores its state |
| **async-task-graph** | the awaits of every task, future and gather; roots; what a tree has shown | collect (in the scan's threads), find the roots, print the trees | cycles, shared targets, any order | every tree complete, every deadlock flagged |
| **find-all-stacks** | frames by address, their `f_back`, roots | collect (in the scan's threads), find the roots, follow the chains | cycles of `f_back`, gaps, chains that meet | every trace is a chain of calls; none is missing; ends |
| **Searches and counts** (`find`, `count-by-type`, `find-all-objects`, `find-references`, `find-module`, `find-all-threads`, `aggregate-strings`) | per-thread or locked results | a scan with a callback, then a report | results merged from threads, sizes at region ends | the report is what one thread alone would give |
| **Decoders** (line tables, dict entries, ints, strings) | none | decode | boundaries | equal to CPython's own |
| Shell front end, `main`, build files, examples | - | terminal input, dispatch by name, arguments, `chown` | - | not modelled |

`main` either dumps, or builds an `AnalysisShell`, whose `Environment` owns the
`MemoryReader` that loads the snapshot. `prepare` finds the types, and a command
of the shell is nearly always a `map_all_addresses` whose callback runs in the
scan's threads, checks objects with `invalid_reason`, and adds to results under
a mutex or in a slot of its own thread; the report follows when the scan has
returned. The scan is therefore the module everything else stands on, and what
it promises, `AbstractScan`, is what the models of commands use in its place.

The hazards that the properties are aimed at, each at its line, are listed in
`PROJECT.json`.

## Modules

**AbstractScan** is the contract of a scan: the callback runs once for every
eligible address, in any order; the call returns when it has run for all, or
refuses the request before it has run for any.

**ParallelScan** is `map_all_addresses`. A call (`scan`) is the list of region
sizes, the stride and the object size. The caller's thread: `Refuse` (the two
tests of the stride), `Measure` (one turn of the loop over the regions;
reading an empty region throws), `StartThread`, `ShowProgress`,
`StopProgress`, `Join`. A worker: `Claim` is the atomic `fetch_add`, which is
the only shared access, together with the private search for the region that
follows it; `Visit` is one turn of the loop over `z` with its call of `fn`. Unsigned
subtraction wraps at `Word`. Where `pget` would throw, the process is
"terminated", as nothing catches an exception in a thread. `visited` is a
history variable. `Promised` is the refinement mapping to `AbstractScan`.

**Dump** is `MemoryReader::dump`, with the target and the kernel as its
environment. The dumper's main thread: `MakeDirectory`, `Pause`, `ReadMaps`,
`OpenMem`, `JoinThreads`, `Resume`, and the failures of each; the threads of
`phosg::parallel`: `Claim`, `OpenFile`, `CopyChunk`, `CopyFails`. `kill` only makes the
signal pending (`stop_pending`); until `StopTakesEffect` the target writes and
unmaps. Any exception outside the copy loop's handler ends in `Terminate`, which
leaves out the guard's destructor because `main` catches nothing. `image` is a
history variable: the target at the moment its map was read. A chunk (1 MB in
the code) is copied by one `pread`, and is modelled as copied at one moment: for a
stopped target this is exact; for a running one no property is claimed.
`program` says which dumper runs: `dump_memory.py`, to a directory or to a stream, shares the
pausing and the list of ranges and has its own steps, `Script...`, `EnterTry`, `ReadPiece`, `ReadEnds`,
`ReadRaises`; `read` collects a range piece by piece, as the target may go away in
between. The two writes of a record are `ScriptBegins` and `ScriptWrites`. Its `finally` is
`ScriptResumes`, reached also from an exception and from an interrupt. `KeyboardInterrupt` comes at every
statement and may cut what is being written anywhere (`CutShort`): before the stop it ends the script, in the
`try` block it leads to the `finally`, and between the stop and the `try`, or in the `finally` before the
SIGCONT, it ends the script with the target as it is (`"abandoned"`). `stream` has the whole records
that have been written, for each range its start and its
length, then its data, and `tail` the beginning of one more. `LoadStream` is what the snapshot reader makes of a stream (`LoadFrom`,
a recursive function, is its loop), and with it the
properties of the snapshot are stated of both forms (`Snapshot`).

**TaskGraph** is `async-task-graph`. `Collect` is one callback of the scan (an
`AVisit` of `AbstractScan`, so any order of the objects); the update of the map is
atomic because `output_lock` is held. `FindRoots` is the two loops over the
map. `print_entry` is recursive in the code; its activations are the elements of
`stack`, each with the targets its loop has left, and `Enter`, `PrintNext` and
`Return` are its beginning, a turn of its loop, and its end. Sets of addresses are unordered in
the code, so every order is taken. Whether an object is valid, and whether a
gather's children can be read, is part of the heap that `Init` chooses.

**RegionMap** is the snapshot reader. `LoadFile` is one entry of a directory, in any
order, with the files that are passed over; `LoadThrows` is a name without an address, or a file that cannot be
opened or mapped; `LoadRecord` is one turn of the loop
over a stream, in its order, up to an incomplete record, which throws; `Loaded` is
the end of the constructor. A file or a record enters both maps (`AddRegion`,
with `emplace`, which keeps what a key already has). The lookups change nothing,
so they are operators: `FindByMapped`, `FindByHost`, `ExistsRange`, `Read`, `ObjValid`,
`ObjValidOrNull`, `HostToMapped`. They compute modulo `Word` where the code computes in
`uint64_t`. `mmap` is external: it may return any address of `Hosts` that is not in
use.

**Analysis** is how a shell gets to know the types. Per shell: `Load` and `LoadThrows`
(`Environment`), `VisitForBase`, `FoundBase` (`find_base_type_object` and the first half
of `prepare`), `PrepareTypes`, `VisitForTypes`, `FoundTypes` (the second half), and `Tear` and
`Save`, which are the opening, which truncates, and the writing of
`analysis-data.json`. The visits are those of `AbstractScan`. The user may start
several shells on one snapshot, `Kill` any of them anywhere, and make the snapshot
again (`Redump`, once, with no shell running). `redumped` and `clash` are history
variables. That `phosg::save_file` truncates and then writes, from its beginning,
is an assumption about a library.

**Traversal** is the printing of an object with all that it contains:
`Traversal::repr`, the guards and limits, and of every type its `invalid_reason` and
its `repr`. `repr` is recursive in the code; its activations are the elements of
`stack`, each with the parts it has left to print (a *part* is a piece of a `repr`
with its own handler of exceptions, indent or limit: a frame's `where`, its
fields, its locals). `Repr` is a call from a command, `ReprItem` a call from an
activation, `NextPart` goes from one part to the next, `Return` runs the
destructors of the guards, and `Unwind` is an exception on its way through an
activation, up to a part that catches it. Which kinds check the depth before or
after the cycle, indent, or have no guard at all is in `Refused`, `Guarded` and
`Indent`. The memory is a graph of objects that `Init` chooses: an object may be
intact, or its sizes may contradict each other, its table may not be readable, its reference count or its
type may be overwritten, and its pointers may lead to nothing, or, if they are stale, to any other
object. Each check of a kind ends in a reason or in an exception as the code does: a list's, a set's and a dict's table
that cannot be read throws `out_of_range`, which only `Traversal::repr` makes invalid. `MaxStack` is how many
activations the process's own stack has room for; a repr that fills it never ends (`Over`). A thread state is no Python object: it is checked by
`ThreadCheck`, and only printed as the first activation. `expanded` and `roots` are history variables.

**Stacks** is `find-all-stacks`. `Collect` is one callback of the scan (an `AVisit` of
`AbstractScan`, with `output_lock` held where it adds to the record), `CollectThrows` one that
throws in its thread, `FindRoots` the two loops over the record, `StartTrace` and
`PrintFrame` the printing. What each frame is (its check, whether that comes as far as looking the type of code
up, its state, its `f_back`) is chosen by `Init`, so it may be any overwritten memory. `traces` and `warned` are history
variables.

**Collect** is the commands that search and count. A callback reads memory that does not
change, so its decisions are one step (`Call`, or `CallThrows`), and what it does is a
sequence of steps that other threads' callbacks interleave with: `Count` (an atomic
increment), `Lock` and `Unlock`, `PrintRepr`, and `ReadResult` and `WriteResult`, which are
an addition to a result that is not atomic. Whether a result has a slot of each thread
(`count-by-type`) or is shared (`aggregate-strings`) is in `Slot`; which commands lock, when they
print, and what is printed only if its repr is valid follow each command's callback, and so does the size with which
each scans (`Scanned`): an object has `room` or is one of its region's last.
`ScanReturns` is the end of the scan and `Report` the adding up of all slots.

**Decoders** is how the values of ints, strings, dicts, sets and line tables are read from
their bytes: `ReprInt`, `ReprString`, `ReprDict`, `ReprSet` and `FindLines` each check one object
and decode it. `object` has both what lies in memory and, for dicts and sets, what Python takes
it for; the references (`IntIs`, `Character`, `PythonLine`) are written from CPython 3.10's
formats. The sizes of a word, a digit and a byte are parameters, so that their
boundaries can be reached; characters and UTF-8 are the real ones. `LaidOut` is what CPython
lays out, and in which ways an object may have been overwritten; `GivenAssumption` says it of the
objects considered, and the run evaluates it. Sums, numbers and what is kept of a sequence are
recursive functions, which the provers can use. The module's specification is `DecodeSpec`, as its
proofs share a module with RegionMap's.

**ParallelScanProofs**, **TraversalProofs**, **DumpProofs**,
**AnalysisProofs**, **TaskGraphProofs**, **StacksProofs** and **CollectProofs** hold the theorems about the module
each is named after, and **ReaderProofs** those about what reads a snapshot, RegionMap and Decoders. The **MC** modules give the constants their small values.

## Runs

| Run | Shows | Bounds, and why they are enough |
|---|---|---|
| `scan` | no eligible address is lost, repeated or outside its region; blocks are disjoint; ParallelScan implements AbstractScan, its progress included; which calls end: all of whole pages, but those accepted with stride 0 that have something to scan, which never do | 2 workers, blocks of 4 bytes, up to 3 regions and 3 blocks: a block at the start, inside and at the end of a region; objects shorter than, equal to and longer than a block; strides from 0 to twice the block, of which those that are no powers of two are refused; empty snapshots, and an empty region in each place |
| `dump` | the snapshot shows one moment, loses nothing that could be copied, copies nothing else, and leaves the target running, for the dumper and for the script, which abandons it only where an interrupt comes between the stop and the `try` or in the `finally`; of a stream every beginning, also one that an interrupt cut in the middle of a record, is refused or loads as whole regions; dumping ends | the dumper, the script to a directory and to a stream; 2 threads, 4 lines of the map (two to copy, one shared, one unreadable), ranges of 1 and 2 chunks, 1 write of the target: one write is enough to tell two moments apart |
| `dump_paused` | a counterexample to `PausedTemporarily` | 1 thread, no write |
| `task_graph` | trees are complete, deadlocks flagged, nothing is left out but what lies behind a cycle that no root leads into, the command ends | all graphs on 4 objects: chains, diamonds, cycles with and without an entry, gathers of none and two, invalid objects |
| `task_graph_seen` | a counterexample to `SeenMeansDeadlock` | graphs on 3 valid objects |
| `region_map` | lookups are right whatever the order of loading; what exists can be read; addresses survive the way to the host's memory and back | word 16, so every address and every length is tried; directories of one dump (regions that touch, empty and foreign files) and of two (grown, vanished and overlapping regions); streams with empty, incomplete and no records; 6 places in the host's memory, some of which touch |
| `null_or_valid` | a counterexample to `NullOrValid` | one ordinary dump of 3 regions |
| `analysis` | a shell that is ready knows the only base type and all types; the file never holds half an analysis; who is refused | 2 shells, of which each can be killed anywhere; snapshots with one base type and two types of one name, with two base types, with none. Two shells are enough for one to open the file between another's opening and writing |
| `traversal` | an object is refused as recursive exactly while it is being printed; depth, limit and objects in progress are what they were when the printing is over, also after exceptions; nesting is limited; without limits everything reachable is shown, and the result is marked invalid exactly if something in it could not be read, as far as items are checked; printing ends without filling the process's stack, unless short coroutines have each other for names | graphs of 3 containers of 5 shapes (a cycle of three, shared objects, cycles in cycles, overwritten and missing objects) in every combination of list, set, dict, tuple and cell; lists, sets and tuples that hold one whose table cannot be read and one whose sizes contradict each other; coroutines whose stale names are coroutines, types, code and user objects, with frames that cannot be read; a gather, task, coroutine, frames and generator that hold each other in a cycle; thread states with a frame, with none and with a pointer to no frame; types and user objects in cycles; 10 settings, with each limit by itself and together; 2 objects per Traversal, as a second one is what an unrestored state would spoil; 16 activations at a time, more than the depth of any of the graphs |
| `stacks` | every trace starts at a frame that no other was called by and goes from caller to caller; no frame is missing but those on a cycle; warnings stand where a chain leaves the record; the command ends exactly unless a chain that starts at a root runs into a cycle | all memories of 3 frames (each invalid, with an invalid repr, without code, over, runnable or running, called by any frame, by none, or by nothing readable), with and without `--include-runnable` and the code type: chains that meet, gaps, cycles with and without an entry |
| `collect` | the report is that of one thread alone, however the callbacks interleave; the command ends, with its report or with the process | 7 commands with their options, 2 threads, 3 objects of 10 sorts, one of which is at the end of its region; 3 objects are needed for a thread to come back to a result after the other has changed it |
| `decoders` | what is shown of a value is what Python takes it for; the line found is Python's | a digit of 3 bits, a word of 8, a byte of 3, in the code's proportions: all ints of up to 2 digits, of 3 at the limits of each digit, and some of 4, of both signs, at the start and the end of a region and further in, with a digit missing; sizes whose bytes wrap around a word; strings of up to 3 characters at the limits of UTF-8, with every limit around them; dicts with one-byte and two-byte tables, deleted entries, split tables, and any index overwritten; sets; line tables of up to 3 ranges, at every offset |

Three runs show a counterexample: `dump_paused`, `task_graph_seen` and `null_or_valid`. Each finds a
sentence of the repository to be wrong; `PROJECT.json` quotes the sentence and says
what the code does instead. All others pass. Some of the properties that pass name an exception
where the code does less than a sentence of the repository says; the section on departures lists them.

`WholePages` and a stride above 0 are the preconditions of `OnlyEligible` and `CompleteAtReturn`, and a stride
above 0 that of `ImplementsAbstractScan`:
`dump` writes ranges of whole pages, and every command but `find --align=0` has such a stride; that one
never ends, which `EndsUnlessStrideZero` says. Where the file of a region ends inside a page (a dump
to a full disk, a copy cut short), the block that straddles its end skips the
beginning of the next region, and the scan is not complete.

### Fairness

`ParallelScan`: weak fairness of the caller and of each worker, since the
operating system runs every thread that can run; nothing blocks in a scan but
`join`. `Dump`: the same for the dumper's threads, and a pending signal is
delivered; nothing is assumed of the target, which may never write or exit, nor
of the user, who may never interrupt or kill. The script is one thread. `TaskGraph` and `Stacks`: one thread prints; the
scan's progress is what ParallelScan implements (`ASpec` has weak fairness).
`Collect`: weak fairness of each worker, and of the caller that joins them and reports. The
mutex need not be fair: there are only finitely many objects for another thread to
hold it for. `Traversal`: weak fairness of the steps of the one thread that prints; none that
a command prints another object. Its `Ends` leaves out `ShortCycle`, the memories in which short coroutines have
each other for names: these recurse until the process's stack is full. `RegionMap`, `Analysis` and `Decoders` claim no progress and
have no fairness.

## Where the code departs from what one may expect

The properties state what the code does. Three runs show a sentence of the repository to be wrong by a counterexample:

- A dumper that ends by an exception leaves its target stopped (MemoryReader.cc:210), against
  Main.cc:44-45 (`dump_paused`).
- `<!seen>` also marks an object that is awaited twice without a cycle (AnalysisShell.cc:743), against
  README.md:29 (`task_graph_seen`).
- `obj_valid_or_null` accepts every aligned pointer (MemoryReader.hh:277), against README.md:153
  (`null_or_valid`).

Elsewhere a passing property says what holds instead of the sentence, and names the exception:

- `find --align=0` is accepted and never ends (MemoryReader.hh:196), though :197 says "Stride must be a
  power of 2": `EndsUnlessStrideZero`.
- A cycle of tasks that no task outside awaits has no root, so that it is not printed at all
  (AnalysisShell.cc:726-735), though README.md:29 and the help (:655) say that all tasks are found
  and shown: `HiddenOnlyBehindCycles`.
- A list indents after its items have been printed, so lists do not count towards the
  maximum depth (PyListObject.cc:68), though the help (AnalysisShell.cc:801) promises to limit it:
  `LimitedNesting`.
- `aggregate-strings --print-larger-than` alone prints nothing, because the upper limit defaults to 0
  (AnalysisShell.cc:579-580, 619), against the help (:642): `NoUpperLimit` in `ReportExact`.
- `count-by-type` scans with the size of a type object, so that smaller objects in the last bytes of
  a region are not counted (AnalysisShell.cc:293), against the help (:278): `Overlooked` in `ReportExact`.
- An int of three digits that does not fit a word is shown without any digit: its case falls
  through to a loop that has none left to read (PyIntegerObjects.cc:54-66), though README.md:155 says that
  ints are understood and formatted: `IntRight` in `ShownRight`.

Where the code is weaker than a user may expect, without a sentence that says otherwise, the property says so, or
one of these does:

- An interrupt of `dump_memory.py` right after the SIGSTOP, before the `try`, or in the `finally`
  before the SIGCONT, leaves the target stopped (dump_memory.py:28-29, 66).
- A short coroutine has neither a guard nor a limit: a stale `gi_qualname` that leads back to it is printed until the
  process's stack is full (PyGeneratorObjects.cc:82).
- The limit of a type's dict is put back by hand, and stays when an exception leaves it
  (PyTypeObject.cc:259-262).
- A size is multiplied by the width of what it counts without a check, so that a corrupt one whose bytes overflow
  a word passes as a smaller one (PyStringObjects.cc:104, PyIntegerObjects.cc:8). `ShownRight` says nothing of these.
- The int 0 has a digit in memory that is not read; where that would be at the end of a region the int is
  dropped (PyIntegerObjects.cc:8).
- The progress line's index of the region is one too high, and past the end of its vector in the
  last region (MemoryReader.hh:247-250). `ShowProgress` has the index.
- `find-all-objects --count` also counts objects whose repr turns out invalid
  (AnalysisShell.cc:355), which are not printed without `--count`.
- A frame that fails its check inside `check_valid_and_repr` leaves `is_valid` true (Base.cc:294), so
  `find-all-stacks` keeps some frames with broken fields.
- A callback that throws (a frame's check when the code type is not known, PyFrameObject.cc:34) ends
  the process: no handler is on the stack of a worker.
- A range that vanishes while it is streamed leaves an empty record. The stream loads, but every
  scan of it throws (MemoryReader.hh:209-214).
- When writing a record fails half way, the script goes on with the next range, and the stream
  cannot be read from there on (dump_memory.py:53-61).
- A negative int's size is multiplied with its sign, so what is checked lies before the digits
  (PyIntegerObjects.cc:8); where a region starts there, or ends within the digits, the int is
  dropped or reading it throws.
- A dict with a split table that lacks one of the shared keys is reported invalid
  (PyDictObject.cc:57, 122).
- The deleted entries of a set, which point to CPython's dummy, are listed as items
  (PySetObject.cc:10). `ItemsRight` leaves them out.
- An instruction in a range of the line table that continues a line is given no line
  (PyCodeObject.cc:112); `LinesRight` says where.

## Proofs

Every theorem holds for every value of the constants that satisfies the named
assumptions of its module; the modules' assumptions are the only ones, and TLC evaluates
each of them on a run.

| Module | Theorems |
|---|---|
| ParallelScanProofs | `TypeCorrect`, `DisjointBlocks`, `VisitedOnce`, `VisitsOnlyEligible`, `CompleteWhenReturned`, `ImplementsSafety` |
| DumpProofs | `TypeCorrect`, `NeverLeftStopped`, `SnapshotOfOneMoment`, `NoRangeLost`, `OnlyItsOwnCopied`, `StreamAlwaysLoads` |
| ReaderProofs | of RegionMap `TypeCorrect`, `RoundTrip`, `LookupFinds`, `ValidReads`; of Decoders `ValuesAlwaysRight`, `LinesAlwaysRight` |
| AnalysisProofs | `TypeCorrect`, `FileAlwaysSound`, `ReadyAlwaysSound`, `RefusedOnlyByAClash` |
| TraversalProofs | `TypesKept`, `CyclesExact`, `Restored`, `NestingLimited`, `AllAlwaysShown`, `InvalidExactlyIfBroken` |
| TaskGraphProofs | `TypeCorrect`, `TreesAlwaysComplete`, `OnlyBehindCyclesHidden`, `DeadlocksFlagged` |
| StacksProofs | `StacksAlwaysRight`, `CyclicIsEndless` |
| CollectProofs | `ReportAlwaysExact` |

Every invariant and every action property that a passing run checks is stated by one of these
theorems. But for Decoders, whose two are about a single step, none of the invariants is inductive
as a run checks it: each module of proofs begins with the strengthening. What it adds, and why, is this.

### ParallelScan

For any set of workers, any block size above 0, any word and any set of scans of objects
of a size above 0 (no C++ type is smaller). The invariant adds:

- the *layout*: the offsets are the prefix sums of the region sizes, as far as
  measured, so that they increase and an offset lies in exactly one region;
- *in the region* (`InRegion`): the region a worker is in starts no later than any
  block it may still claim, so its search never has to go backwards, and it holds
  the start of the block the worker visits;
- *disjoint blocks* (`BlocksDisjoint` itself);
- *visited behind* (`VisitedBehind`, where the stride is positive): every visited
  address is placed below the counter, and, where a worker holds the block it is
  placed in, below that worker's position;
- for a *regular* scan, one of whole pages with a stride above 0 (`Regular`): blocks, regions
  and positions are aligned (`Aligned`), and what is eligible and placed below the counter has
  been visited, unless a worker holds the block it is placed in and is not yet past it (`Covered`).

`Place` puts an address `<<r, o>>` at `region_start_offsets[r] + o` in the
laid-out regions. `VisitedOnce` follows: a worker's next address is placed exactly
at its position, and nothing visited is placed there. At the return every worker has
found the counter at the end and holds no block (`Phases`), so `Covered` is `CompleteAtReturn`.
`ImplementsSafety` is the refinement without its fairness, for a regular scan: every step of
ParallelScan is a step of AbstractScan or a stutter, where `AReturn` needs `Covered` and `AVisit` that
what is visited is eligible and new. A stride of 0, and a file that ends inside a page, are the exceptions
under Runs.

### Dump

For any threads (one at least), any memory map, any number of writes. `DInv` is the
conjunction of:

- types, with which program is where and what has not begun (`TInv`);
- before the stop, and after a return or an exception, the target runs and no stop is pending (`SInv`), which is
  `NeverLeftStopped`: of an interrupt it holds wherever it comes before the stop or in the `try` block,
  and an abandoned target is what the property leaves out;
- the ranges are the readable private lines, each once (`RangesInv`);
- a thread's range is below the counter and no other thread's, so that a file belongs to one thread
  while it grows (`ClaimsInv`), and the file is as long as what the thread has copied (`CopiedInv`);
- if the stop had taken effect when the map was read, the memory is that of `image` until the
  copying is over (`FrozenInv`);
- a file is of a range that has been handed out, holds what `image` has of it, and is whole unless a
  thread still copies it or copying it failed (`FilesInv`); the same of the piece that the script
  collects (`DataInv`), and of the regions of a stream (`StreamInv`), which is one record of each;
- an unfinished record is a beginning of the one the script has read, and after it nothing is written
  (`TailInv`);
- a dump returns when nothing is left to copy (`EndInv`).

The stream needs that `LoadFrom` is what its recursion says. A recursive function of TLA+ is
`CHOOSE` of any solution, so `LoadSolution` shows that there is one (by the distance to the end of
the stream) and `LoadRecursion` that `LoadFrom` solves it. `LoadParts` and `StreamGrows` then show that
a record written behind a stream is loaded behind it. With an unfinished record the output is a beginning of the
stream that has the whole of it (`OutputIs`), so that `StreamAlwaysLoads` follows from that each beginning of a stream
is refused or loads as a beginning of its regions (`LoadBeginning`). The steps that write a part of a record or of a
file, an interrupt among them, have one shape (`Half`) and one case in each lemma.

### RegionMap

For any word, any header, any set of host addresses and
any set of snapshots (no region reaches the end of
the address space, as no user process's does). `IInv` says, beside the types, that every region comes
from a record, so that its end does not wrap (`OfRecords`); that each view in the map
by address is also in the map by host, under its own host address (`SameViews`,
which `HostRoundTrip` needs: it looks up in the second what was found in the first);
that regions do not overlap in the host's memory (`HostsApart`, so that the entry
before an address there is the region that holds it); and that a stream is read
in order, each record behind the last (`ReadInOrder`, which `HostsApart` needs).

### Decoders

For objects of any size, any digits, bytes and words in the proportions that `SizesAssumption` names
(a word holds two digits and some bits, and an index is of at least 4 values a byte). The objects are
those of `LaidOut`, which says of each kind no more than CPython ensures: the highest digit of an
integer that `ob_size` counts is not 0, and its region is smaller than the address space; a compact ASCII string
holds no character above 127; a dict's table has the least index width its size has, each place is
empty or leads to one of the entries, no entry is led to twice and no two have the same key; a set
holds a key once; a range of a line table does not end before it begins. What `ob_size`, a length or
a region's end is beyond that is free, and a dict or a set that has been overwritten is anything. A size
may be one whose bytes overflow a word; what is read then is modelled, and `ShownRight` claims nothing of it.
`LaidOut(object)` is all the invariant there is; the work is in what each decoder computes.

- *Integers* (`IntDecoded`): the number the digits stand for is compared with the text without
  being computed. Up to three digits `Number` is written out (`FewDigits`); the third decides
  which word the value fits (`ThirdDigit`), and where it fits none no digit is shown; with four and more, the highest of which is not 0, the value exceeds any word, by
  induction from the highest digit (`ManyDigits`). Whether a negative size's check passes is the
  arithmetic of `DigitsExist` modulo the word, and as long as its bytes fit a word the
  size read is the size (`SizeRead`; for strings `LengthRead`).
- *Strings* (`StringDecoded`): `Encoded` is that `Character` undoes `Encode` for every character; `TakenAre` that there is a number of characters at
  which the loop of `decode_ucs` stops, the least of those that reach the limit.
- *Dicts and sets* (`DictDecoded`, `SetDecoded`): a place of the table is read as the index it
  holds, since twice the number of entries is within the width's range (`PlaceRead`); `Kept` has
  exactly the elements in its set, and as many as there are if they differ (`KeptElements`,
  `DifferentElements`); so the items are what the dict is, each once.
- *Line tables* (`LineFound`): the ends of the ranges do not decrease, so that an offset is in
  at most one range (`OneRange`), and Python's search finds that one, by induction on the ranges it has
  passed (`PythonSearch`).

### Analysis

For any number of shells and any snapshots of a finite set of addresses, each with a type and a
name. `AInv` adds to the types what every shell knows at every point of its program
(`Knows`): the candidates are the base types among what it has visited, the collection is
the types among what it has visited (`Partly`), and what it is about to save is `Sound`. As long
as the snapshot has not been made again, every file that is whole has therefore been written by a shell that knew
the memory it describes (`FileAlwaysSound`), and a shell that is ready got what it knows from one of the two
(`ReadyAlwaysSound`). `Clashes` is for the torn file: unless two shells have saved at a time, the
file is torn exactly while one saves, so that who is refused met a killed or a saving
shell (`RefusedOnlyByAClash`).

### Traversal

For any set of memories and of settings as Traversal
assumes them (`HeapsAssumption`: an address is a positive number, and what is there has
a kind, items and fields, which may lead anywhere; `SettingsAssumption`), any number of objects printed and
any size of the process's stack. `IInv` is about the stack and what
the guards have made of the other variables. `CyclesExact` is part of it and hardly
needs more: an activation with a guard is only begun for an object that is in no other
one's. The rest is about the depth and the limit:

- the depth is what the Traversal was made with plus the activations and the parts
  that indent (`Depth`), so that what an exception leaves halfway is counted as well;
- a type is only ever expanded where nothing is in progress (`StackOK`), which is as a root, or below
  short coroutines, which have no guard, if the name of one is stale. Whatever is below the type is
  in progress or finds it so. So the limit of a type's dict is never set twice,
  and the limit is the Traversal's own unless a type prints such a part (`Limit`);
  where nothing has a guard there is no type and nothing indents (`NoneGuarded`);
- the last part of an activation has no limit of its own (`IsParts`), so that one that
  returns has put the limit back. One that is left by an exception has not, but then
  nothing further out catches it (`NoneCatches`): the only such exception is that the type of code is not known, and where
  that is so an activation without a guard catches nothing (`BareParts`). It reaches the command, and nothing is
  printed after it;
- what nests is within the limit whenever there is an activation that indents
  (`Nesting`), although the limit is lower again after a type's dict: only the type
  itself is still there then.

`AllAlwaysShown` and `InvalidExactlyIfBroken` are one more invariant on top of it, `XInv`. It says, without
limits, that every child of an expanded object has been handled or is an item that some activation of the object
has still to print, and that an activation prints nothing but children of its object (`Exploring`). Handled means
expanded if it can be, and readable if the Traversal is still valid; and if it is not, something unreadable is among
the roots and the children (`Broken`). What makes a step keep it:

- nothing is cut short: without a type among the roots no part has a limit (`Unbounded`), and the only object that
  is refused is one in progress, which is expanded already;
- a code object has more children as a root than as a child. It is printed in the longer form whenever nothing is in progress,
  which must be as a root, as what an activation without a guard prints is neither a type nor a code object
  (`NoRoot`). This is where `NamesOK` is needed, which says that of the names of coroutines and files; and as a root it
  is printed again, although it may have been expanded before;
- nothing is thrown: the one exception that is not made a reason is that the type of code objects is not known,
  and `Unlimited` has it known (`NothingThrows`, which needs what the first problem in a list of checks can be);
- the parts of an object are its children, but for the null entries of a set (`PartsAreChildren`). For that
  `NonNull` is a recursive function and not `SelectSeq`, whose definition the provers cannot use: that such
  a function exists (`NonNullSolution`) and that only nulls are missing (`NonNullItems`) is shown by induction.

With the stack empty nothing is still to come, and `XInv` says what the two properties say.

### TaskGraph

For any finite set of objects and any graph on them. `print_entry` is a depth-first search with one set `seen` for a
tree, and the theorems are two facts about such a search. What has been seen is reachable from the
root, and what a seen object awaits is seen or still to come in the loop of an activation
(`Exploring`); so a tree that is over is all that its root reaches (`TreesAlwaysComplete`). And as long
as the tree has no `<!seen>`, the objects on the stack await each other in a row, and the search is
through with all others, which await nothing but each other and are on no cycle (`NoCycleYet`); so a
tree without `<!seen>` has no deadlock in it (`DeadlocksFlagged`). What no root leads to lies behind a cycle
(`OnlyBehindCyclesHidden`): of the objects that lead to it, take one to which the fewest lead; it is awaited by
another of them, to which it must lead again (`BehindCycle`).

### Stacks

For any finite set of frames and any overwritten memory. The record is the live frames among what has
been visited (`Recorded`). The trace that is printed is a chain of frames that differ, which goes on at `addr`
(`Partial`), or it is among frames that call each other, which it never leaves (`Trapped`); one that is
over is a chain to its end (`Complete`). That none is missing (`StacksAlwaysRight`) needs that every frame
that is not on a cycle is called, in the end, by a root. `CyclicIsEndless` is the safety half of
`EndsUnlessCyclic`: with a cycle behind a root the command is never done.

### Collect

For any finite set of threads and of objects, any memory, any increasing buckets, and every request that the
commands' options can make (only `find` and `find-all-objects` have `--count`). What one thread alone would
report is a sum over the objects it selects, the two exceptions left out; what the threads report is the sum of their slots. `CInv` relates the
two at every moment:

- what is left of a callback is in the order in which the code does it (`Ordered`), and no two callbacks are about
  one object (`Callbacks`);
- a thread is the owner of the lock exactly from its `Lock` to its `Unlock` (`LockHeld`), and what it has read
  and will add to is still what the result has (`Registers`): the slot is its own or the lock is held;
- the results have, in all, the sum of what those objects add whose callback has added it (`SumsRight`), whatever
  slot it went to, and the objects printed are those whose callback has printed (`PrintedRight`), each once;
- when the scan has returned, nothing is left of any callback (`Ending`), so that "has added" is "is
  counted".

That a sum does not depend on the order of its terms is not known of `SumOf`, which is a recursion over sets that
`CHOOSE`s the next element: `SumExists` shows that it has a solution, and `SumUpdate`, `SumPart` and `SumCounts` what
changing a term, leaving out zeros and adding ones make of a sum.

### What stays with TLC

- Liveness under fairness: `EndsUnlessStrideZero`, `Termination`, `Ends`, `EndsUnlessCyclic` where it ends,
  `EndsWithReportOrProcess`, and the fairness of `AbstractScan` in `ImplementsAbstractScan`.
- The counterexamples.
- `ENABLED`, and with it deadlock: that a model stops only where its program does is checked by the runs.

Induction over data is done where it was needed, without a theorem that takes an operator: a set of
natural numbers that is not empty has a least one (`LeastNat`, from the well-foundedness of `<`), so
that a least counterexample can be refuted. For sets (`SetInduction` in CollectProofs) it is the one with the fewest
elements.

## Not modelled

Formatting, wording and terminal output; the commands `context`, `repr`, `regions` and
`show-analysis-data` (each prints, or calls once, what is modelled) and the parsing of options; the shell's loop and `main`'s
arguments; `bytes`, `bool` and `float` (a copy and two conversions); the text of every repr,
of which Traversal keeps what it visits and Decoders what it decodes. In Traversal also slots that
cannot be read, the order in which a frame's locals are printed, the option `bytes_as_hex`
(PyCodeObject.cc:72-88), which changes how bytes are printed; None, for which `invalid_reason` has a reason, is a scalar with bad
content. In Dump a write is cut where it breaks off or is interrupted, as if Python's
output had no buffer: what a buffer holds back is a beginning of the stream all the same.
`direct_referents` is taken as given by Collect. In TaskGraph, Stacks, Analysis and Collect the validity of an object is part of the heap,
chosen freely, where Traversal has the checks themselves. `phosg`'s internals
(`parallel` is modelled from its use: a counter and threads); the kernel beyond
signals, `/proc` maps and memory; `hardware_concurrency() = 0`, for which a scan would never end.

## Plan

`direct_referents` for each type, and `find-references` from it.
