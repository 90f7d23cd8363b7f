---------------------------- MODULE ParallelScan ----------------------------
(***************************************************************************)
(* MemoryReader::map_all_addresses (src/MemoryReader.hh): the scan every   *)
(* search command of the shell is built on.  The calling thread measures   *)
(* the regions, starts the workers, shows the progress until every block   *)
(* has been claimed, and joins them.  A worker claims blocks of            *)
(* BlockStride bytes from one atomic counter that runs through all regions *)
(* laid end to end, finds the region its block starts in, and calls fn for *)
(* every stride-th address at which a whole object fits.                   *)
(*                                                                         *)
(* Offsets in the laid-out regions are 0-based as in the code; regions are *)
(* numbered from 1, so regions[r] here is the code's regions[r - 1].  An   *)
(* address is the pair <<region, offset within the region>>.               *)
(***************************************************************************)
EXTENDS Integers, Sequences

CONSTANTS Workers,      \* the threads the scan starts (num_threads of them)
          BlockStride,  \* block_stride, 0x1000 in the code
          Word,         \* 2^64: where unsigned subtraction wraps
          Scans         \* the calls considered: the sizes of the regions in
                        \* address order, and the arguments of the call

ASSUME BlockStrideAssumption == BlockStride \in Nat \ {0}

ASSUME WordAssumption == Word \in Nat

\* The size of a C++ type is never 0.
ASSUME ScansAssumption ==
  Scans \subseteq [regions : Seq(Nat), stride : Nat, object_size : Nat \ {0}]

VARIABLES scan,                     \* the call: regions, stride, object_size
          main,                     \* where the calling thread is
          region_start_offsets,     \* prefix sums of the region sizes
          current_offset,           \* the atomic counter blocks are claimed from
          progress_current_region,  \* the region the progress line is in
          pc,                       \* where each worker is
          offset,                   \* the block each worker holds
          current_region,           \* the region each worker is in
          z,                        \* a worker's position in its block
          visited                   \* history: the addresses fn was called with

callerVars == <<main, region_start_offsets, progress_current_region>>
workerVars == <<pc, offset, current_region, z>>
vars == <<scan, callerVars, current_offset, workerVars, visited>>

----------------------------------------------------------------------------
(* The layout of the regions. *)

NRegions == Len(scan.regions)

\* region_start_offsets.back()
Total == region_start_offsets[Len(region_start_offsets)]

\* Bug: the size of the object is forgotten.
LastStartNoSize(r) == region_start_offsets[r + 1]

\* region_start_offsets[r + 1] - object_size, in unsigned 64-bit arithmetic.
LastStart(r) ==
  LET end == region_start_offsets[r + 1]
  IN IF scan.object_size <= end THEN end - scan.object_size
                                ELSE end - scan.object_size + Word

\* Bug: > for >= puts a block that starts a region into the region before it.
SeeksLate(from, off, to) ==
  /\ to \in from .. NRegions
  /\ off <= region_start_offsets[to + 1]
  /\ \A r \in from .. (to - 1) : off > region_start_offsets[r + 1]

\* while (offset >= region_start_offsets[current_region + 1]) current_region++
Seeks(from, off, to) ==
  /\ to \in from .. NRegions
  /\ off < region_start_offsets[to + 1]
  /\ \A r \in from .. (to - 1) : off >= region_start_offsets[r + 1]

\* Bug: the counter advances by the stride of the scan.
NextBlockByStride == current_offset + scan.stride

\* current_offset.fetch_add(block_stride)
NextBlock == current_offset + BlockStride

\* Bug: a block that starts at the end of the last region is taken for one.
BlocksLeftToEnd == current_offset <= Total

BlocksLeft == current_offset < Total

\* stride & (stride - 1) is 0 for 0 and for the powers of two; BlockStride is
\* a power of two, so the ones up to BlockStride are its divisors.
StrideAccepted ==
  \/ scan.stride = 0
  \/ scan.stride \in 1 .. BlockStride /\ BlockStride % scan.stride = 0

----------------------------------------------------------------------------
Init ==
  /\ scan \in Scans
  /\ main = "setup"
  /\ region_start_offsets = <<0>>
  /\ current_offset = 0
  /\ progress_current_region = 1
  /\ pc = [w \in Workers |-> "new"]
  /\ offset = [w \in Workers |-> 0]
  /\ current_region = [w \in Workers |-> 1]
  /\ z = [w \in Workers |-> 0]
  /\ visited = {}

(* The calling thread. *)

Refuse ==
  /\ main = "setup"
  /\ ~StrideAccepted
  /\ main' = "threw"
  /\ UNCHANGED <<scan, region_start_offsets, progress_current_region,
                 current_offset, workerVars, visited>>

\* One turn of the loop over regions; this->read of an empty region throws,
\* because no region holds its start address.
Measure ==
  /\ main = "setup"
  /\ StrideAccepted
  /\ Len(region_start_offsets) <= NRegions
  /\ LET size == scan.regions[Len(region_start_offsets)]
     IN IF size = 0
        THEN main' = "threw" /\ UNCHANGED region_start_offsets
        ELSE /\ region_start_offsets' = Append(region_start_offsets, Total + size)
             /\ UNCHANGED main
  /\ UNCHANGED <<scan, progress_current_region, current_offset, workerVars, visited>>

StartThread(w) ==
  /\ main = "setup"
  /\ StrideAccepted
  /\ Len(region_start_offsets) = NRegions + 1
  /\ pc[w] = "new"
  /\ pc' = [pc EXCEPT ![w] = "claim"]
  /\ main' = IF \A v \in Workers \ {w} : pc[v] # "new" THEN "progress" ELSE main
  /\ UNCHANGED <<scan, region_start_offsets, progress_current_region,
                 current_offset, offset, current_region, z, visited>>

\* One turn of the progress loop: it stops at the first start offset above the
\* counter, and the region it then reads is the one with that index.
ShowProgress ==
  /\ main = "progress"
  /\ BlocksLeft
  /\ \E p \in progress_current_region .. Len(region_start_offsets) :
       /\ region_start_offsets[p] > current_offset
       /\ \A q \in progress_current_region .. (p - 1) :
            region_start_offsets[q] <= current_offset
       /\ progress_current_region' = p
  /\ UNCHANGED <<scan, main, region_start_offsets, current_offset, workerVars, visited>>

StopProgress ==
  /\ main = "progress"
  /\ ~BlocksLeft
  /\ main' = "join"
  /\ UNCHANGED <<scan, region_start_offsets, progress_current_region,
                 current_offset, workerVars, visited>>

\* Bug: the call returns when the last block is claimed, not when it is done.
JoinAtOnce ==
  /\ main = "join"
  /\ main' = "returned"
  /\ UNCHANGED <<scan, region_start_offsets, progress_current_region,
                 current_offset, workerVars, visited>>

Join ==
  /\ main = "join"
  /\ \A w \in Workers : pc[w] = "done"
  /\ main' = "returned"
  /\ UNCHANGED <<scan, region_start_offsets, progress_current_region,
                 current_offset, workerVars, visited>>

(* The workers. *)

\* current_offset.fetch_add(block_stride), the search for the block's region
\* and the test that an object fits at the start of the block.
Claim(w) ==
  /\ main # "terminated"
  /\ pc[w] = "claim"
  /\ current_offset' = NextBlock
  /\ offset' = [offset EXCEPT ![w] = current_offset]
  /\ IF BlocksLeft
     THEN \E r \in 1 .. NRegions :
            /\ Seeks(current_region[w], current_offset, r)
            /\ current_region' = [current_region EXCEPT ![w] = r]
            /\ pc' = [pc EXCEPT ![w] = IF current_offset <= LastStart(r)
                                       THEN "visit" ELSE "claim"]
     ELSE /\ pc' = [pc EXCEPT ![w] = "done"]
          /\ UNCHANGED current_region
  /\ UNCHANGED <<scan, callerVars, z, visited>>

\* The address a worker is about to call fn with.
At(w) == <<current_region[w],
           offset[w] - region_start_offsets[current_region[w]] + z[w]>>

\* pget<T> succeeds: the whole object lies in the region's data.
Fits(w) == At(w)[2] + scan.object_size <= scan.regions[At(w)[1]]

\* Bug: <= for < lets the loop over z run into the next block.
GoesOnPastBlock(w, nextZ) ==
  /\ nextZ <= BlockStride
  /\ offset[w] + nextZ <= LastStart(current_region[w])

\* The loop over z goes on: z < block_stride and the object at z fits.
GoesOn(w, nextZ) ==
  /\ nextZ < BlockStride
  /\ offset[w] + nextZ <= LastStart(current_region[w])

\* One turn of the loop over z.  Where pget throws, nothing catches the
\* exception in the thread and std::terminate ends the process.
Visit(w) ==
  /\ main # "terminated"
  /\ pc[w] = "visit"
  /\ LET nextZ == z[w] + scan.stride
     IN IF GoesOn(w, nextZ)
        THEN z' = [z EXCEPT ![w] = nextZ] /\ UNCHANGED pc
        ELSE z' = [z EXCEPT ![w] = 0] /\ pc' = [pc EXCEPT ![w] = "claim"]
  /\ IF Fits(w)
     THEN visited' = visited \cup {At(w)} /\ UNCHANGED main
     ELSE main' = "terminated" /\ UNCHANGED visited
  /\ UNCHANGED <<scan, region_start_offsets, progress_current_region,
                 current_offset, offset, current_region>>

Caller == Refuse \/ Measure \/ ShowProgress \/ StopProgress \/ Join

Worker(w) == Claim(w) \/ Visit(w)

\* The call is over, so that TLC does not take its end for a deadlock.
Over == main \in {"returned", "threw"} /\ UNCHANGED vars

Next ==
  \/ Caller
  \/ \E w \in Workers : StartThread(w) \/ Worker(w)
  \/ Over

\* The operating system runs every thread that can run.
Fairness ==
  /\ WF_vars(Caller)
  /\ \A w \in Workers : WF_vars(StartThread(w)) /\ WF_vars(Worker(w))

Spec == Init /\ [][Next]_vars /\ Fairness

----------------------------------------------------------------------------
(* Properties. *)

\* The states are of their types; z stays inside the block.
TypeOK ==
  /\ scan \in Scans
  /\ main \in {"setup", "progress", "join", "returned", "threw", "terminated"}
  /\ region_start_offsets \in Seq(Nat) /\ Len(region_start_offsets) > 0
  /\ current_offset \in Nat
  /\ progress_current_region \in Nat \ {0}
  /\ pc \in [Workers -> {"new", "claim", "visit", "done"}]
  /\ offset \in [Workers -> Nat]
  /\ current_region \in [Workers -> Nat \ {0}]
  /\ z \in [Workers -> 0 .. (BlockStride - 1)]
  /\ visited \subseteq (Nat \X Nat)

\* The addresses a command means when it asks for a scan: every stride-th
\* address of a region at which a whole object lies inside the region.
Eligible ==
  UNION {{r} \X {o \in 0 .. (scan.regions[r] - scan.object_size) :
                   o % scan.stride = 0} : r \in 1 .. NRegions}

\* A scan that goes through: its stride is a power of two up to BlockStride,
\* and it has no empty region.
Acceptable ==
  /\ scan.stride > 0 /\ StrideAccepted
  /\ \A r \in 1 .. NRegions : scan.regions[r] > 0

\* What dump makes of a process: regions of whole pages, and objects of which
\* the first region can hold one.
WholePages ==
  /\ \A r \in 1 .. NRegions : scan.regions[r] % BlockStride = 0
  /\ NRegions > 0 => scan.object_size <= scan.regions[1]

\* fn is only ever given an object that lies wholly inside one region, at an
\* address of the requested alignment: no thread reads past a region
\* (MemoryReader.hh:225-232).
OnlyEligible ==
  WholePages /\ scan.stride > 0 => visited \subseteq Eligible /\ main # "terminated"

\* Two workers never hold overlapping blocks, and neither overlaps a block
\* still to be claimed, so that a caller may keep results per thread without
\* a lock (MemoryReader.hh:217-221).
BlocksDisjoint ==
  \A w \in Workers : pc[w] = "visit" =>
    /\ offset[w] + BlockStride <= current_offset
    /\ \A v \in Workers \ {w} : pc[v] = "visit" =>
         \/ offset[w] + BlockStride <= offset[v]
         \/ offset[v] + BlockStride <= offset[w]

\* When the call returns, fn has run for every eligible address: no object is
\* lost between two blocks, two regions or two workers.
CompleteAtReturn ==
  WholePages /\ scan.stride > 0 /\ main = "returned" => visited = Eligible

\* fn is never called a second time with the same address, by the same worker
\* or another (result_count and count_for_type would count it twice).
NeverTwice ==
  [][\A w \in Workers : scan.stride > 0 /\ Visit(w) => At(w) \notin visited]_vars

\* A call that is accepted with stride 0 (find --align=0): the loop over z never
\* advances, and the worker that holds a block never leaves it.
Endless ==
  /\ scan.stride = 0
  /\ NRegions > 0
  /\ \A r \in 1 .. NRegions : scan.regions[r] > 0

Ended == main \in {"returned", "threw"}

\* A scan of whole pages ends, by its return or by throwing before it started
\* a thread, exactly unless it is accepted with stride 0 and there is anything
\* to scan; then it never does (MemoryReader.hh:196-202, 228, 246-263).  That
\* 0 is accepted is against MemoryReader.hh:197, "Stride must be a power of 2".
EndsUnlessStrideZero ==
  WholePages => IF Endless THEN []~Ended ELSE <>Ended

\* The scan implements what AbstractScan promises to the commands, for a stride
\* above 0: nothing is called twice or left out, and the call ends.
Promised == INSTANCE AbstractScan WITH
  eligible   <- IF Acceptable THEN Eligible ELSE {},
  acceptable <- Acceptable,
  status     <- CASE main = "returned"   -> "returned"
                  [] main = "threw"      -> "refused"
                  [] main = "terminated" -> "terminated"
                  [] OTHER               -> "running"

ImplementsAbstractScan ==
  /\ Promised!AInit
  /\ [][scan.stride > 0 => [Promised!ANext]_(Promised!avars)]_vars
  /\ scan.stride > 0 => Promised!AFairness
=============================================================================
