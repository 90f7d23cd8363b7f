-------------------------------- MODULE Dump --------------------------------
(***************************************************************************)
(* The two dumpers, which make a snapshot of a live process.               *)
(*                                                                         *)
(* MemoryReader::dump (src/MemoryReader.cc) sends SIGSTOP to the target,   *)
(* reads its memory map, opens its memory and lets several threads copy    *)
(* one range after another into a file each; when the guard goes out of    *)
(* scope the target gets SIGCONT.                                          *)
(*                                                                         *)
(* dump_memory.py, the script, does the same in one thread and with        *)
(* Python's exceptions; it may write the ranges to a stream instead.       *)
(*                                                                         *)
(* The target runs while all this begins: kill only makes the signal       *)
(* pending, and until it takes effect the target writes to its memory,     *)
(* unmaps ranges or exits.  Memory is read in chunks (of 1 MB); a chunk    *)
(* holds the number of the last write to it.                               *)
(***************************************************************************)
EXTENDS Integers, Sequences, SequencesExt

CONSTANTS Threads,    \* the threads of phosg::parallel
          Lines,      \* the lines of /proc/<pid>/maps when the dumper starts:
                      \* what may be read, what is shared, how many chunks
          MaxWrites,  \* bound on the target's writes
          NoFile      \* a file that has not been made

ASSUME ThreadsAssumption == Threads # {}

ASSUME LinesAssumption ==
  Lines \in Seq([readable : BOOLEAN, shared : BOOLEAN, chunks : Nat \ {0}])

ASSUME MaxWritesAssumption == MaxWrites \in Nat

ASSUME NoFileAssumption == NoFile \notin Seq(Nat)

VARIABLES program,      \* "dump", or the script's "script" and "stream"
          target,       \* the process: "running", "stopped" or "gone"
          stop_pending, \* a SIGSTOP that has not taken effect
          memory,       \* what each chunk of the target holds
          unmapped,     \* the lines the target has unmapped since the start
          writes,       \* the number of writes of the target
          dumper,       \* the next statement of dump, or how it ended
          dir_exists,   \* the directory of the snapshot is there
          ranges,       \* the lines to copy, as ranges_for_pid returned them
          next_range,   \* phosg::parallel's counter
          pc,           \* where each thread is
          range_index,  \* the range each thread copies
          read_addr,    \* how many of its chunks the thread has copied
          files,        \* what the file of each line holds
          failed,       \* history: the lines whose copying broke off
          data,         \* what the script has read of its range
          stream,       \* the records the script has written to its output
          tail,         \* what it has written of one more record
          torn,         \* history: a write to the stream has failed
          image         \* history: the target when its map was read

targetVars == <<target, stop_pending, memory, unmapped, writes>>
threadVars == <<next_range, pc, range_index, read_addr, files, failed>>
scriptVars == <<program, data, stream, tail, torn>>
vars == <<targetVars, dumper, dir_exists, ranges, threadVars, scriptVars, image>>

Chunks == UNION {{l} \X (1 .. Lines[l].chunks) : l \in DOMAIN Lines}
Active == {"start", "pause", "try", "maps", "open", "copy", "read", "write", "data",
           "finally", "resume"}
Script == program # "dump"

Init ==
  /\ program \in {"dump", "script", "stream"}
  /\ target = "running"
  /\ stop_pending = FALSE
  /\ memory = [c \in Chunks |-> 0]
  /\ unmapped = {}
  /\ writes = 0
  /\ dumper = "start"
  /\ dir_exists \in BOOLEAN
  /\ ranges = <<>>
  /\ next_range = 1
  /\ pc = [t \in Threads |-> "new"]
  /\ range_index = [t \in Threads |-> 1]
  /\ read_addr = [t \in Threads |-> 0]
  /\ files = [l \in DOMAIN Lines |-> NoFile]
  /\ failed = {}
  /\ data = <<>>
  /\ stream = <<>>
  /\ tail = <<>>
  /\ torn = FALSE
  /\ image = [stopped |-> FALSE, memory |-> memory, lines |-> {}]

----------------------------------------------------------------------------
(* The target and the kernel. *)

TargetWrites ==
  /\ target = "running"
  /\ writes < MaxWrites
  /\ \E c \in Chunks :
       /\ c[1] \notin unmapped
       /\ memory' = [memory EXCEPT ![c] = writes + 1]
  /\ writes' = writes + 1
  /\ UNCHANGED <<target, stop_pending, unmapped, dumper, dir_exists, ranges,
                 threadVars, scriptVars, image>>

TargetUnmaps ==
  /\ target = "running"
  /\ \E l \in DOMAIN Lines \ unmapped : unmapped' = unmapped \cup {l}
  /\ UNCHANGED <<target, stop_pending, memory, writes, dumper, dir_exists,
                 ranges, threadVars, scriptVars, image>>

\* It exits by itself, or it is killed while it is stopped.
TargetExits ==
  /\ target # "gone"
  /\ target' = "gone"
  /\ stop_pending' = FALSE
  /\ UNCHANGED <<memory, unmapped, writes, dumper, dir_exists, ranges,
                 threadVars, scriptVars, image>>

StopTakesEffect ==
  /\ stop_pending
  /\ target' = "stopped"
  /\ stop_pending' = FALSE
  /\ UNCHANGED <<memory, unmapped, writes, dumper, dir_exists, ranges,
                 threadVars, scriptVars, image>>

----------------------------------------------------------------------------
(* The dumper's main thread. *)

\* The result of mkdir is not looked at.
MakeDirectory ==
  /\ ~Script
  /\ dumper = "start"
  /\ dir_exists' \in {dir_exists, TRUE}
  /\ dumper' = "pause"
  /\ UNCHANGED <<targetVars, ranges, threadVars, scriptVars, image>>

\* ProcessPauseGuard's constructor.
Pause ==
  /\ ~Script
  /\ dumper = "pause"
  /\ stop_pending' = (target # "gone")
  /\ dumper' = "maps"
  /\ UNCHANGED <<target, memory, unmapped, writes, dir_exists, ranges,
                 threadVars, scriptVars, image>>

\* An exception that nothing catches.  In the dumper std::terminate ends it
\* without running the guard's destructor; the script runs its finally block.
Terminate ==
  /\ dumper' = IF Script THEN "finally" ELSE "terminated"
  /\ UNCHANGED <<targetVars, dir_exists, ranges, threadVars, scriptVars, image>>

\* Bug: the tests on the permissions are swapped.
ToCopyShared(l) == Lines[l].shared \/ ~Lines[l].readable

\* The lines ranges_for_pid and the script keep.
ToCopy(l) == Lines[l].readable /\ ~Lines[l].shared

\* The lines of S, one after another.
InOrder(S) == {s \in [1 .. Cardinality(S) -> S] :
                 \A i, j \in DOMAIN s : i < j => s[i] < s[j]}

ReadMaps ==
  /\ dumper = "maps"
  /\ target # "gone"
  /\ ranges' \in InOrder({l \in DOMAIN Lines \ unmapped : ToCopy(l)})
  /\ image' = [stopped |-> target = "stopped",
               memory  |-> memory,
               lines   |-> {l \in DOMAIN Lines \ unmapped :
                              Lines[l].readable /\ ~Lines[l].shared}]
  /\ dumper' = "open"
  /\ UNCHANGED <<targetVars, dir_exists, threadVars, scriptVars>>

\* The process is gone, and its map with it.
ReadMapsFails == dumper = "maps" /\ target = "gone" /\ Terminate

\* Bug: the guard is a temporary, destroyed at the end of its statement.
OpenMemUnguarded ==
  /\ ~Script
  /\ dumper = "open"
  /\ dumper' = "copy"
  /\ pc' = [t \in Threads |-> "claim"]
  /\ target' = IF target = "stopped" THEN "running" ELSE target
  /\ stop_pending' = FALSE
  /\ UNCHANGED <<memory, unmapped, writes, dir_exists, ranges, next_range,
                 range_index, read_addr, files, failed, scriptVars, image>>

\* /proc/<pid>/mem is open, and phosg::parallel starts its threads.
OpenMem ==
  /\ ~Script
  /\ dumper = "open"
  /\ dumper' = "copy"
  /\ pc' = [t \in Threads |-> "claim"]
  /\ UNCHANGED <<targetVars, dir_exists, ranges, next_range, range_index,
                 read_addr, files, failed, scriptVars, image>>

\* The dumper may not trace the target, or the target is gone.
OpenMemFails == dumper = "open" /\ Terminate

JoinThreads ==
  /\ dumper = "copy"
  /\ \A t \in Threads : pc[t] = "done"
  /\ dumper' = "resume"
  /\ UNCHANGED <<targetVars, dir_exists, ranges, threadVars, scriptVars, image>>

\* Bug: the destructor only continues a target it finds stopped.
ResumeIfStopped ==
  /\ ~Script
  /\ dumper = "resume"
  /\ target' = IF target = "stopped" THEN "running" ELSE target
  /\ dumper' = "returned"
  /\ UNCHANGED <<stop_pending, memory, unmapped, writes, dir_exists, ranges,
                 threadVars, scriptVars, image>>

\* ProcessPauseGuard's destructor; SIGCONT discards a pending SIGSTOP.
Resume ==
  /\ ~Script
  /\ dumper = "resume"
  /\ target' = IF target = "stopped" THEN "running" ELSE target
  /\ stop_pending' = FALSE
  /\ dumper' = "returned"
  /\ UNCHANGED <<memory, unmapped, writes, dir_exists, ranges, threadVars, scriptVars, image>>

----------------------------------------------------------------------------
(* The dumper's threads. *)

Line(t) == ranges[range_index[t]]

\* Bug: the last range is taken for the end.
RangesLeftButOne == next_range < Len(ranges)

RangesLeft == next_range <= Len(ranges)

\* phosg::parallel: the next value of the counter, until it has passed the end.
Claim(t) ==
  /\ dumper = "copy"
  /\ pc[t] = "claim"
  /\ next_range' = next_range + 1
  /\ IF RangesLeft
     THEN /\ range_index' = [range_index EXCEPT ![t] = next_range]
          /\ pc' = [pc EXCEPT ![t] = "fopen"]
     ELSE pc' = [pc EXCEPT ![t] = "done"] /\ UNCHANGED range_index
  /\ UNCHANGED <<targetVars, dumper, dir_exists, ranges, read_addr, files,
                 failed, scriptVars, image>>

OpenFile(t) ==
  /\ dumper = "copy"
  /\ pc[t] = "fopen"
  /\ dir_exists
  /\ files' = [files EXCEPT ![Line(t)] = <<>>]
  /\ read_addr' = [read_addr EXCEPT ![t] = 0]
  /\ pc' = [pc EXCEPT ![t] = "copy"]
  /\ UNCHANGED <<targetVars, dumper, dir_exists, ranges, next_range,
                 range_index, failed, scriptVars, image>>

\* The directory is missing, or no file can be made in it.
OpenFileFails(t) == dumper = "copy" /\ pc[t] = "fopen" /\ Terminate

\* Bug: <= for < in the test of the copy loop.
MoreToCopyPastEnd(t) == read_addr[t] + 1 <= Lines[Line(t)].chunks

\* read_addr < end, after the chunk at read_addr.
MoreToCopy(t) == read_addr[t] + 1 < Lines[Line(t)].chunks

\* preadx and fwritex of one chunk.
CopyChunk(t) ==
  /\ dumper = "copy"
  /\ pc[t] = "copy"
  /\ target # "gone" /\ Line(t) \notin unmapped
  /\ files' = [files EXCEPT ![Line(t)] =
                 Append(@, memory[<<Line(t), read_addr[t] + 1>>])]
  /\ read_addr' = [read_addr EXCEPT ![t] = @ + 1]
  /\ pc' = [pc EXCEPT ![t] = IF MoreToCopy(t) THEN "copy" ELSE "claim"]
  /\ UNCHANGED <<targetVars, dumper, dir_exists, ranges, next_range,
                 range_index, failed, scriptVars, image>>

\* Bug: the handler goes on with the loop instead of leaving it.
CopyRetries(t) ==
  /\ dumper = "copy"
  /\ pc[t] = "copy"
  /\ failed' = failed \cup {Line(t)}
  /\ UNCHANGED <<targetVars, dumper, dir_exists, ranges, next_range, pc,
                 range_index, read_addr, files, scriptVars, image>>

\* The chunk cannot be read (it has been unmapped, the target is gone, the
\* kernel refuses it) or written (the disk is full): the handler leaves the
\* loop, and the file keeps the chunks before it.
CopyFails(t) ==
  /\ dumper = "copy"
  /\ pc[t] = "copy"
  /\ failed' = failed \cup {Line(t)}
  /\ pc' = [pc EXCEPT ![t] = "claim"]
  /\ UNCHANGED <<targetVars, dumper, dir_exists, ranges, next_range,
                 range_index, read_addr, files, scriptVars, image>>

----------------------------------------------------------------------------
(* The script.  What it shares with the dumper: ReadMaps, OpenMem's failure,  *)
(* and the handling of a directory's files.                                   *)

\* os.makedirs raises if the directory cannot be made.
ScriptMakesDirectory ==
  /\ Script
  /\ dumper = "start"
  /\ dir_exists' \in IF program = "script" THEN {dir_exists, TRUE} ELSE {dir_exists}
  /\ dumper' = IF program = "script" /\ ~dir_exists' THEN "raised" ELSE "pause"
  /\ UNCHANGED <<targetVars, ranges, threadVars, scriptVars, image>>

\* os.kill raises if the target is gone; it comes before the try block.
ScriptPauses ==
  /\ Script
  /\ dumper = "pause"
  /\ stop_pending' = (target # "gone")
  /\ dumper' = IF target = "gone" THEN "raised" ELSE "try"
  /\ UNCHANGED <<target, memory, unmapped, writes, dir_exists, ranges,
                 threadVars, scriptVars, image>>

\* Only from here on does an exception lead to the finally block.
EnterTry ==
  /\ dumper = "try"
  /\ dumper' = "maps"
  /\ UNCHANGED <<targetVars, dir_exists, ranges, threadVars, scriptVars, image>>

ScriptOpensMem ==
  /\ Script
  /\ dumper = "open"
  /\ dumper' = "read"
  /\ UNCHANGED <<targetVars, dir_exists, ranges, threadVars, scriptVars, image>>

ThisLine == ranges[next_range]

\* read gets a range in pieces, which the target may change in between as long
\* as it runs.
ReadPiece ==
  /\ dumper = "read"
  /\ RangesLeft
  /\ target # "gone" /\ ThisLine \notin unmapped
  /\ data' = Append(data, memory[<<ThisLine, Len(data) + 1>>])
  /\ dumper' = IF Len(data') = Lines[ThisLine].chunks THEN "write" ELSE "read"
  /\ UNCHANGED <<targetVars, dir_exists, ranges, threadVars, program, stream, tail, torn, image>>

\* The memory of a process that is gone ends at once: read returns what it has.
ReadEnds ==
  /\ dumper = "read"
  /\ RangesLeft
  /\ target = "gone"
  /\ failed' = failed \cup {ThisLine}
  /\ dumper' = "write"
  /\ UNCHANGED <<targetVars, dir_exists, ranges, next_range, pc, range_index,
                 read_addr, files, scriptVars, image>>

\* The kernel refuses a piece: read raises, and what it has is lost.
ReadRaises ==
  /\ dumper = "read"
  /\ RangesLeft
  /\ target # "gone"
  /\ failed' = failed \cup {ThisLine}
  /\ next_range' = next_range + 1
  /\ data' = <<>>
  /\ UNCHANGED <<targetVars, dumper, dir_exists, ranges, pc, range_index,
                 read_addr, files, program, stream, tail, torn, image>>

\* Bug: the header has the end of the range, not of what was read of it.
RecordToEnd(l, d) == <<l, Lines[l].chunks>> \o d

\* What the stream gets for a range: where it starts, how much was read of it,
\* and that.
Record(l, d) == <<l, Len(d)>> \o d

\* The header is written to the stream, or a file of its own opened for the range.
ScriptBegins ==
  /\ dumper = "write"
  /\ IF program = "stream"
     THEN tail' = SubSeq(Record(ThisLine, data), 1, 2) /\ UNCHANGED files
     ELSE files' = [files EXCEPT ![ThisLine] = <<>>] /\ UNCHANGED tail
  /\ dumper' = "data"
  /\ UNCHANGED <<targetVars, dir_exists, ranges, next_range, pc, range_index,
                 read_addr, failed, program, data, stream, torn, image>>

\* What has been read of the range is written.
ScriptWrites ==
  /\ dumper = "data"
  /\ IF program = "stream"
     THEN stream' = stream \o Record(ThisLine, data) /\ UNCHANGED files
     ELSE files' = [files EXCEPT ![ThisLine] = data] /\ UNCHANGED stream
  /\ tail' = <<>>
  /\ next_range' = next_range + 1
  /\ data' = <<>>
  /\ dumper' = "read"
  /\ UNCHANGED <<targetVars, dir_exists, ranges, pc, range_index, read_addr,
                 failed, program, torn, image>>

\* A write that breaks off leaves a beginning of the record, or of the file.
Beginnings == {SubSeq(Record(ThisLine, data), 1, n) : n \in Len(tail) .. (Len(data) + 1)}
FilesCut == {files} \cup {[files EXCEPT ![ThisLine] = SubSeq(data, 1, n)] :
                            n \in 0 .. Len(data)}

\* The file cannot be opened, or one of the writes fails; the next range follows.
ScriptWriteFails ==
  /\ dumper \in {"write", "data"}
  /\ IF program = "stream"
     THEN /\ \E cut \in Beginnings : stream' = stream \o cut
          /\ torn' = TRUE
          /\ UNCHANGED files
     ELSE files' \in FilesCut /\ UNCHANGED <<stream, torn>>
  /\ tail' = <<>>
  /\ failed' = failed \cup {ThisLine}
  /\ next_range' = next_range + 1
  /\ data' = <<>>
  /\ dumper' = "read"
  /\ UNCHANGED <<targetVars, dir_exists, ranges, pc, range_index, read_addr,
                 program, image>>

AllRead ==
  /\ dumper = "read"
  /\ ~RangesLeft
  /\ dumper' = "resume"
  /\ UNCHANGED <<targetVars, dir_exists, ranges, threadVars, scriptVars, image>>

\* The finally block; os.kill raises if the target is gone.
ScriptResumes ==
  /\ Script
  /\ dumper \in {"resume", "finally"}
  /\ target' = IF target = "stopped" THEN "running" ELSE target
  /\ stop_pending' = FALSE
  /\ dumper' = IF dumper = "resume" /\ target # "gone" THEN "returned" ELSE "raised"
  /\ UNCHANGED <<memory, unmapped, writes, dir_exists, ranges, threadVars, scriptVars, image>>

\* Whatever the script is writing when it is interrupted is cut.
CutShort ==
  /\ IF dumper \notin {"write", "data"} THEN UNCHANGED <<files, tail>>
     ELSE IF program = "stream" THEN tail' \in Beginnings /\ UNCHANGED files
     ELSE files' \in FilesCut /\ UNCHANGED tail
  /\ UNCHANGED <<targetVars, dir_exists, ranges, next_range, pc, range_index,
                 read_addr, failed, program, data, stream, torn, image>>

\* The statements of the try block.
InTry == {"maps", "open", "read", "write", "data"}

\* Ctrl-C, at any statement; the loop's handler does not catch it.  Where the
\* target has its SIGSTOP and the try block has not begun, or the finally block
\* has not sent SIGCONT, the target is abandoned as it is.
KeyboardInterrupt ==
  /\ Script
  /\ \/ dumper \in {"start", "pause"} /\ dumper' = "raised"
     \/ dumper \in InTry /\ dumper' = "finally"
     \/ dumper \in {"try", "resume", "finally"} /\ dumper' = "abandoned"
  /\ CutShort

\* The user kills the dumper, in a way that runs nothing of it any more.
Interrupt ==
  /\ dumper \in Active
  /\ dumper' = "interrupted"
  /\ CutShort

----------------------------------------------------------------------------
TargetNext == TargetWrites \/ TargetUnmaps \/ TargetExits

MainNext ==
  \/ MakeDirectory \/ Pause
  \/ ReadMaps \/ ReadMapsFails \/ OpenMem \/ OpenMemFails
  \/ JoinThreads \/ Resume

ScriptNext ==
  \/ ScriptMakesDirectory \/ ScriptPauses \/ EnterTry \/ ScriptOpensMem
  \/ ReadPiece \/ ReadEnds \/ ReadRaises
  \/ ScriptBegins \/ ScriptWrites \/ ScriptWriteFails \/ AllRead \/ ScriptResumes

ThreadNext(t) ==
  Claim(t) \/ OpenFile(t) \/ OpenFileFails(t) \/ CopyChunk(t) \/ CopyFails(t)

\* The dumper has ended, whatever becomes of the target.
Over == dumper \notin Active /\ UNCHANGED vars

Next ==
  \/ TargetNext \/ StopTakesEffect
  \/ MainNext \/ Interrupt
  \/ ScriptNext \/ KeyboardInterrupt
  \/ \E t \in Threads : ThreadNext(t)
  \/ Over

\* The system runs every thread of the dumpers, and delivers signals.
Fairness ==
  /\ WF_vars(StopTakesEffect)
  /\ WF_vars(MainNext \/ ScriptNext)
  /\ \A t \in Threads : WF_vars(ThreadNext(t))

Spec == Init /\ [][Next]_vars /\ Fairness

----------------------------------------------------------------------------
(* The snapshot. *)

\* How the reader of a snapshot loads a stream: a header, as many bytes as it
\* says, and so on to the end.  Where the stream ends before, it throws, which
\* gives the empty set.
HasRegion(s, i) == i < Len(s) /\ i + 1 + s[i + 1] <= Len(s)
Region(s, i) == [line |-> s[i], data |-> SubSeq(s, i + 2, i + 1 + s[i + 1])]
LoadFrom(s) ==
  LET From[i \in 1 .. (Len(s) + 1)] ==
        IF i > Len(s) THEN {<<>>}
        ELSE IF HasRegion(s, i)
        THEN {<<Region(s, i)>> \o rest : rest \in From[i + 2 + s[i + 1]]}
        ELSE {}
  IN From
LoadStream(s) == LoadFrom(s)[1]

\* Everything that is in the script's output.
Output == stream \o tail

\* The region of the record that is being written, if there is one.
Unfinished ==
  IF tail = <<>> THEN <<>> ELSE <<[line |-> ThisLine, data |-> data]>>

\* What the snapshot has of a line.
Snapshot(l) ==
  IF program # "stream" THEN files[l]
  ELSE LET found == {r \in UNION {ToSet(s) : s \in LoadStream(stream)} : r.line = l}
       IN IF found = {} THEN NoFile ELSE (CHOOSE r \in found : TRUE).data

----------------------------------------------------------------------------
(* Properties. *)

TypeOK ==
  /\ program \in {"dump", "script", "stream"}
  /\ target \in {"running", "stopped", "gone"}
  /\ stop_pending \in BOOLEAN
  /\ memory \in [Chunks -> 0 .. MaxWrites]
  /\ unmapped \subseteq DOMAIN Lines
  /\ writes \in 0 .. MaxWrites
  /\ dumper \in Active \cup {"returned", "raised", "abandoned", "terminated",
                       "interrupted"}
  /\ dir_exists \in BOOLEAN
  /\ ranges \in Seq(DOMAIN Lines)
  /\ next_range \in Nat \ {0}
  /\ range_index \in [Threads -> Nat]
  /\ read_addr \in [Threads -> Nat]
  /\ files \in [DOMAIN Lines -> Seq(0 .. MaxWrites) \cup {NoFile}]
  /\ pc \in [Threads -> {"new", "claim", "fopen", "copy", "done"}]
  /\ \A t \in Threads : pc[t] \in {"fopen", "copy"} =>
       /\ range_index[t] \in DOMAIN ranges
       /\ pc[t] = "copy" => read_addr[t] \in 0 .. (Lines[Line(t)].chunks - 1)
  /\ failed \subseteq DOMAIN Lines
  /\ data \in Seq(0 .. MaxWrites)
  /\ dumper \in {"read", "write", "data"} /\ data # <<>> =>
       RangesLeft /\ Len(data) <= Lines[ThisLine].chunks
  /\ stream \in Seq(Nat)
  /\ tail \in Seq(Nat)
  /\ torn \in BOOLEAN
  /\ image \in [stopped : BOOLEAN, memory : [Chunks -> 0 .. MaxWrites],
                lines : SUBSET DOMAIN Lines]

\* A snapshot is a picture of one moment if the stop had taken effect when the
\* map was read: every file, or region of the stream, is the start of what its
\* range held then, although several threads read them, one after another
\* (MemoryReader.cc:201-230, dump_memory.py:47-61).
PictureOfOneMoment ==
  dumper = "returned" /\ image.stopped /\ ~torn =>
    \A l \in image.lines : Snapshot(l) # NoFile =>
      \A i \in DOMAIN Snapshot(l) : Snapshot(l)[i] = image.memory[<<l, i>>]

\* A dump that returns has lost no readable private range, and none of the
\* chunks of one that could be read and written (MemoryReader.cc:211-230,
\* dump_memory.py:47-61).  The dumper has a file even of a range that failed.
NothingLost ==
  dumper = "returned" /\ ~torn =>
    \A l \in image.lines :
      /\ l \in failed \/ (Snapshot(l) # NoFile /\ Len(Snapshot(l)) = Lines[l].chunks)
      /\ program = "dump" => files[l] # NoFile

\* Shared and unreadable ranges are never copied, nor is a range copied by two
\* threads into the same file, or twice to the stream (MemoryReader.cc:182-187,
\* 211-214, dump_memory.py:36-43).
CopiesOnlyItsOwn ==
  /\ ~torn => \A l \in DOMAIN Lines : Snapshot(l) # NoFile => l \in image.lines
  /\ ~torn => \A s \in LoadStream(stream) : IsInjective([i \in DOMAIN s |-> s[i].line])
  /\ \A s, t \in Threads :
       s # t /\ {pc[s], pc[t]} \subseteq {"fopen", "copy"} => Line(s) # Line(t)

\* A dump that returns leaves the target neither stopped nor about to be, even
\* if the stop came so late that the dump was over (MemoryReader.cc:18-24); and
\* so does the script when an exception ends it before the stop or out of the
\* try block, Ctrl-C included (dump_memory.py:28-66).  Only an interrupt between
\* the stop and the try block, or before the finally block has sent SIGCONT,
\* abandons the target.
NotLeftStopped ==
  dumper \in {"returned", "raised"} => target # "stopped" /\ ~stop_pending

\* A stream that is cut anywhere, because the script was interrupted or killed
\* in the middle of a record or because only its beginning arrives, is refused,
\* or loaded as the first of the regions read, each whole: it never passes for
\* regions that are shorter or elsewhere.  And the output of a script that
\* returns loads, also if the target went away while it was read
\* (dump_memory.py:50-54, MemoryReader.cc:100-119).
StreamLoads ==
  ~torn =>
    /\ LoadStream(stream) # {}
    /\ dumper = "returned" => LoadStream(Output) # {}
    /\ \A n \in 0 .. Len(Output) : \A s \in LoadStream(SubSeq(Output, 1, n)) :
         \A whole \in LoadStream(stream) : IsPrefix(s, whole \o Unfinished)

\* The dumper ends, and the time the target is stopped with it: no failed copy
\* holds it up (MemoryReader.cc:217-226).
Ends == <>(dumper \notin Active)

\* "The process will be temporarily paused (via SIGSTOP and SIGCONT) while the
\* snapshot is taken" (Main.cc:44-45): it runs again when the dumper has ended
\* by itself, in success or in failure.
PausedTemporarily ==
  [](dumper \in {"returned", "raised", "terminated"} => <>(target # "stopped"))
=============================================================================
