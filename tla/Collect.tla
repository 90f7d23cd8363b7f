-------------------------------- MODULE Collect --------------------------------
(***************************************************************************)
(* The commands that search and count (src/AnalysisShell.cc): find,        *)
(* count-by-type, find-all-objects, find-references, find-module,          *)
(* find-all-threads and aggregate-strings.  Each is a scan with a callback *)
(* that runs in several threads at once and adds to a result: to an atomic *)
(* counter, to a slot of its own thread, or, under output_lock, to what    *)
(* all threads share and to the output.  When the scan has returned the    *)
(* command reports.                                                        *)
(*                                                                         *)
(* A callback reads memory that does not change, and decides by what it    *)
(* reads what to do: this is one step.  What it does is a sequence of      *)
(* steps, between which other threads' callbacks take theirs.  Adding to   *)
(* a result that is not atomic is two steps, reading it and writing it.    *)
(***************************************************************************)
EXTENDS Integers, Sequences, FiniteSets, FiniteSetsExt

CONSTANTS Workers,   \* the threads of a scan
          Objects,   \* the addresses at which something is found
          Heaps,     \* the memories considered: what each object is
          Requests,  \* the commands and their options
          Buckets,   \* the upper bounds of the histogram's buckets, increasing
          NoOne      \* no thread: who holds a free lock, owns what all share

ASSUME BucketsAssumption ==
  /\ Buckets \in Seq(Nat) /\ Buckets # <<>>
  /\ \A b \in 2 .. Len(Buckets) : Buckets[b - 1] < Buckets[b]

ASSUME WorkersAssumption == NoOne \notin Workers /\ IsFiniteSet(Workers) /\ IsFiniteSet(Objects)

\* What an object's check and its repr end in; the length of a string, if it can be
\* decoded; whether a type object would fit between the object and its region's end.
ASSUME HeapsAssumption ==
  Heaps \subseteq
    [Objects -> [type : {"sought", "known", "other"}, check : {"ok", "invalid", "throws"},
                 repr : {"ok", "invalid", "throws"}, refers : BOOLEAN,
                 module : {"named", "other", "no_dict", "no_string"}, size : Int, room : BOOLEAN]]

\* Only find and find-all-objects have the option --count.
ASSUME RequestsAssumption ==
  /\ Requests \subseteq
       [command : {"find", "count-by-type", "find-all-objects", "find-references",
                   "find-module", "find-all-threads", "aggregate-strings"},
        count_only : BOOLEAN, smaller : Nat, larger : Nat]
  /\ \A r \in Requests : r.count_only => r.command \in {"find", "find-all-objects"}

VARIABLES heap,        \* what each object is
          request,     \* the command: [command, count_only, smaller, larger]
          status,      \* "running", "returned", "done" or "terminated"
          visited,     \* the objects the scan has called back for
          obj,         \* the object of each thread's callback
          steps,       \* what each callback has left to do
          register,    \* the result a thread has read and not yet written
          output_lock, \* the thread that holds the lock
          results,     \* the result that all share, and one of each thread
          printed,     \* the objects printed, in their order
          report       \* the numbers reported at the end

callbackVars == <<obj, steps, register>>
vars == <<heap, request, status, visited, callbackVars, output_lock, results, printed, report>>

\* The objects at which the scan calls back: count-by-type scans for addresses at
\* which a type object fits, the others for those of what they look for.
Scanned == {o \in Objects : request.command = "count-by-type" => heap[o].room}

Scan == INSTANCE AbstractScan WITH eligible <- Scanned, acceptable <- TRUE

----------------------------------------------------------------------------
(* What a result counts. *)

Types == {"sought", "known"}

\* lower_bound(size_buckets, size): the first bucket that holds the size; the
\* one after the last holds all others.
BucketOf(size) ==
  IF \E b \in DOMAIN Buckets : Buckets[b] >= size
  THEN CHOOSE b \in DOMAIN Buckets : /\ Buckets[b] >= size
                                     /\ \A c \in 1 .. (b - 1) : Buckets[c] < size
  ELSE Len(Buckets) + 1

Keys == {<<"objects", 0>>, <<"bytes", 0>>}
        \cup {<<t, 0>> : t \in Types}
        \cup {<<"length", b>> : b \in 1 .. (Len(Buckets) + 1)}

Nil == [k \in Keys |-> 0]

\* What one object adds to a result that is not atomic.
Added(o) ==
  LET one(S) == [k \in Keys |-> IF k \in S THEN 1 ELSE 0]
  IN CASE request.command = "count-by-type"   -> one({<<heap[o].type, 0>>})
       [] request.command = "find-references" -> one({<<"objects", 0>>})
       [] OTHER -> [one({<<"objects", 0>>, <<"length", BucketOf(heap[o].size)>>})
                      EXCEPT ![<<"bytes", 0>>] = heap[o].size]

Sum(r, s) == [k \in Keys |-> r[k] + s[k]]

\* The sum of all values of f.
SumOf(f) == MapThenSumSet(LAMBDA x : f[x], DOMAIN f)

----------------------------------------------------------------------------
(* What a callback decides. *)

\* The type it asks for; find asks for bytes, find-references for none, and
\* find-all-threads takes every address for a thread state.
RightType(o) ==
  CASE request.command \in {"find-references", "find-all-threads"} -> TRUE
    [] request.command = "count-by-type" -> heap[o].type \in Types
    [] OTHER -> heap[o].type = "sought"

\* invalid_reason: find asks for none, aggregate-strings for the header's.
Checks == request.command # "find"

\* The objects the command is about, before it has printed any.
Selected(o) ==
  /\ RightType(o)
  /\ Checks => heap[o].check = "ok"
  /\ CASE request.command = "find-references"   -> heap[o].refers
       [] request.command = "find-module"       -> heap[o].module = "named"
       [] request.command = "aggregate-strings" -> heap[o].size >= 0
       [] OTHER -> TRUE

\* Printed if the repr is valid, and counted only then.
PrintedIfValid ==
  \/ request.command \in {"find-references", "find-module", "find-all-threads"}
  \/ request.command = "find-all-objects" /\ ~request.count_only

InPrintRange(o) == heap[o].size >= request.larger /\ heap[o].size < request.smaller

\* An exception that leaves a callback: a type that is missing when a frame is
\* checked or printed, a module whose dict or name cannot be read.
Throws(o) ==
  /\ RightType(o) /\ Checks
  /\ \/ heap[o].check = "throws" /\ request.command # "aggregate-strings"
     \/ /\ request.command = "find-module" /\ heap[o].check = "ok"
        /\ heap[o].module \in {"no_dict", "no_string"}
     \/ Selected(o) /\ PrintedIfValid /\ heap[o].repr = "throws"

\* What the callback does with an object it takes.
Steps(o) ==
  CASE request.command = "count-by-type"     -> <<"read", "write">>
    [] request.command = "find-references"   -> <<"lock", "print", "read", "write", "unlock">>
    [] request.command = "find-all-threads"  -> <<"lock", "print", "unlock">>
    [] request.command = "aggregate-strings" ->
         <<"lock", "read", "write">> \o (IF InPrintRange(o) THEN <<"print">> ELSE <<>>)
           \o <<"unlock">>
    [] request.count_only -> <<"count">>
    [] OTHER -> <<"count", "lock", "print", "unlock">>

Taken(o) == Selected(o) /\ (PrintedIfValid => heap[o].repr = "ok")

----------------------------------------------------------------------------
Init ==
  /\ heap \in Heaps
  /\ request \in Requests
  /\ status = "running"
  /\ visited = {}
  /\ obj = [w \in Workers |-> NoOne]
  /\ steps = [w \in Workers |-> <<>>]
  /\ register = [w \in Workers |-> Nil]
  /\ output_lock = NoOne
  /\ results = [s \in Workers \cup {NoOne} |-> Nil]
  /\ printed = <<>>
  /\ report = Nil

\* The scan calls back, in a thread that is free, and the callback decides.
Call(w) ==
  /\ steps[w] = <<>>
  /\ UNCHANGED <<heap, request, register, output_lock, results, printed, report>>
  /\ Scan!AVisit
  /\ \E o \in visited' \ visited :
       /\ ~Throws(o)
       /\ obj' = [obj EXCEPT ![w] = o]
       /\ steps' = [steps EXCEPT ![w] = IF Taken(o) THEN Steps(o) ELSE <<>>]

\* Bug: an exception only ends the callback, and its object is left out.
CallCatches(w) ==
  /\ status = "running"
  /\ steps[w] = <<>>
  /\ \E o \in Scanned \ visited : Throws(o) /\ visited' = visited \cup {o}
  /\ UNCHANGED <<heap, request, status, callbackVars, output_lock, results, printed, report>>

\* Nothing catches an exception in a thread: the process ends.
CallThrows(w) ==
  /\ status = "running"
  /\ steps[w] = <<>>
  /\ \E o \in Scanned \ visited : Throws(o)
  /\ status' = "terminated"
  /\ UNCHANGED <<heap, request, visited, callbackVars, output_lock, results, printed, report>>

\* The next step of a callback.
At(w, step) ==
  /\ status = "running"
  /\ steps[w] # <<>> /\ Head(steps[w]) = step
  /\ UNCHANGED <<heap, request, visited, obj, report>>

Advance(w) == steps' = [steps EXCEPT ![w] = Tail(@)]

\* result_count++ of a std::atomic.
Count(w) ==
  /\ At(w, "count")
  /\ Advance(w)
  /\ results' = [results EXCEPT ![NoOne][<<"objects", 0>>] = @ + 1]
  /\ UNCHANGED <<status, register, output_lock, printed>>

\* Bug: each thread has a lock of its own.
LockOwn(w) ==
  /\ At(w, "lock")
  /\ Advance(w)
  /\ output_lock' = w
  /\ UNCHANGED <<status, register, results, printed>>

Lock(w) ==
  /\ At(w, "lock")
  /\ output_lock = NoOne
  /\ Advance(w)
  /\ output_lock' = w
  /\ UNCHANGED <<status, register, results, printed>>

Unlock(w) ==
  /\ At(w, "unlock")
  /\ Advance(w)
  /\ output_lock' = NoOne
  /\ UNCHANGED <<status, register, results, printed>>

\* aggregate-strings only makes the repr here, and prints it even if it is not
\* valid; the others have made it when they decided.
PrintRepr(w) ==
  /\ At(w, "print")
  /\ IF request.command = "aggregate-strings" /\ heap[obj[w]].repr = "throws"
     THEN status' = "terminated" /\ UNCHANGED <<steps, printed>>
     ELSE Advance(w) /\ printed' = Append(printed, obj[w]) /\ UNCHANGED status
  /\ UNCHANGED <<register, output_lock, results>>

\* Where a callback adds: count_for_type[thread_index], or what all share.
Slot(w) == IF request.command = "count-by-type" THEN w ELSE NoOne

ReadResult(w) ==
  /\ At(w, "read")
  /\ Advance(w)
  /\ register' = [register EXCEPT ![w] = results[Slot(w)]]
  /\ UNCHANGED <<status, output_lock, results, printed>>

WriteResult(w) ==
  /\ At(w, "write")
  /\ Advance(w)
  /\ results' = [results EXCEPT ![Slot(w)] = Sum(register[w], Added(obj[w]))]
  /\ UNCHANGED <<status, register, output_lock, printed>>

\* The scan returns when the last callback has.
ScanReturns ==
  /\ \A w \in Workers : steps[w] = <<>>
  /\ UNCHANGED <<heap, request, callbackVars, output_lock, results, printed, report>>
  /\ Scan!AReturn

\* The results of all threads are added up.
Report ==
  /\ status = "returned"
  /\ report' = [k \in Keys |-> SumOf([s \in DOMAIN results |-> results[s][k]])]
  /\ status' = "done"
  /\ UNCHANGED <<heap, request, visited, callbackVars, output_lock, results, printed>>

Worker(w) ==
  \/ Call(w) \/ CallThrows(w)
  \/ Count(w) \/ Lock(w) \/ Unlock(w) \/ PrintRepr(w) \/ ReadResult(w) \/ WriteResult(w)

Over == status \in {"done", "terminated"} /\ UNCHANGED vars

Next == (\E w \in Workers : Worker(w)) \/ ScanReturns \/ Report \/ Over

\* The system runs every thread.  It need not be just to those that wait for the
\* lock: there are only so many objects for the others to hold it for.
Fairness ==
  /\ \A w \in Workers : WF_vars(Worker(w))
  /\ WF_vars(ScanReturns \/ Report)

Spec == Init /\ [][Next]_vars /\ Fairness

----------------------------------------------------------------------------
(* Properties. *)

\* "Print all strings of fewer than N bytes", "of N bytes or more" (help of
\* aggregate-strings, AnalysisShell.cc:641-642), where one of the two is given.
LengthAskedFor(o) ==
  /\ request.smaller > 0 \/ request.larger > 0
  /\ request.smaller > 0 => heap[o].size < request.smaller
  /\ heap[o].size >= request.larger

\* An exception to it: the upper limit is 0 if it is not given (:579), so no string is
\* below it (:619), and --print-larger-than alone prints nothing.
NoUpperLimit == request.smaller = 0

\* An exception to "Counts the number of existing objects for each known type" (help
\* of count-by-type, :278): an object in the last bytes of a region, where no type
\* object fits, is not called back for (:293).
Overlooked(o) == request.command = "count-by-type" /\ ~heap[o].room

\* The objects one thread would list, and those it would count, if it went alone
\* through all that there are, but for the two exceptions.
Listed ==
  {o \in Objects : /\ Selected(o)
                   /\ CASE request.command = "aggregate-strings" ->
                             LengthAskedFor(o) /\ ~NoUpperLimit
                        [] request.command = "count-by-type" -> FALSE
                        [] OTHER -> ~request.count_only}
Silenced == {o \in Listed : PrintedIfValid /\ heap[o].repr = "invalid"}
Counted ==
  CASE request.command = "find-all-threads" -> {}
    [] request.command \in {"count-by-type", "aggregate-strings"} \/ request.count_only ->
         {o \in Objects : Selected(o) /\ ~Overlooked(o)}
    [] OTHER -> Listed \ Silenced

\* The report is that of one thread, whichever threads found the objects and however
\* their callbacks were interleaved: the counts are exact, of all, of each type, and
\* of each length, and every object is printed once that was asked for, unless its
\* repr is not valid, and no other (AnalysisShell.cc:206-650).  NoUpperLimit and
\* Overlooked are where the help of a command promises more than it does.
ReportExact ==
  status = "done" =>
    LET N(S) == Cardinality(S) IN
    /\ Len(printed) = N(Listed \ Silenced)
    /\ {printed[i] : i \in DOMAIN printed} = Listed \ Silenced
    /\ IF request.command = "count-by-type"
       THEN \A t \in Types : report[<<t, 0>>] = N({o \in Counted : heap[o].type = t})
       ELSE report[<<"objects", 0>>] = N(Counted)
    /\ request.command = "aggregate-strings" =>
         /\ report[<<"bytes", 0>>] = SumOf([o \in Counted |-> heap[o].size])
         /\ \A b \in DOMAIN Buckets :
              report[<<"length", b>>] =
                N({o \in Counted : /\ heap[o].size <= Buckets[b]
                                   /\ b > 1 => heap[o].size > Buckets[b - 1]})

\* The command always ends: with its report, or with the whole process if there
\* is an object whose check or repr throws, which no command recovers from.
EndsWithReportOrProcess ==
  LET Deadly(o) == \/ Throws(o)
                   \/ /\ request.command = "aggregate-strings" /\ Selected(o)
                      /\ InPrintRange(o) /\ heap[o].repr = "throws"
  IN IF \E o \in Scanned : Deadly(o) THEN <>[](status = "terminated")
                                     ELSE <>[](status = "done")
=============================================================================
