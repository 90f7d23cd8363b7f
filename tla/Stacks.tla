-------------------------------- MODULE Stacks --------------------------------
(***************************************************************************)
(* The find-all-stacks command (src/AnalysisShell.cc): a parallel scan     *)
(* records the f_back of every frame that runs; the frames that no other   *)
(* recorded frame points to are the roots; from each root the chain of     *)
(* f_back is followed through the record and printed, until it ends or     *)
(* leaves the record.                                                      *)
(*                                                                         *)
(* A frame is its address.  The chains are those of the memory as it was   *)
(* found, which may be overwritten: they can lead nowhere, into each other *)
(* and into themselves.                                                    *)
(***************************************************************************)
EXTENDS Integers, Sequences, FiniteSets

CONSTANTS Frames,   \* the addresses at which the frame type is found
          Null,     \* the null pointer
          Stray,    \* an address where there is no frame
          Kinds,    \* the frames considered
          Nothing   \* no trace is being printed

ASSUME FramesAssumption ==
  Frames \subseteq Nat /\ IsFiniteSet(Frames) /\ {Null, Stray, Nothing} \cap Frames = {}

\* What the command makes of a frame (its header is not valid, its repr is not,
\* or it is taken), whether the frame's check gets as far as looking up the
\* type of its code (what it checks before is in order, and f_code is not
\* null), its f_state, and its f_back: a frame or not.
ASSUME KindsAssumption ==
  Kinds \subseteq [check : {"ok", "header", "repr"},
                  looks_up : BOOLEAN,
                  state : {"over", "runnable", "running"},
                  back : Frames \cup {Null, Stray}]

VARIABLES heap,                    \* what each frame is
          knows_code,              \* the code type is among the types
          include_runnable,        \* --include-runnable
          phase,                   \* "scan", "roots", "print", "done" or "terminated"
          visited,                 \* the frames the scan has called back for
          back_for_frame,          \* the record
          num_non_runnable_frames,
          roots,                   \* the roots not printed yet
          root,                    \* the root whose trace is printed
          addr,                    \* the next frame of the trace
          traces,                  \* history: the frames printed below each root
          warned                   \* history: the roots with a warning

request == <<heap, knows_code, include_runnable>>
printVars == <<root, addr, traces, warned>>
vars == <<request, phase, visited, back_for_frame, num_non_runnable_frames, roots, printVars>>

\* The history of a trace that never ends is kept up to here.
MaxLines == Cardinality(Frames) + 1

Scan == INSTANCE AbstractScan WITH
  eligible   <- Frames,
  acceptable <- TRUE,
  status     <- IF phase = "scan" THEN "running" ELSE "returned"

----------------------------------------------------------------------------
(* Collecting. *)

\* is_runnable_or_running is f_state <= 0, is_running is f_state = 0.
Wanted(f) ==
  IF include_runnable THEN heap[f].state \in {"runnable", "running"}
                      ELSE heap[f].state = "running"

Init ==
  /\ heap \in [Frames -> Kinds]
  /\ knows_code \in BOOLEAN
  /\ include_runnable \in BOOLEAN
  /\ phase = "scan"
  /\ visited = {}
  /\ back_for_frame = [f \in {} |-> Null]
  /\ num_non_runnable_frames = 0
  /\ roots = {}
  /\ root = Nothing
  /\ addr = Null
  /\ traces = [r \in {} |-> <<>>]
  /\ warned = {}

Emplace(f) ==
  back_for_frame' = [g \in DOMAIN back_for_frame \cup {f} |->
                       IF g = f THEN heap[f].back ELSE back_for_frame[g]]

\* The lookup of the code type throws, unless the callback returns before it.
CheckThrows(f) == heap[f].check # "header" /\ heap[f].looks_up /\ ~knows_code

\* One call of the scan's callback; the record is changed under output_lock.
\* The header of the frame is checked, and its repr one level deep, which
\* says only of what it contains whether it is valid: a frame with bad fields
\* is kept.
Collect ==
  /\ UNCHANGED phase
  /\ Scan!AVisit
  /\ \E f \in visited' \ visited :
       /\ ~CheckThrows(f)
       /\ IF heap[f].check # "ok"
          THEN UNCHANGED <<back_for_frame, num_non_runnable_frames>>
          ELSE IF Wanted(f)
          THEN Emplace(f) /\ UNCHANGED num_non_runnable_frames
          ELSE /\ num_non_runnable_frames' = num_non_runnable_frames + 1
               /\ UNCHANGED back_for_frame
  /\ UNCHANGED <<request, roots, printVars>>

\* Nothing catches the exception in the worker's thread.
CollectThrows ==
  /\ phase = "scan"
  /\ \E f \in Frames \ visited : CheckThrows(f)
  /\ phase' = "terminated"
  /\ UNCHANGED <<request, visited, back_for_frame, num_non_runnable_frames, roots, printVars>>

ScanReturns ==
  /\ phase = "scan"
  /\ visited = Frames
  /\ phase' = "roots"
  /\ UNCHANGED <<request, visited, back_for_frame, num_non_runnable_frames, roots, printVars>>

\* Bug: the frames that nothing called are taken, not those that called nothing.
FindRootsOldest ==
  /\ phase = "roots"
  /\ roots' = {f \in DOMAIN back_for_frame : back_for_frame[f] = Null}
  /\ phase' = "print"
  /\ UNCHANGED <<request, visited, back_for_frame, num_non_runnable_frames, printVars>>

\* "Roots are all frames that are not the f_back of any other frame."
FindRoots ==
  /\ phase = "roots"
  /\ roots' = DOMAIN back_for_frame \ {back_for_frame[f] : f \in DOMAIN back_for_frame}
  /\ phase' = "print"
  /\ UNCHANGED <<request, visited, back_for_frame, num_non_runnable_frames, printVars>>

----------------------------------------------------------------------------
(* Printing. *)

\* The roots are a std::set: the lowest address comes first.
StartTrace ==
  /\ phase = "print" /\ addr = Null
  /\ \E r \in roots :
       /\ \A q \in roots : r <= q
       /\ roots' = roots \ {r}
       /\ root' = r
       /\ addr' = r
       /\ traces' = [q \in DOMAIN traces \cup {r} |-> IF q = r THEN <<>> ELSE traces[q]]
  /\ UNCHANGED <<request, phase, visited, back_for_frame, num_non_runnable_frames, warned>>

Shown(trace) == IF Len(trace) < MaxLines THEN Append(trace, addr) ELSE trace

\* Bug: the handler warns, and the loop goes on with the same frame.
PrintFrameAgain ==
  /\ phase = "print" /\ addr # Null
  /\ traces' = [traces EXCEPT ![root] = Shown(@)]
  /\ IF addr \in DOMAIN back_for_frame
     THEN addr' = back_for_frame[addr] /\ UNCHANGED warned
     ELSE addr' = addr /\ warned' = warned \cup {root}
  /\ UNCHANGED <<request, phase, visited, back_for_frame, num_non_runnable_frames, roots, root>>

\* One turn of the loop: the frame is printed, in the record or not, and its
\* f_back is the next; a frame that is not in the record ends the trace.
PrintFrame ==
  /\ phase = "print" /\ addr # Null
  /\ traces' = [traces EXCEPT ![root] = Shown(@)]
  /\ IF addr \in DOMAIN back_for_frame
     THEN addr' = back_for_frame[addr] /\ UNCHANGED warned
     ELSE addr' = Null /\ warned' = warned \cup {root}
  /\ UNCHANGED <<request, phase, visited, back_for_frame, num_non_runnable_frames, roots, root>>

Finish ==
  /\ phase = "print" /\ addr = Null /\ roots = {}
  /\ phase' = "done"
  /\ UNCHANGED <<request, visited, back_for_frame, num_non_runnable_frames, roots, printVars>>

Over == phase \in {"done", "terminated"} /\ UNCHANGED vars

Step ==
  \/ Collect \/ CollectThrows \/ ScanReturns \/ FindRoots
  \/ StartTrace \/ PrintFrame \/ Finish

Next == Step \/ Over

Spec == Init /\ [][Next]_vars /\ WF_vars(Step)

----------------------------------------------------------------------------
(* Properties. *)

\* The frames the user asks for, and who calls whom, read off the memory.
Live == {f \in Frames : /\ heap[f].check = "ok"
                        /\ \/ heap[f].state = "running"
                           \/ heap[f].state = "runnable" /\ include_runnable}
Caller(f) == heap[f].back
Innermost == {f \in Live : \A g \in Live : Caller(g) # f}

\* The frames of S that were found and those that called them, directly or not:
\* the least set that has the former and, with a frame, the caller that was found.
Closed(T) == \A f \in T : Caller(f) \in Live => Caller(f) \in T
Callers(S) ==
  {f \in Live : \A T \in SUBSET Live : S \cap Live \subseteq T /\ Closed(T) => f \in T}

OnCycle(f) == f \in Callers({Caller(f)})
LeadsIntoCycle == \E f \in Callers(Innermost) : OnCycle(f)

\* When the command ends, its traces are chains of calls that were under way:
\* each starts with a frame that no other one was called by, each next line is
\* the caller of the line before, and the warning stands exactly where a chain
\* leaves the frames that were found.  No frame is missing but those on a cycle,
\* however the threads found them (AnalysisShell.cc:512-575).
StacksRight ==
  phase = "done" =>
    /\ DOMAIN traces = Innermost
    /\ \A r \in Innermost :
         LET trace == traces[r]
             last  == trace[Len(trace)]
         IN /\ trace[1] = r
            /\ \A i \in 1 .. (Len(trace) - 1) : trace[i + 1] = Caller(trace[i])
            /\ IF r \in warned THEN last \notin Live ELSE last \in Live /\ Caller(last) = Null
    /\ \A f \in Live : OnCycle(f) \/ \E r \in Innermost : \E i \in DOMAIN traces[r] :
                                       traces[r][i] = f
    /\ num_non_runnable_frames = Cardinality({f \in Frames : heap[f].check = "ok"} \ Live)

\* The command ends, or dies with the thread that cannot check a frame, unless
\* a chain that starts at a root runs into a cycle: that one is printed for ever
\* (AnalysisShell.cc:553-573).
CyclicNeverDone == LeadsIntoCycle => phase # "done"
EndsUnlessCyclic ==
  /\ LeadsIntoCycle \/ <>(phase \in {"done", "terminated"})
  /\ []CyclicNeverDone
=============================================================================
