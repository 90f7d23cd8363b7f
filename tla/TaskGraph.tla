------------------------------ MODULE TaskGraph ------------------------------
(***************************************************************************)
(* The async-task-graph command (src/AnalysisShell.cc): a parallel scan    *)
(* collects what every task, future and gather of the snapshot awaits; the *)
(* objects nobody awaits are the roots; from each root print_entry prints  *)
(* the tree of what it awaits, with <!seen> instead of an object that the  *)
(* tree already has.                                                       *)
(*                                                                         *)
(* print_entry is recursive: here its activations are on stack, each with  *)
(* the targets its loop has left.  Sets of addresses are unordered in the  *)
(* code too, so every order of their elements is considered.               *)
(***************************************************************************)
EXTENDS Integers, Sequences, FiniteSets, Functions

CONSTANTS Objects,  \* the asyncio objects of the snapshot
          Null,     \* the null pointer
          Kinds,    \* the objects considered: what an object is and awaits
          Nothing   \* not an object: what a root's activation returns to

ASSUME ObjectsAssumption == Null \notin Objects /\ IsFiniteSet(Objects)

\* A waiter that is not null, and a child, is an object that can be read.
ASSUME KindsAssumption ==
  Kinds \subseteq [kind : {"future", "invalid", "task", "gather"},
                  waiter : Objects \cup {Null}, children : SUBSET Objects]

VARIABLES heap,          \* the snapshot: what each object is
          phase,         \* "scan", "roots", "print" or "done"
          visited,       \* the objects the scan has called back for
          await_targets, \* await_targets_for_obj
          roots,         \* the roots not printed yet
          tree,          \* the root whose tree is printed
          seen,          \* the objects the tree has
          stack,         \* activations of print_entry: [addr, left]
          shown,         \* history: the <<root, object>> printed in full
          flagged        \* history: the <<root, object>> printed as <!seen>

printVars == <<tree, seen, stack, shown, flagged>>
vars == <<heap, phase, visited, await_targets, roots, printVars>>

Scan == INSTANCE AbstractScan WITH
  eligible   <- Objects,
  acceptable <- TRUE,
  status     <- IF phase = "scan" THEN "running" ELSE "returned"

----------------------------------------------------------------------------
(* Collecting. *)

\* An object gets into the graph if it and its short repr are valid.
Kept(o) == heap[o].kind # "invalid"

\* What is recorded for an object: a task's waiter, null or not; nothing for a
\* future; the children of a gather, none if they cannot be read.
Awaits(o) ==
  CASE heap[o].kind = "task"   -> {heap[o].waiter}
    [] heap[o].kind = "gather" -> heap[o].children
    [] OTHER                   -> {}

\* No task or gather of a Python program awaits itself: asyncio refuses it.
Init ==
  /\ heap \in [Objects -> Kinds]
  /\ \A o \in Objects : o # heap[o].waiter /\ o \notin heap[o].children
  /\ phase = "scan"
  /\ visited = {}
  /\ await_targets = [o \in {} |-> {}]
  /\ roots = {}
  /\ tree = Nothing
  /\ seen = {}
  /\ stack = <<>>
  /\ shown = {}
  /\ flagged = {}

\* One call of the scan's callback; the map is changed under output_lock.
Collect ==
  /\ UNCHANGED phase
  /\ Scan!AVisit
  /\ \E o \in visited' \ visited :
       await_targets' = IF Kept(o)
                        THEN [a \in DOMAIN await_targets \cup {o} |->
                                IF a = o THEN Awaits(o) ELSE await_targets[a]]
                        ELSE await_targets
  /\ UNCHANGED <<heap, roots, printVars>>

ScanReturns ==
  /\ phase = "scan"
  /\ visited = Objects
  /\ phase' = "roots"
  /\ UNCHANGED <<heap, visited, await_targets, roots, printVars>>

\* Bug: the second loop erases the awaiter, not its target.
FindRootsAwaiters ==
  /\ phase = "roots"
  /\ roots' = {o \in DOMAIN await_targets : await_targets[o] = {}}
  /\ phase' = "print"
  /\ UNCHANGED <<heap, visited, await_targets, printVars>>

\* Roots are the objects that are not the await target of any other.
FindRoots ==
  /\ phase = "roots"
  /\ roots' = DOMAIN await_targets \ UNION Range(await_targets)
  /\ phase' = "print"
  /\ UNCHANGED <<heap, visited, await_targets, printVars>>

----------------------------------------------------------------------------
(* Printing. *)

\* Bug: an object the tree has is entered again.
EnterAgain(addr, root, seenHere, below) ==
  /\ seen' = seenHere \cup {addr}
  /\ shown' = shown \cup {<<root, addr>>}
  /\ stack' = IF addr \in DOMAIN await_targets
              THEN Append(below, [addr |-> addr, left |-> await_targets[addr]])
              ELSE below
  /\ UNCHANGED flagged

\* print_entry(addr) up to its loop, called with the activations below.
Enter(addr, root, seenHere, below) ==
  /\ seen' = seenHere \cup {addr}
  /\ IF addr \in seenHere
     THEN flagged' = flagged \cup {<<root, addr>>} /\ UNCHANGED shown
     ELSE shown' = shown \cup {<<root, addr>>} /\ UNCHANGED flagged
  /\ stack' = IF addr \notin seenHere /\ addr \in DOMAIN await_targets
              THEN Append(below, [addr |-> addr, left |-> await_targets[addr]])
              ELSE below

\* Bug: one set of seen objects for all trees.
PrintRootSharedSeen ==
  /\ phase = "print" /\ stack = <<>>
  /\ \E r \in roots :
       /\ roots' = roots \ {r}
       /\ tree' = r
       /\ Enter(r, r, seen, <<>>)
  /\ UNCHANGED <<heap, phase, visited, await_targets>>

\* Bug: the loop stays at its root.
PrintRootAgain ==
  /\ phase = "print" /\ stack = <<>>
  /\ \E r \in roots : tree' = r /\ Enter(r, r, {}, <<>>)
  /\ UNCHANGED <<heap, phase, visited, await_targets, roots>>

PrintRoot ==
  /\ phase = "print" /\ stack = <<>>
  /\ \E r \in roots :
       /\ roots' = roots \ {r}
       /\ tree' = r
       /\ Enter(r, r, {}, <<>>)
  /\ UNCHANGED <<heap, phase, visited, await_targets>>

Top == stack[Len(stack)]

\* One turn of the loop over next_addrs.
PrintNext ==
  /\ phase = "print" /\ stack # <<>>
  /\ \E addr \in Top.left :
       LET below == [stack EXCEPT ![Len(stack)].left = @ \ {addr}]
       IN IF addr = Null
          THEN stack' = below /\ UNCHANGED <<seen, shown, flagged>>
          ELSE Enter(addr, tree, seen, below)
  /\ UNCHANGED <<heap, phase, visited, await_targets, roots, tree>>

\* The loop is over, and print_entry returns.
Return ==
  /\ phase = "print" /\ stack # <<>>
  /\ Top.left = {}
  /\ stack' = SubSeq(stack, 1, Len(stack) - 1)
  /\ UNCHANGED <<heap, phase, visited, await_targets, roots, tree, seen, shown, flagged>>

Finish ==
  /\ phase = "print" /\ stack = <<>> /\ roots = {}
  /\ phase' = "done"
  /\ UNCHANGED <<heap, visited, await_targets, roots, printVars>>

Over == phase = "done" /\ UNCHANGED vars

Step == Collect \/ ScanReturns \/ FindRoots \/ PrintRoot \/ PrintNext \/ Return \/ Finish

Next == Step \/ Over

Spec == Init /\ [][Next]_vars /\ WF_vars(Step)

----------------------------------------------------------------------------
(* Properties. *)

TypeOK ==
  /\ heap \in [Objects -> Kinds]
  /\ phase \in {"scan", "roots", "print", "done"}
  /\ visited \subseteq Objects
  /\ await_targets \in [DOMAIN await_targets -> SUBSET (Objects \cup {Null})]
  /\ DOMAIN await_targets \subseteq Objects
  /\ roots \subseteq Objects
  /\ tree \in Objects \cup {Nothing}
  /\ seen \subseteq Objects
  /\ stack \in Seq([addr : Objects, left : SUBSET (Objects \cup {Null})])
  /\ Len(stack) <= Cardinality(Objects)
  /\ \A i \in DOMAIN stack : /\ stack[i].addr \in seen
                             /\ stack[i].left \subseteq await_targets[stack[i].addr]
  /\ shown \cup flagged \subseteq Objects \X Objects

\* The graph of awaiters, read off the snapshot.
InGraph == {o \in Objects : Kept(o)}
Awaited(o) == CASE heap[o].kind = "task"   -> {heap[o].waiter} \ {Null}
                [] heap[o].kind = "gather" -> heap[o].children
                [] OTHER                   -> {}

\* The objects of S, what they wait for, what that waits for, and so on: the
\* least set that has S and with an object all that it waits for.
Closed(T) == \A o \in T : Awaited(o) \subseteq T
Reach(S) == {o \in Objects : \A T \in SUBSET Objects : S \subseteq T /\ Closed(T) => o \in T}

Deadlocked(o) == o \in Reach(Awaited(o))
Roots == {o \in InGraph : \A a \in InGraph : o \notin Awaited(a)}

\* Each root's tree has everything the root waits for, directly or not, and
\* nothing else (AnalysisShell.cc:738-773).  What no root waits for is in no
\* tree; HiddenOnlyBehindCycles says which objects these are.
TreesComplete ==
  phase = "done" =>
    \A r \in Objects : {o \in Objects : <<r, o>> \in shown} =
                         IF r \in Roots THEN Reach({r}) ELSE {}

\* A deadlock is always flagged: if a root waits for objects that wait for each
\* other, <!seen> is in its tree, whatever the order in which the scan found
\* the objects and the sets list them.
DeadlockFlagged ==
  phase = "done" =>
    \A r \in Roots : (\E o \in Reach({r}) : Deadlocked(o))
                       => \E o \in Objects : <<r, o>> \in flagged

\* The command ends on every graph, cyclic or not.
Termination == <>(phase = "done")

\* "Finds all asyncio tasks and shows what they're waiting on" (README.md:29):
\* every task, future and gather that was found is in some tree, but for the
\* objects of a cycle that no root leads into, and those that such a cycle waits
\* for.  The loop at AnalysisShell.cc:731 takes every awaited object out of the
\* roots, so these deadlocks are not printed, in spite of the sentence.
HiddenOnlyBehindCycles ==
  phase = "done" =>
    \A o \in InGraph :
      \/ \E r \in Objects : <<r, o>> \in shown
      \/ \E d \in InGraph : /\ Deadlocked(d) /\ o \in Reach({d})
                            /\ \A r \in Roots : d \notin Reach({r})

\* "If you ever see <!seen> in the output here, that indicates a deadlocked
\* cycle of tasks awaiting each other" (README.md:29, 86).
SeenMeansDeadlock ==
  \A r, o \in Objects : <<r, o>> \in flagged => \E d \in Reach({r}) : Deadlocked(d)
=============================================================================
