--------------------------- MODULE TaskGraphProofs ---------------------------
(***************************************************************************)
(* Proofs about TaskGraph, for any number of objects and any graph.        *)
(*                                                                         *)
(* print_entry is a depth-first search.  The objects that a tree has are   *)
(* those on the stack and those it is through with; as long as no <!seen>  *)
(* is in the tree, the latter wait for nothing but each other, and none    *)
(* for itself.                                                             *)
(***************************************************************************)
EXTENDS TaskGraph, FiniteSetTheorems, TLAPS

(* The parts of the inductive invariant. *)

\* What has been recorded, while the scan runs and when it is over.
Graph ==
  /\ DOMAIN await_targets = IF phase = "scan" THEN visited \cap InGraph ELSE InGraph
  /\ \A o \in DOMAIN await_targets : await_targets[o] = Awaits(o)

\* The roots whose tree is printed, or being printed.
Printed == IF phase \in {"scan", "roots"} THEN {} ELSE Roots \ roots

Order ==
  /\ roots \subseteq Roots
  /\ phase \in {"scan", "roots", "done"} => roots = {} /\ stack = <<>>

\* The objects whose loop is not over.
OnStack == {stack[i].addr : i \in DOMAIN stack}

\* Each is under way once.
Distinct ==
  /\ \A i \in DOMAIN stack : stack[i].addr \in seen \cap InGraph
  /\ \A i \in DOMAIN stack : stack[i].left \subseteq Awaits(stack[i].addr)
  /\ \A i, j \in DOMAIN stack : stack[i].addr = stack[j].addr => i = j

\* The loop of o has x still to come.
ToCome(o, x) == \E i \in DOMAIN stack : stack[i].addr = o /\ x \in stack[i].left

\* What the tree that is printed has so far.
Exploring ==
  stack # <<>> =>
    /\ tree \in Printed
    /\ tree \in seen
    /\ seen \subseteq Reach({tree})
    /\ \A o \in seen : \A x \in Awaited(o) : x \in seen \/ ToCome(o, x)

\* The tree of r has got what it will have.
Ready(r) == r \in Printed /\ ~(r = tree /\ stack # <<>>)

Trees ==
  /\ \A r, o \in Objects : Ready(r) => (<<r, o>> \in shown <=> o \in Reach({r}))
  /\ \A o \in Objects : stack # <<>> => (<<tree, o>> \in shown <=> o \in seen)
  /\ \A r, o \in Objects : r \notin Printed => <<r, o>> \notin shown

\* There is no <!seen> in the tree of r.
Clean(r) == \A o \in Objects : <<r, o>> \notin flagged

\* The objects that the search is through with.
Through == seen \ OnStack

\* A tree without <!seen>: what the search is through with waits for nothing
\* else, and the objects on the stack wait for each other in a row.
NoCycleYet ==
  stack # <<>> /\ Clean(tree) =>
    /\ \A o \in Through : Awaited(o) \subseteq Through /\ ~Deadlocked(o)
    /\ \A i \in DOMAIN stack : \A x \in Awaited(stack[i].addr) :
         \/ x \in stack[i].left
         \/ x \in Through
         \/ i < Len(stack) /\ x = stack[i + 1].addr

NoneMissed ==
  \A r \in Objects : Ready(r) /\ Clean(r) => \A o \in Reach({r}) : ~Deadlocked(o)

TInv == /\ TypeOK /\ Graph /\ Order /\ Distinct /\ Exploring
        /\ Trees /\ NoCycleYet /\ NoneMissed

----------------------------------------------------------------------------
(* What an object waits for. *)

LEMMA AwaitedFacts ==
  ASSUME TypeOK
  PROVE  /\ \A o \in Objects : Awaited(o) = Awaits(o) \ {Null}
         /\ \A o \in Objects : Awaited(o) \subseteq Objects
         /\ \A o \in Objects : Awaits(o) \subseteq Objects \cup {Null}
         /\ \A o \in Objects \ InGraph : Awaited(o) = {}
         /\ InGraph \subseteq Objects
<1>1. ASSUME NEW o \in Objects
      PROVE  /\ heap[o] \in Kinds
             /\ heap[o].kind \in {"future", "invalid", "task", "gather"}
             /\ heap[o].waiter \in Objects \cup {Null}
             /\ heap[o].children \subseteq Objects
             /\ Null \notin Objects
  BY <1>1, KindsAssumption, ObjectsAssumption DEF TypeOK
<1>2. ASSUME NEW o \in Objects PROVE Awaited(o) = Awaits(o) \ {Null}
  BY <1>1, <1>2 DEF Awaited, Awaits
<1>3. ASSUME NEW o \in Objects
      PROVE  Awaited(o) \subseteq Objects /\ Awaits(o) \subseteq Objects \cup {Null}
  BY <1>1, <1>3 DEF Awaited, Awaits
<1>4. ASSUME NEW o \in Objects, o \notin InGraph PROVE Awaited(o) = {}
  BY <1>4 DEF Awaited, InGraph, Kept
<1> QED
  BY <1>2, <1>3, <1>4 DEF InGraph

LEMMA ReachHas ==
  ASSUME NEW S \in SUBSET Objects
  PROVE  S \subseteq Reach(S) /\ Reach(S) \subseteq Objects
BY DEF Reach

LEMMA ReachClosed ==
  ASSUME TypeOK, NEW S
  PROVE  Closed(Reach(S))
<1> SUFFICES ASSUME NEW o \in Reach(S), NEW x \in Awaited(o)
             PROVE  x \in Reach(S)
  BY DEF Closed
<1>1. o \in Objects
  BY DEF Reach
<1>2. x \in Objects
  BY <1>1, AwaitedFacts
<1>3. ASSUME NEW T \in SUBSET Objects, S \subseteq T /\ Closed(T) PROVE x \in T
  <2>1. o \in T
    BY <1>3 DEF Reach
  <2> QED
    BY <1>3, <2>1 DEF Closed
<1> QED
  BY <1>2, <1>3 DEF Reach

LEMMA ReachLeast ==
  ASSUME NEW S, NEW T \in SUBSET Objects, S \subseteq T, Closed(T)
  PROVE  Reach(S) \subseteq T
BY DEF Reach

\* What waits for nothing outside a closed set that it is not in itself does not
\* wait for itself.
LEMMA NotDeadlocked ==
  ASSUME NEW T \in SUBSET Objects, Closed(T), NEW o, o \notin T, Awaited(o) \subseteq T
  PROVE  ~Deadlocked(o)
BY ReachLeast DEF Deadlocked

\* As long as the snapshot stays as it is, so does the graph.
LEMMA SameGraph ==
  ASSUME UNCHANGED heap
  PROVE  /\ InGraph' = InGraph
         /\ \A o : Awaits(o)' = Awaits(o) /\ Awaited(o)' = Awaited(o)
         /\ \A S : Reach(S)' = Reach(S)
         /\ \A o : Deadlocked(o)' = Deadlocked(o)
         /\ Roots' = Roots
<1>1. InGraph' = InGraph
  BY DEF InGraph, Kept
<1>2. \A o : Awaits(o)' = Awaits(o)
  BY DEF Awaits
<1>3. \A o : Awaited(o)' = Awaited(o)
  BY DEF Awaited
<1>4. \A T : Closed(T)' = Closed(T)
  BY <1>3 DEF Closed
<1>5. \A S : Reach(S)' = Reach(S)
  BY <1>4 DEF Reach
<1>6. \A o : Deadlocked(o)' = Deadlocked(o)
  BY <1>3, <1>5 DEF Deadlocked
<1>7. Roots' = Roots
  BY <1>1, <1>3 DEF Roots
<1> QED
  BY <1>1, <1>2, <1>3, <1>5, <1>6, <1>7

LEMMA RootsInGraph == Roots \subseteq InGraph
BY DEF Roots

\* What an object leads to leads nowhere else.
LEMMA ReachOn ==
  ASSUME TypeOK, NEW S \in SUBSET Objects, NEW q \in Reach(S)
  PROVE  Reach({q}) \subseteq Reach(S)
<1>1. Reach(S) \in SUBSET Objects /\ Closed(Reach(S))
  BY ReachHas, ReachClosed
<1> QED
  BY <1>1, ReachLeast

LEMMA LeastNat ==
  ASSUME NEW T \in SUBSET Nat, T # {}
  PROVE  \E n \in T : \A m \in T : n <= m
<1> DEFINE R == OpToRel(<, Nat)
<1>1. IsWellFoundedOn(R, Nat)
  BY NatLessThanWellFounded
<1>2. \A m, n \in Nat : <<m, n>> \in R <=> m < n
  BY DEF OpToRel
<1> HIDE DEF R
<1>3. PICK n \in T : \A m \in T : ~(<<m, n>> \in R)
  BY <1>1, WFMin
<1>4. ASSUME NEW m \in T PROVE n <= m
  <2>1. m \in Nat /\ n \in Nat /\ ~(m < n)
    BY <1>2, <1>3
  <2> QED
    BY <2>1
<1> QED
  BY <1>4

\* The objects that lead to p.
Upstream(p) == {q \in Objects : p \in Reach({q})}

\* What no root leads to lies behind a cycle: one that leads to it and to which the
\* fewest lead is awaited by another, to which it leads again.
LEMMA BehindCycle ==
  ASSUME TypeOK, NEW o \in InGraph, \A r \in Roots : o \notin Reach({r})
  PROVE  \E d \in InGraph : /\ Deadlocked(d) /\ o \in Reach({d})
                            /\ \A r \in Roots : d \notin Reach({r})
<1> DEFINE H == {d \in InGraph : o \in Reach({d})}
<1>1. InGraph \subseteq Objects /\ \A p \in Objects : Awaited(p) \in SUBSET Objects
  BY AwaitedFacts
<1>2. \A p \in Objects : p \in Reach({p})
  <2>1. \A p \in Objects : {p} \in SUBSET Objects
    OBVIOUS
  <2> QED
    BY <2>1, ReachHas
<1>3. \A p \in Objects : \A q \in Reach({p}) : q \in Objects /\ Reach({q}) \subseteq Reach({p})
  <2> SUFFICES ASSUME NEW p \in Objects, NEW q \in Reach({p})
               PROVE  q \in Objects /\ Reach({q}) \subseteq Reach({p})
    OBVIOUS
  <2>1. {p} \in SUBSET Objects
    OBVIOUS
  <2> QED
    BY <2>1, ReachHas, ReachOn
<1>4. ASSUME NEW d \in H PROVE \A r \in Roots : d \notin Reach({r})
  <2>1. \A r \in Roots : r \in Objects
    BY <1>1, RootsInGraph
  <2> QED
    BY <1>3, <2>1
<1>5. SUFFICES ASSUME \A d \in H : ~Deadlocked(d) PROVE FALSE
  BY <1>4
<1>6. \A p \in Objects : IsFiniteSet(Upstream(p)) /\ Cardinality(Upstream(p)) \in Nat
  <2>1. \A p : Upstream(p) \in SUBSET Objects
    BY DEF Upstream
  <2>2. \A p : IsFiniteSet(Upstream(p))
    BY <2>1, ObjectsAssumption, FS_Subset
  <2> QED
    BY <2>2, FS_CardinalityType
<1>7. PICK p \in H : \A q \in H : Cardinality(Upstream(p)) <= Cardinality(Upstream(q))
  <2> DEFINE T == {Cardinality(Upstream(q)) : q \in H}
  <2>1. o \in H
    BY <1>1, <1>2
  <2>2. T \in SUBSET Nat /\ T # {}
    BY <1>1, <1>6, <2>1
  <2>3. PICK n \in T : \A m \in T : n <= m
    BY <2>2, LeastNat
  <2> QED
    BY <2>3
<1>8. p \in Objects /\ p \in InGraph /\ p \notin Roots
  BY <1>1, <1>2, <1>4
<1>9. PICK a \in InGraph : p \in Awaited(a)
  BY <1>8 DEF Roots
<1>10. p \in Reach({a}) /\ a \in Objects
  <2>1. a \in Objects /\ a \in Reach({a}) /\ Closed(Reach({a}))
    BY <1>1, <1>2, ReachClosed
  <2> QED
    BY <1>9, <2>1 DEF Closed
<1>11. a \in H
  BY <1>3, <1>10
<1>12. Upstream(a) \subseteq Upstream(p)
  BY <1>3, <1>10 DEF Upstream
<1>13. p \notin Upstream(a)
  <2>1. SUFFICES ASSUME a \in Reach({p}) PROVE FALSE
    BY DEF Upstream
  <2>2. Awaited(a) \in SUBSET Objects
    BY <1>1, <1>10
  <2>3. p \in Reach(Awaited(a))
    BY <1>9, <2>2, ReachHas
  <2>4. a \in Reach(Awaited(a))
    BY <2>1, <2>2, <2>3, ReachOn
  <2> QED
    BY <1>5, <1>11, <2>4 DEF Deadlocked
<1>14. p \in Upstream(p)
  BY <1>2, <1>8 DEF Upstream
<1>15. Cardinality(Upstream(a)) <= Cardinality(Upstream(p))
       /\ Cardinality(Upstream(a)) # Cardinality(Upstream(p))
  BY <1>6, <1>8, <1>12, <1>13, <1>14, FS_Subset
<1>16. Cardinality(Upstream(p)) <= Cardinality(Upstream(a))
  BY <1>7, <1>11
<1>17. Cardinality(Upstream(a)) \in Nat /\ Cardinality(Upstream(p)) \in Nat
  BY <1>6, <1>8, <1>10
<1> QED
  BY <1>15, <1>16, <1>17

----------------------------------------------------------------------------
(* The stack. *)

Frame == [addr : Objects, left : SUBSET (Objects \cup {Null})]

LEMMA StackFacts ==
  ASSUME TypeOK
  PROVE  /\ DOMAIN stack = 1 .. Len(stack)
         /\ Len(stack) \in Nat
         /\ stack \in Seq(Frame)
         /\ \A i \in DOMAIN stack : stack[i] \in Frame
         /\ stack # <<>> <=> Len(stack) # 0
         /\ stack # <<>> => Len(stack) \in DOMAIN stack
<1>1. stack \in Seq(Frame)
  BY DEF TypeOK, Frame
<1> QED
  BY <1>1

\* The stack is no deeper than there are objects.
LEMMA Shallow ==
  ASSUME NEW s \in Seq(Frame),
         \A i, j \in DOMAIN s : s[i].addr = s[j].addr => i = j
  PROVE  Len(s) <= Cardinality(Objects)
<1>1. Len(s) \in Nat /\ DOMAIN s = 1 .. Len(s) /\ \A i \in DOMAIN s : s[i] \in Frame
  OBVIOUS
<1> DEFINE f == [i \in 1 .. Len(s) |-> s[i].addr]
<1>2. f \in [1 .. Len(s) -> Objects]
  BY <1>1 DEF Frame
<1>3. f \in Injection(1 .. Len(s), Objects)
  BY <1>1, <1>2 DEF Injection, IsInjective
<1>4. IsFiniteSet(1 .. Len(s)) /\ Cardinality(1 .. Len(s)) = Len(s)
  <2>1. Cardinality(1 .. Len(s)) = IF 1 > Len(s) THEN 0 ELSE Len(s) - 1 + 1
    BY <1>1, FS_Interval
  <2> QED
    BY <1>1, <2>1, FS_Interval
<1>5. Cardinality(1 .. Len(s)) <= Cardinality(Objects)
  BY <1>3, <1>4, ObjectsAssumption, FS_Injection
<1> QED
  BY <1>4, <1>5

\* An element is taken from what the loop on top of the stack has left.
Take(x) == [stack EXCEPT ![Len(stack)].left = @ \ {x}]

LEMMA TakeFacts ==
  ASSUME TypeOK, stack # <<>>, NEW x
  PROVE  /\ Take(x) \in Seq(Frame)
         /\ Len(Take(x)) = Len(stack)
         /\ DOMAIN Take(x) = DOMAIN stack
         /\ \A i \in DOMAIN stack :
              /\ Take(x)[i].addr = stack[i].addr
              /\ Take(x)[i].left = IF i = Len(stack) THEN stack[i].left \ {x} ELSE stack[i].left
<1> DEFINE n == Len(stack)
<1>1. /\ DOMAIN stack = 1 .. n /\ n \in Nat /\ stack \in Seq(Frame) /\ n \in DOMAIN stack
      /\ \A i \in DOMAIN stack : stack[i] \in Frame
  BY StackFacts
<1> DEFINE top == [stack[n] EXCEPT !.left = @ \ {x}]
<1>2. top \in Frame /\ top.addr = stack[n].addr /\ top.left = stack[n].left \ {x}
  BY <1>1 DEF Frame
<1>3. Take(x) = [stack EXCEPT ![n] = top]
  BY DEF Take
<1>4. /\ Take(x) \in Seq(Frame) /\ Len(Take(x)) = n
      /\ \A i \in DOMAIN stack : Take(x)[i] = IF i = n THEN top ELSE stack[i]
  BY <1>1, <1>2, <1>3
<1>5. DOMAIN Take(x) = DOMAIN stack
  BY <1>1, <1>4
<1> QED
  BY <1>1, <1>2, <1>4, <1>5

LEMMA AppendFacts ==
  ASSUME NEW s \in Seq(Frame), NEW f \in Frame
  PROVE  /\ Append(s, f) \in Seq(Frame)
         /\ Len(Append(s, f)) = Len(s) + 1
         /\ Len(s) \in Nat
         /\ DOMAIN s = 1 .. Len(s)
         /\ DOMAIN Append(s, f) = 1 .. (Len(s) + 1)
         /\ \A i \in DOMAIN s : Append(s, f)[i] = s[i]
         /\ Append(s, f)[Len(s) + 1] = f
         /\ Append(s, f) # <<>>
OBVIOUS

LEMMA PopFacts ==
  ASSUME TypeOK, stack # <<>>
  PROVE  LET s == SubSeq(stack, 1, Len(stack) - 1)
         IN /\ s \in Seq(Frame)
            /\ Len(s) = Len(stack) - 1
            /\ DOMAIN s = 1 .. (Len(stack) - 1)
            /\ \A i \in DOMAIN s : s[i] = stack[i]
            /\ s # <<>> => Len(stack) - 1 \in 1 .. (Len(stack) - 1)
BY StackFacts

----------------------------------------------------------------------------
(* Before the first tree, and after the last. *)

LEMMA Before ==
  ASSUME stack' = <<>>, Printed' = {},
         \A r, o \in Objects : <<r, o>> \notin shown'
  PROVE  Distinct' /\ Exploring' /\ Trees' /\ NoCycleYet' /\ NoneMissed'
<1>1. DOMAIN stack' = {}
  OBVIOUS
<1> QED
  BY <1>1 DEF Distinct, Exploring, Trees, NoCycleYet, NoneMissed, Ready

LEMMA InitTInv ==
  Init => TInv
<1> SUFFICES ASSUME Init PROVE TInv
  OBVIOUS
<1> USE DEF Init
<1>1. DOMAIN stack = {} /\ stack \in Seq(Frame) /\ Len(stack) = 0
  OBVIOUS
<1>2. TypeOK
  <2>1. DOMAIN await_targets = {}
    OBVIOUS
  <2>2. 0 <= Cardinality(Objects)
    BY ObjectsAssumption, FS_CardinalityType
  <2> QED
    BY <1>1, <2>1, <2>2 DEF TypeOK, Frame
<1>3. Graph /\ Order
  BY DEF Graph, Order
<1>4. Printed = {}
  BY DEF Printed
<1>5. Distinct /\ Exploring /\ Trees /\ NoCycleYet /\ NoneMissed
  BY <1>1, <1>4 DEF Distinct, Exploring, Trees, NoCycleYet, NoneMissed, Ready
<1> QED
  BY <1>2, <1>3, <1>5 DEF TInv

\* A call of the scan's callback is for an object it has not been called for.
LEMMA CollectCases ==
  ASSUME TypeOK, Collect
  PROVE  /\ phase = "scan"
         /\ \E o \in Objects \ visited :
              /\ visited' = visited \cup {o}
              /\ await_targets' = IF Kept(o)
                                  THEN [a \in DOMAIN await_targets \cup {o} |->
                                          IF a = o THEN Awaits(o) ELSE await_targets[a]]
                                  ELSE await_targets
<1>1. PICK o \in Objects \ visited : visited' = visited \cup {o}
  BY DEF Collect, Scan!AVisit
<1>2. visited' \ visited = {o}
  BY <1>1
<1>3. phase = "scan"
  BY DEF Collect, Scan!AVisit
<1> QED
  BY <1>1, <1>2, <1>3 DEF Collect

LEMMA CollectTInv ==
  ASSUME TInv, Collect
  PROVE  TInv'
<1> USE DEF TInv
<1>0. phase = "scan" /\ phase' = "scan" /\ UNCHANGED <<heap, roots, tree, seen, stack, shown, flagged>>
  BY CollectCases DEF Collect, printVars
<1>1. PICK o \in Objects \ visited :
        /\ visited' = visited \cup {o}
        /\ await_targets' = IF Kept(o)
                            THEN [a \in DOMAIN await_targets \cup {o} |->
                                    IF a = o THEN Awaits(o) ELSE await_targets[a]]
                            ELSE await_targets
  BY CollectCases
<1>2. DOMAIN await_targets = visited \cap InGraph
  BY <1>0 DEF Graph
<1>3. /\ DOMAIN await_targets' = visited' \cap InGraph
      /\ \A a \in DOMAIN await_targets' : await_targets'[a] = Awaits(a)
  <2>1. CASE Kept(o)
    <3>1. o \in InGraph
      BY <2>1 DEF InGraph
    <3> QED
      BY <1>1, <1>2, <2>1, <3>1 DEF Graph
  <2>2. CASE ~Kept(o)
    <3>1. o \notin InGraph
      BY <2>2 DEF InGraph
    <3> QED
      BY <1>1, <1>2, <2>2, <3>1 DEF Graph
  <2> QED
    BY <2>1, <2>2
<1>4. Graph'
  <2>1. InGraph' = InGraph /\ \A a : Awaits(a)' = Awaits(a)
    BY <1>0, SameGraph
  <2> QED
    BY <1>0, <1>3, <2>1 DEF Graph
<1>5. TypeOK'
  <2>1. DOMAIN await_targets' \subseteq Objects
    BY <1>3, AwaitedFacts
  <2>2. \A a \in DOMAIN await_targets' : await_targets'[a] \subseteq Objects \cup {Null}
    BY <1>3, <2>1, AwaitedFacts
  <2>3. await_targets' = [a \in DOMAIN await_targets' |-> await_targets'[a]]
    <3>1. await_targets = [a \in DOMAIN await_targets |-> await_targets[a]]
      BY DEF TypeOK
    <3> QED
      BY <1>1, <3>1
  <2>4. await_targets' \in [DOMAIN await_targets' -> SUBSET (Objects \cup {Null})]
    BY <2>2, <2>3
  <2>5. stack = <<>>
    BY <1>0 DEF Order
  <2> QED
    BY <1>0, <1>1, <2>1, <2>4, <2>5 DEF TypeOK
<1>6. Order'
  BY <1>0, SameGraph DEF Order
<1>7. Printed' = {} /\ stack' = <<>> /\ \A r, x \in Objects : <<r, x>> \notin shown'
  BY <1>0 DEF Printed, Trees, Order
<1> QED
  BY <1>4, <1>5, <1>6, <1>7, Before

LEMMA ScanReturnsTInv ==
  ASSUME TInv, ScanReturns
  PROVE  TInv'
<1> USE DEF TInv
<1>0. /\ phase = "scan" /\ phase' = "roots" /\ visited = Objects
      /\ UNCHANGED <<heap, visited, await_targets, roots, tree, seen, stack, shown, flagged>>
  BY DEF ScanReturns, printVars
<1>1. Graph'
  <2>1. visited \cap InGraph = InGraph
    BY <1>0, AwaitedFacts
  <2> QED
    BY <1>0, <2>1, SameGraph DEF Graph
<1>2. TypeOK'
  BY <1>0 DEF TypeOK
<1>3. Order'
  BY <1>0, SameGraph DEF Order
<1>4. Printed' = {} /\ stack' = <<>> /\ \A r, x \in Objects : <<r, x>> \notin shown'
  BY <1>0 DEF Printed, Trees, Order
<1> QED
  BY <1>1, <1>2, <1>3, <1>4, Before

\* What no recorded object awaits is what no object of the graph waits for.
LEMMA FindRootsTInv ==
  ASSUME TInv, FindRoots
  PROVE  TInv'
<1> USE DEF TInv
<1>0. /\ phase = "roots" /\ phase' = "print"
      /\ roots' = DOMAIN await_targets \ UNION Range(await_targets)
      /\ UNCHANGED <<heap, visited, await_targets, tree, seen, stack, shown, flagged>>
  BY DEF FindRoots, printVars
<1>1. DOMAIN await_targets = InGraph /\ \A a \in InGraph : await_targets[a] = Awaits(a)
  BY <1>0 DEF Graph
<1>2. UNION Range(await_targets) = UNION {Awaits(a) : a \in InGraph}
  BY <1>1 DEF Range
<1>3. \A o \in InGraph, a \in InGraph : o \in Awaits(a) <=> o \in Awaited(a)
  <2>1. Null \notin InGraph
    BY AwaitedFacts, ObjectsAssumption
  <2> QED
    BY <2>1, AwaitedFacts
<1>4. roots' = Roots
  BY <1>0, <1>1, <1>2, <1>3 DEF Roots
<1>5. Graph'
  BY <1>0, SameGraph DEF Graph
<1>6. TypeOK'
  BY <1>0, <1>4, RootsInGraph, AwaitedFacts DEF TypeOK
<1>7. Order'
  BY <1>0, <1>4, SameGraph DEF Order
<1>8. Printed' = {} /\ stack' = <<>> /\ \A r, x \in Objects : <<r, x>> \notin shown'
  BY <1>0, <1>4, SameGraph DEF Printed, Trees, Order
<1> QED
  BY <1>5, <1>6, <1>7, <1>8, Before

\* When nothing is being printed, the invariant does not depend on the tree.
LEMMA FinishTInv ==
  ASSUME TInv, Finish
  PROVE  TInv'
<1> USE DEF TInv
<1>0. /\ phase = "print" /\ phase' = "done" /\ stack = <<>> /\ roots = {}
      /\ UNCHANGED <<heap, visited, await_targets, roots, tree, seen, stack, shown, flagged>>
  BY DEF Finish, printVars
<1>1. Graph' /\ Order' /\ TypeOK'
  BY <1>0, SameGraph DEF Graph, Order, TypeOK
<1>2. Printed' = Printed
  BY <1>0, SameGraph DEF Printed
<1>3. Distinct' /\ Exploring' /\ NoCycleYet'
  BY <1>0, SameGraph DEF Distinct, Exploring, NoCycleYet
<1>4. \A r \in Objects : Ready(r)' = Ready(r) /\ Clean(r)' = Clean(r)
  BY <1>0, <1>2 DEF Ready, Clean
<1>5. Trees' /\ NoneMissed'
  BY <1>0, <1>2, <1>4, SameGraph DEF Trees, NoneMissed
<1> QED
  BY <1>1, <1>3, <1>5

LEMMA StutterTInv ==
  ASSUME TInv, UNCHANGED vars
  PROVE  TInv'
<1> USE DEF TInv
<1>0. UNCHANGED <<heap, phase, visited, await_targets, roots, tree, seen, stack, shown, flagged>>
  BY DEF vars, printVars
<1>1. Graph' /\ Order' /\ TypeOK'
  BY <1>0, SameGraph DEF Graph, Order, TypeOK
<1>2. Printed' = Printed /\ Through' = Through
  BY <1>0, SameGraph DEF Printed, Through, OnStack
<1>3. \A r \in Objects : Ready(r)' = Ready(r) /\ Clean(r)' = Clean(r)
  BY <1>0, <1>2 DEF Ready, Clean
<1>4. Distinct' /\ Trees' /\ NoneMissed'
  BY <1>0, <1>2, <1>3, SameGraph DEF Distinct, Trees, NoneMissed
<1>5. Exploring'
  <2>1. \A o, x : ToCome(o, x)' = ToCome(o, x)
    BY <1>0 DEF ToCome
  <2> QED
    BY <1>0, <1>2, <2>1, SameGraph DEF Exploring
<1>6. NoCycleYet'
  BY <1>0, <1>2, SameGraph DEF NoCycleYet, Clean
<1> QED
  BY <1>1, <1>4, <1>5, <1>6

----------------------------------------------------------------------------
(* Starting with a root. *)

LEMMA PrintRootTInv ==
  ASSUME TInv, PrintRoot
  PROVE  TInv'
<1> USE DEF TInv
<1>0. phase = "print" /\ stack = <<>> /\ UNCHANGED <<heap, phase, visited, await_targets>>
  BY DEF PrintRoot
<1>1. PICK r \in roots : /\ roots' = roots \ {r}
                         /\ tree' = r
                         /\ Enter(r, r, {}, <<>>)
  BY DEF PrintRoot
<1>2. r \in Roots /\ r \in InGraph /\ r \in Objects /\ r \in DOMAIN await_targets
      /\ await_targets[r] = Awaits(r)
  BY <1>0, RootsInGraph, AwaitedFacts DEF Order, Graph
<1> DEFINE f == [addr |-> r, left |-> Awaits(r)]
<1>3. f \in Frame /\ f.addr = r /\ f.left = Awaits(r)
  BY <1>2, AwaitedFacts DEF Frame
<1>4. /\ seen' = {r}
      /\ shown' = shown \cup {<<r, r>>}
      /\ flagged' = flagged
      /\ stack' = Append(<<>>, f)
  BY <1>1, <1>2 DEF Enter
<1> HIDE DEF f
<1>5. /\ stack' \in Seq(Frame) /\ Len(stack') = 1 /\ DOMAIN stack' = {1} /\ stack' # <<>>
      /\ stack'[1] = f
  <2>1. <<>> \in Seq(Frame) /\ Len(<<>>) = 0
    OBVIOUS
  <2>2. 1 .. (0 + 1) = {1}
    OBVIOUS
  <2> QED
    BY <1>3, <1>4, <2>1, <2>2, AppendFacts
<1>6. Graph'
  BY <1>0, SameGraph DEF Graph
<1>7. Order'
  BY <1>0, <1>1, SameGraph DEF Order
<1>8. Printed' = Printed \cup {r} /\ r \notin Printed
  BY <1>0, <1>1, <1>2, SameGraph DEF Printed
<1>9. Distinct'
  BY <1>2, <1>3, <1>4, <1>5, <1>0, SameGraph DEF Distinct
<1>10. TypeOK'
  <2>1. Len(stack') <= Cardinality(Objects)
    <3>1. \A i, j \in DOMAIN stack' : stack'[i].addr = stack'[j].addr => i = j
      BY <1>9 DEF Distinct
    <3> QED
      BY <1>5, <3>1, Shallow
  <2>2. \A i \in DOMAIN stack' : /\ stack'[i].addr \in seen'
                                 /\ stack'[i].left \subseteq await_targets'[stack'[i].addr]
    BY <1>0, <1>2, <1>3, <1>4, <1>5
  <2>3. stack' \in Seq([addr : Objects, left : SUBSET (Objects \cup {Null})])
    BY <1>5 DEF Frame
  <2>4. shown' \cup flagged' \subseteq Objects \X Objects /\ seen' \subseteq Objects
    BY <1>2, <1>4 DEF TypeOK
  <2> QED
    BY <1>0, <1>1, <1>2, <2>1, <2>2, <2>3, <2>4 DEF TypeOK
<1>11. Exploring'
  <2>1. \A x \in Awaited(r) : ToCome(r, x)'
    BY <1>2, <1>3, <1>5, AwaitedFacts DEF ToCome
  <2>2. {r} \subseteq Reach({r})
    BY <1>2, ReachHas
  <2> QED
    BY <1>0, <1>1, <1>4, <1>8, <2>1, <2>2, SameGraph DEF Exploring
<1>12. \A q \in Objects : Ready(q)' = Ready(q)
  BY <1>0, <1>1, <1>5, <1>8 DEF Ready
<1>13. Trees'
  <2>1. \A q, o \in Objects : Ready(q)' => (<<q, o>> \in shown' <=> o \in Reach({q})')
    <3>1. ~Ready(r)
      BY <1>8 DEF Ready
    <3> QED
      BY <1>0, <1>4, <1>12, <3>1, SameGraph DEF Trees
  <2>2. \A o \in Objects : <<tree', o>> \in shown' <=> o \in seen'
    BY <1>1, <1>2, <1>4, <1>8 DEF Trees
  <2>3. \A q, o \in Objects : q \notin Printed' => <<q, o>> \notin shown'
    BY <1>4, <1>8 DEF Trees
  <2> QED
    BY <2>1, <2>2, <2>3 DEF Trees
<1>14. NoCycleYet'
  <2>1. Through' = {}
    <3>1. stack'[1].addr = r /\ stack'[1].left = Awaits(r)
      BY <1>3, <1>5
    <3>2. r \in OnStack'
      BY <1>5, <3>1 DEF OnStack
    <3> QED
      BY <1>4, <3>2 DEF Through
  <2>2. \A i \in DOMAIN stack' : \A x \in Awaited(stack[i].addr)' : x \in stack'[i].left
    <3>1. stack'[1].addr = r /\ stack'[1].left = Awaits(r)
      BY <1>3, <1>5
    <3>2. Awaited(r)' \subseteq Awaits(r)
      BY <1>0, <1>2, SameGraph, AwaitedFacts
    <3>3. Awaited(stack[1].addr)' = Awaited(r)'
      BY <3>1 DEF Awaited
    <3> QED
      BY <1>5, <3>1, <3>2, <3>3
  <2> QED
    BY <2>1, <2>2 DEF NoCycleYet
<1>15. NoneMissed'
  BY <1>0, <1>4, <1>12, SameGraph DEF NoneMissed, Clean
<1> QED
  BY <1>6, <1>7, <1>9, <1>10, <1>11, <1>13, <1>14, <1>15

----------------------------------------------------------------------------
(* One turn of the loop. *)

\* A loop that takes x has x no more to come; anything else it has.
LEMMA PrintNextCases ==
  ASSUME TInv, PrintNext
  PROVE  /\ phase = "print" /\ stack # <<>>
         /\ UNCHANGED <<heap, phase, visited, await_targets, roots, tree>>
         /\ \E x \in Objects \cup {Null} :
              /\ x \in stack[Len(stack)].left
              /\ x = Null \/ x \in Awaited(stack[Len(stack)].addr)
              /\ x \in Objects => x \in Reach({tree})
              /\ \/ x = Null /\ stack' = Take(x) /\ UNCHANGED <<seen, shown, flagged>>
                 \/ /\ x \in Objects /\ x \in seen
                    /\ stack' = Take(x)
                    /\ flagged' = flagged \cup {<<tree, x>>} /\ UNCHANGED <<seen, shown>>
                 \/ /\ x \in Objects /\ x \notin seen
                    /\ seen' = seen \cup {x}
                    /\ shown' = shown \cup {<<tree, x>>} /\ UNCHANGED flagged
                    /\ stack' = IF x \in InGraph
                                THEN Append(Take(x), [addr |-> x, left |-> Awaits(x)])
                                ELSE Take(x)
<1> USE DEF TInv
<1>1. /\ phase = "print" /\ stack # <<>>
      /\ UNCHANGED <<heap, phase, visited, await_targets, roots, tree>>
  BY DEF PrintNext
<1>2. PICK x \in Top.left :
        IF x = Null
        THEN stack' = Take(x) /\ UNCHANGED <<seen, shown, flagged>>
        ELSE Enter(x, tree, seen, Take(x))
  BY DEF PrintNext, Take
<1> DEFINE o == stack[Len(stack)].addr
<1>3. Len(stack) \in DOMAIN stack /\ o \in seen /\ o \in InGraph
      /\ stack[Len(stack)].left \subseteq Awaits(o)
  BY <1>1, StackFacts DEF Distinct
<1>4. x \in Objects \cup {Null} /\ x \in stack[Len(stack)].left /\ o \in Objects /\ x \in Awaits(o)
  BY <1>2, <1>3, AwaitedFacts DEF Top
<1>5. x = Null \/ x \in Awaited(o)
  BY <1>4, AwaitedFacts
<1>6. ASSUME x \in Objects PROVE x \in Reach({tree})
  <2>1. x \in Awaited(o)
    BY <1>5, <1>6, ObjectsAssumption
  <2>2. o \in Reach({tree})
    BY <1>1, <1>3 DEF Exploring
  <2> QED
    BY <2>1, <2>2, ReachClosed DEF Closed
<1>7. DOMAIN await_targets = InGraph /\ \A a \in InGraph : await_targets[a] = Awaits(a)
  BY <1>1 DEF Graph
<1>8. CASE x = Null
  BY <1>1, <1>2, <1>4, <1>5, <1>6, <1>8
<1>9. CASE x \in seen /\ x \in Objects
  <2>1. x # Null /\ seen \cup {x} = seen
    BY <1>9, ObjectsAssumption
  <2> QED
    BY <1>1, <1>2, <1>4, <1>5, <1>6, <1>9, <2>1 DEF Enter
<1>10. CASE x \notin seen /\ x \in Objects
  <2>1. x # Null
    BY <1>10, ObjectsAssumption
  <2> QED
    BY <1>1, <1>2, <1>4, <1>5, <1>6, <1>7, <1>10, <2>1 DEF Enter
<1> QED
  BY <1>4, <1>8, <1>9, <1>10

LEMMA PrintNextTInv ==
  ASSUME TInv, PrintNext
  PROVE  TInv'
<1> USE DEF TInv
<1> DEFINE n == Len(stack)
<1>0. /\ phase = "print" /\ stack # <<>>
      /\ UNCHANGED <<heap, phase, visited, await_targets, roots, tree>>
  BY PrintNextCases
<1>1. PICK x \in Objects \cup {Null} :
        /\ x \in stack[n].left
        /\ x = Null \/ x \in Awaited(stack[n].addr)
        /\ x \in Objects => x \in Reach({tree})
        /\ \/ x = Null /\ stack' = Take(x) /\ UNCHANGED <<seen, shown, flagged>>
           \/ /\ x \in Objects /\ x \in seen
              /\ stack' = Take(x)
              /\ flagged' = flagged \cup {<<tree, x>>} /\ UNCHANGED <<seen, shown>>
           \/ /\ x \in Objects /\ x \notin seen
              /\ seen' = seen \cup {x}
              /\ shown' = shown \cup {<<tree, x>>} /\ UNCHANGED flagged
              /\ stack' = IF x \in InGraph
                          THEN Append(Take(x), [addr |-> x, left |-> Awaits(x)])
                          ELSE Take(x)
  BY PrintNextCases
<1> DEFINE f == [addr |-> x, left |-> Awaits(x)]
           Push == x \in InGraph /\ x \notin seen
<1>2. InGraph \subseteq Objects /\ Null \notin Objects /\ tree \in Objects
      /\ tree \in Printed /\ seen \subseteq Objects
  BY <1>0, AwaitedFacts, RootsInGraph, ObjectsAssumption DEF Exploring, Printed, TypeOK
\* The new stack: the old one without x, and perhaps the loop of x.
<1>3. /\ Take(x) \in Seq(Frame) /\ Len(Take(x)) = n /\ DOMAIN Take(x) = DOMAIN stack
      /\ n \in Nat /\ n \in DOMAIN stack /\ DOMAIN stack = 1 .. n
      /\ \A i \in DOMAIN stack :
           /\ Take(x)[i].addr = stack[i].addr
           /\ Take(x)[i].left = IF i = n THEN stack[i].left \ {x} ELSE stack[i].left
  BY <1>0, TakeFacts, StackFacts
<1>4. /\ Push => stack' = Append(Take(x), f)
      /\ ~Push => stack' = Take(x)
  BY <1>1, <1>2
<1>5. f.addr = x /\ f.left = Awaits(x) /\ (Push => f \in Frame)
  BY <1>2, AwaitedFacts DEF Frame
<1> HIDE DEF f
<1>6. /\ stack' \in Seq(Frame) /\ stack' # <<>>
      /\ \A i \in DOMAIN stack :
           /\ i \in DOMAIN stack'
           /\ stack'[i].addr = stack[i].addr
           /\ stack'[i].left = IF i = n THEN stack[i].left \ {x} ELSE stack[i].left
      /\ Push => /\ Len(stack') = n + 1 /\ DOMAIN stack' = 1 .. (n + 1)
                 /\ n + 1 \in DOMAIN stack' /\ stack'[n + 1] = f
      /\ ~Push => Len(stack') = n /\ DOMAIN stack' = DOMAIN stack
  <2>1. CASE Push
    <3>1. n + 1 \in 1 .. (n + 1) /\ \A i \in DOMAIN stack : i \in 1 .. (n + 1)
      BY <1>3
    <3>2. /\ Append(Take(x), f) \in Seq(Frame)
          /\ Len(Append(Take(x), f)) = n + 1
          /\ DOMAIN Append(Take(x), f) = 1 .. (n + 1)
          /\ \A i \in DOMAIN stack : Append(Take(x), f)[i] = Take(x)[i]
          /\ Append(Take(x), f)[n + 1] = f
          /\ Append(Take(x), f) # <<>>
      BY <1>3, <1>5, <2>1, AppendFacts
    <3> QED
      BY <1>3, <1>4, <2>1, <3>1, <3>2
  <2>2. CASE ~Push
    <3>1. Take(x) # <<>>
      BY <1>3
    <3> QED
      BY <1>3, <1>4, <2>2, <3>1
  <2> QED
    BY <2>1, <2>2
<1>7. \A i \in DOMAIN stack' : i \in DOMAIN stack \/ (Push /\ i = n + 1 /\ i \notin DOMAIN stack)
  <2>1. \A k \in Nat : \A i \in 1 .. (k + 1) : i \in 1 .. k \/ (i = k + 1 /\ i \notin 1 .. k)
    OBVIOUS
  <2> QED
    BY <1>3, <1>6, <2>1
\* What the tree has.
<1>8. /\ seen' \subseteq Objects /\ seen \subseteq seen'
      /\ seen' \subseteq seen \cup {x}
      /\ x \in Objects => x \in seen'
      /\ \A q, o \in Objects : <<q, o>> \in shown' <=> <<q, o>> \in shown \/ (q = tree /\ o \in seen')
  <2>1. \A o \in Objects : <<tree, o>> \in shown <=> o \in seen
    BY <1>0 DEF Trees
  <2>2. /\ seen' \subseteq Objects /\ seen \subseteq seen' /\ seen' \subseteq seen \cup {x}
        /\ x \in Objects => x \in seen'
    BY <1>1, <1>2
  <2>3. ASSUME NEW q \in Objects, NEW o \in Objects
        PROVE  <<q, o>> \in shown' <=> <<q, o>> \in shown \/ (q = tree /\ o \in seen')
    <3>1. \/ shown' = shown /\ seen' = seen
          \/ shown' = shown \cup {<<tree, x>>} /\ seen' = seen \cup {x}
      BY <1>1
    <3>2. q = tree => (<<q, o>> \in shown <=> o \in seen)
      BY <2>1
    <3>3. <<q, o>> = <<tree, x>> <=> q = tree /\ o = x
      OBVIOUS
    <3> QED
      BY <3>1, <3>2, <3>3
  <2> QED
    BY <2>2, <2>3
<1>9. Graph' /\ Order'
  BY <1>0, SameGraph DEF Graph, Order
<1>10. Printed' = Printed
  BY <1>0, SameGraph DEF Printed
<1>11. Distinct'
  <2>1. \A i \in DOMAIN stack' : stack'[i].addr \in seen' \cap InGraph
    BY <1>1, <1>5, <1>6, <1>7, <1>8, <1>2 DEF Distinct
  <2>2. \A i \in DOMAIN stack' : stack'[i].left \subseteq Awaits(stack'[i].addr)
    <3>1. ASSUME NEW i \in DOMAIN stack
          PROVE  stack'[i].left \subseteq Awaits(stack'[i].addr)
      <4>1. /\ stack'[i].addr = stack[i].addr
            /\ stack'[i].left \subseteq stack[i].left
            /\ stack[i].left \subseteq Awaits(stack[i].addr)
        BY <1>6 DEF Distinct
      <4> QED
        BY <4>1
    <3>2. ASSUME Push
          PROVE  stack'[n + 1].left \subseteq Awaits(stack'[n + 1].addr)
      BY <1>5, <1>6, <3>2
    <3> QED
      BY <1>7, <3>1, <3>2
  <2>3. \A i, j \in DOMAIN stack' : stack'[i].addr = stack'[j].addr => i = j
    <3>1. \A i, j \in DOMAIN stack : stack'[i].addr = stack'[j].addr => i = j
      BY <1>6 DEF Distinct
    <3>2. \A i \in DOMAIN stack : stack'[i].addr \in seen
      BY <1>6 DEF Distinct
    <3> QED
      BY <1>5, <1>6, <1>7, <3>1, <3>2
  <2>4. \A i \in DOMAIN stack' : Awaits(stack[i].addr)' = Awaits(stack'[i].addr)
    BY <1>0 DEF Awaits
  <2>5. InGraph' = InGraph
    BY <1>0, SameGraph
  <2> QED
    BY <2>1, <2>2, <2>3, <2>4, <2>5 DEF Distinct
<1>12. TypeOK'
  <2>1. Len(stack') <= Cardinality(Objects)
    <3>1. \A i, j \in DOMAIN stack' : stack'[i].addr = stack'[j].addr => i = j
      BY <1>11 DEF Distinct
    <3> QED
      BY <1>6, <3>1, Shallow
  <2>2. stack' \in Seq([addr : Objects, left : SUBSET (Objects \cup {Null})])
    BY <1>6 DEF Frame
  <2>3. \A i \in DOMAIN stack' : /\ stack'[i].addr \in seen'
                                 /\ stack'[i].left \subseteq await_targets'[stack'[i].addr]
    <3>1. DOMAIN await_targets = InGraph /\ \A a \in InGraph : await_targets[a] = Awaits(a)
      BY <1>0 DEF Graph
    <3>2. \A i \in DOMAIN stack' : /\ stack'[i].addr \in seen' /\ stack'[i].addr \in InGraph
                                   /\ stack'[i].left \subseteq Awaits(stack[i].addr)'
      BY <1>0, <1>11, SameGraph DEF Distinct
    <3>3. \A i \in DOMAIN stack' : Awaits(stack[i].addr)' = Awaits(stack'[i].addr)
      BY <1>0 DEF Awaits
    <3> QED
      BY <1>0, <3>1, <3>2, <3>3
  <2>4. shown' \cup flagged' \subseteq Objects \X Objects
    BY <1>1, <1>2 DEF TypeOK
  <2> QED
    BY <1>0, <1>8, <2>1, <2>2, <2>3, <2>4 DEF TypeOK
<1>13. Exploring'
  <2>1. \A o \in seen' : \A y \in Awaited(o) : y \in seen' \/ ToCome(o, y)'
    <3> SUFFICES ASSUME NEW o \in seen', NEW y \in Awaited(o), y \notin seen'
                 PROVE  \E i \in DOMAIN stack' : stack'[i].addr = o /\ y \in stack'[i].left
      BY DEF ToCome
    <3>1. o \in Objects /\ y \in Objects /\ y # x
      BY <1>8, AwaitedFacts
    <3>2. CASE o \in seen
      <4>1. PICK i \in DOMAIN stack : stack[i].addr = o /\ y \in stack[i].left
        BY <1>0, <1>8, <3>2 DEF Exploring, ToCome
      <4> QED
        BY <1>6, <3>1, <4>1
    <3>3. CASE o \notin seen
      <4>1. o = x
        BY <1>8, <3>3
      <4>2. Push
        BY <3>1, <3>3, <4>1, AwaitedFacts
      <4>3. y \in Awaits(x)
        BY <3>1, <4>1, AwaitedFacts
      <4> QED
        BY <1>5, <1>6, <4>1, <4>2, <4>3
    <3> QED
      BY <3>2, <3>3
  <2>2. seen' \subseteq Reach({tree})
    BY <1>0, <1>1, <1>8 DEF Exploring
  <2>3. tree \in seen'
    BY <1>0, <1>8 DEF Exploring
  <2> QED
    BY <1>0, <1>2, <1>10, <2>1, <2>2, <2>3, SameGraph DEF Exploring
<1>14. \A q \in Objects : Ready(q)' = Ready(q)
  BY <1>0, <1>6, <1>10 DEF Ready
<1>15. Trees'
  <2>1. ~Ready(tree)
    BY <1>0 DEF Ready
  <2>2. \A q, o \in Objects : Ready(q)' => (<<q, o>> \in shown' <=> o \in Reach({q})')
    <3> SUFFICES ASSUME NEW q \in Objects, NEW o \in Objects, Ready(q)'
                 PROVE  <<q, o>> \in shown' <=> o \in Reach({q})'
      OBVIOUS
    <3>1. Ready(q) /\ q # tree
      BY <1>14, <2>1
    <3>2. <<q, o>> \in shown' <=> <<q, o>> \in shown
      <4>1. <<q, o>> \in shown' <=> <<q, o>> \in shown \/ (q = tree /\ o \in seen')
        BY <1>8
      <4> QED
        BY <3>1, <4>1
    <3>3. Reach({q})' = Reach({q})
      BY <1>0, SameGraph
    <3> QED
      BY <3>1, <3>2, <3>3 DEF Trees
  <2>3. \A o \in Objects : <<tree', o>> \in shown' <=> o \in seen'
    BY <1>0, <1>2, <1>8 DEF Trees
  <2>4. \A q, o \in Objects : q \notin Printed' => <<q, o>> \notin shown'
    BY <1>2, <1>8, <1>10 DEF Trees
  <2> QED
    BY <2>2, <2>3, <2>4 DEF Trees
<1>16. \A q \in Objects : Clean(q)' => Clean(q)
  BY <1>1 DEF Clean
<1>17. NoneMissed'
  BY <1>0, <1>14, <1>16, SameGraph DEF NoneMissed
\* If nothing has been printed as <!seen>, x is null or new in the tree.
<1>18. NoCycleYet'
  <2> SUFFICES ASSUME Clean(tree)'
               PROVE  /\ \A o \in Through' : Awaited(o)' \subseteq Through' /\ ~Deadlocked(o)'
                      /\ \A i \in DOMAIN stack' : \A y \in Awaited(stack[i].addr)' :
                           \/ y \in stack'[i].left
                           \/ y \in Through'
                           \/ i < Len(stack') /\ y = stack'[i + 1].addr
    BY DEF NoCycleYet
  <2>1. Clean(tree) /\ (x = Null \/ (x \in Objects /\ x \notin seen))
    <3>1. \A o \in Objects : <<tree, o>> \notin flagged'
      BY <1>0 DEF Clean
    <3> QED
      BY <1>1, <1>2, <1>16, <3>1, <1>0 DEF Clean
  <2>2. x \notin seen
    BY <1>2, <2>1
  <2>3. /\ \A o \in Through : Awaited(o) \subseteq Through /\ ~Deadlocked(o)
        /\ \A i \in DOMAIN stack : \A y \in Awaited(stack[i].addr) :
             \/ y \in stack[i].left
             \/ y \in Through
             \/ i < n /\ y = stack[i + 1].addr
    BY <1>0, <2>1 DEF NoCycleYet
  <2>4. OnStack \subseteq OnStack'
    BY <1>6 DEF OnStack
  <2>5. OnStack' \subseteq OnStack \cup {x} /\ (Push => x \in OnStack')
    <3>1. \A i \in DOMAIN stack' : stack'[i].addr \in OnStack \cup {x}
      BY <1>5, <1>6, <1>7 DEF OnStack
    <3>2. ASSUME Push PROVE x \in OnStack'
      <4>1. n + 1 \in DOMAIN stack' /\ stack'[n + 1].addr = x
        BY <1>5, <1>6, <3>2
      <4> QED
        BY <4>1 DEF OnStack
    <3> QED
      BY <3>1, <3>2 DEF OnStack
  <2>6. ASSUME ~Push PROVE OnStack' = OnStack
    BY <1>6, <2>6 DEF OnStack
  <2>7. Through' = IF x \in Objects /\ x \notin InGraph THEN Through \cup {x} ELSE Through
    <3>1. OnStack \subseteq seen
      BY DEF OnStack, Distinct
    <3>2. CASE x = Null
      BY <1>1, <1>2, <2>6, <3>2 DEF Through
    <3>3. CASE Push
      <4>1. seen' = seen \cup {x}
        BY <1>1, <1>2, <2>2, <3>3
      <4> QED
        BY <2>4, <2>5, <3>1, <3>3, <4>1 DEF Through
    <3>4. CASE x \in Objects /\ x \notin InGraph
      <4>1. seen' = seen \cup {x}
        BY <1>1, <1>2, <2>2, <3>4
      <4> QED
        BY <2>2, <2>6, <3>1, <3>4, <4>1 DEF Through
    <3> QED
      BY <2>1, <2>2, <3>2, <3>3, <3>4
  <2>8. \A o \in Through' : Awaited(o) \subseteq Through' /\ ~Deadlocked(o)
    <3>1. ASSUME x \in Objects, x \notin InGraph PROVE Awaited(x) = {} /\ ~Deadlocked(x)
      <4>1. Awaited(x) = {}
        BY <3>1, AwaitedFacts
      <4>2. Closed({})
        BY DEF Closed
      <4> QED
        BY <4>1, <4>2, NotDeadlocked
    <3> QED
      BY <2>3, <2>7, <3>1
  <2>9. \A i \in DOMAIN stack' : \A y \in Awaited(stack'[i].addr) :
          \/ y \in stack'[i].left
          \/ y \in Through'
          \/ i < Len(stack') /\ y = stack'[i + 1].addr
    <3> SUFFICES ASSUME NEW i \in DOMAIN stack', NEW y \in Awaited(stack'[i].addr),
                        y \notin stack'[i].left, y \notin Through'
                 PROVE  i < Len(stack') /\ y = stack'[i + 1].addr
      OBVIOUS
    <3>1. y \in Objects
      <4>1. stack'[i].addr \in Objects
        BY <1>8, <1>11 DEF Distinct
      <4> QED
        BY <4>1, AwaitedFacts
    <3>2. i \in DOMAIN stack
      <4>1. ASSUME Push, i = n + 1 PROVE FALSE
        <5>1. y \in Awaited(x) /\ y \notin Awaits(x)
          BY <1>5, <1>6, <4>1
        <5> QED
          BY <4>1, <5>1, <1>2, AwaitedFacts
      <4> QED
        BY <1>7, <4>1
    <3>3. stack'[i].addr = stack[i].addr /\ y \in Awaited(stack[i].addr)
      BY <1>6, <3>2
    <3>4. y \notin Through
      BY <2>7
    <3>5. CASE y \in stack[i].left
      <4>1. i = n /\ y = x
        BY <1>6, <3>2, <3>5
      <4>2. Push
        BY <2>2, <2>7, <3>1, <4>1
      <4>3. stack'[n + 1].addr = x /\ Len(stack') = n + 1
        BY <1>5, <1>6, <4>2
      <4>4. n < n + 1
        BY <1>3
      <4> QED
        BY <4>1, <4>3, <4>4
    <3>6. CASE i < n /\ y = stack[i + 1].addr
      <4>1. i + 1 \in DOMAIN stack
        BY <1>3, <3>2, <3>6
      <4>2. stack'[i + 1].addr = stack[i + 1].addr
        BY <1>6, <4>1
      <4>3. Len(stack') \in {n, n + 1}
        BY <1>6
      <4>4. i \in Int /\ n \in Int
        BY <1>3, <3>2
      <4>5. i < Len(stack')
        BY <3>6, <4>3, <4>4
      <4> QED
        BY <3>6, <4>2, <4>5
    <3> QED
      BY <2>3, <3>2, <3>3, <3>4, <3>5, <3>6
  <2>10. \A i \in DOMAIN stack' : Awaited(stack[i].addr)' = Awaited(stack'[i].addr)
    BY <1>0 DEF Awaited
  <2> QED
    BY <1>0, <2>8, <2>9, <2>10, SameGraph
<1> QED
  BY <1>9, <1>11, <1>12, <1>13, <1>15, <1>17, <1>18

----------------------------------------------------------------------------
(* The end of a loop. *)

LEMMA ReturnTInv ==
  ASSUME TInv, Return
  PROVE  TInv'
<1> USE DEF TInv
<1> DEFINE n == Len(stack)
           o == stack[n].addr
<1>0. /\ phase = "print" /\ stack # <<>> /\ stack[n].left = {}
      /\ stack' = SubSeq(stack, 1, n - 1)
      /\ UNCHANGED <<heap, phase, visited, await_targets, roots, tree, seen, shown, flagged>>
  BY DEF Return, Top
<1>1. /\ n \in Nat /\ n \in DOMAIN stack /\ DOMAIN stack = 1 .. n /\ n # 0
      /\ o \in seen /\ o \in Objects /\ seen \subseteq Objects /\ tree \in Objects
  BY <1>0, StackFacts, RootsInGraph, AwaitedFacts DEF Distinct, Exploring, Printed, TypeOK
<1>2. /\ stack' \in Seq(Frame) /\ Len(stack') = n - 1
      /\ DOMAIN stack' = 1 .. (n - 1)
      /\ \A i \in DOMAIN stack' : stack'[i] = stack[i]
  BY <1>0, PopFacts
<1>3. /\ \A i \in DOMAIN stack : i \in DOMAIN stack' \/ i = n
      /\ \A i \in DOMAIN stack' : i \in DOMAIN stack /\ i # n
      /\ stack' = <<>> <=> n = 1
  <2>1. \A k \in Nat : /\ \A i \in 1 .. k : i \in 1 .. (k - 1) \/ i = k
                       /\ \A i \in 1 .. (k - 1) : i \in 1 .. k /\ i # k
    OBVIOUS
  <2>2. Len(stack') = 0 <=> stack' = <<>>
    BY <1>2
  <2>3. n - 1 = 0 <=> n = 1
    BY <1>1
  <2> QED
    BY <1>1, <1>2, <2>1, <2>2, <2>3
<1>4. Graph' /\ Order'
  BY <1>0, SameGraph DEF Graph, Order
<1>5. Printed' = Printed
  BY <1>0, SameGraph DEF Printed
<1>6. Distinct'
  <2>1. \A i \in DOMAIN stack' : Awaits(stack[i].addr)' = Awaits(stack[i].addr)
    BY <1>0, <1>2 DEF Awaits
  <2>2. InGraph' = InGraph
    BY <1>0, SameGraph
  <2> QED
    BY <1>0, <1>2, <1>3, <2>1, <2>2 DEF Distinct
<1>7. TypeOK'
  <2>1. Len(stack') <= Cardinality(Objects)
    <3>1. \A i, j \in DOMAIN stack' : stack'[i].addr = stack'[j].addr => i = j
      BY <1>6 DEF Distinct
    <3> QED
      BY <1>2, <3>1, Shallow
  <2>2. stack' \in Seq([addr : Objects, left : SUBSET (Objects \cup {Null})])
    BY <1>2 DEF Frame
  <2>3. \A i \in DOMAIN stack' : /\ stack'[i].addr \in seen'
                                 /\ stack'[i].left \subseteq await_targets'[stack'[i].addr]
    BY <1>0, <1>2, <1>3 DEF TypeOK
  <2> QED
    BY <1>0, <2>1, <2>2, <2>3 DEF TypeOK
\* Nothing is still to come from the loop that is over.
<1>8. \A p \in seen : \A y \in Awaited(p) :
        y \in seen \/ \E i \in DOMAIN stack' : stack'[i].addr = p /\ y \in stack'[i].left
  <2> SUFFICES ASSUME NEW p \in seen, NEW y \in Awaited(p), y \notin seen
               PROVE  \E i \in DOMAIN stack' : stack'[i].addr = p /\ y \in stack'[i].left
    OBVIOUS
  <2>1. PICK i \in DOMAIN stack : stack[i].addr = p /\ y \in stack[i].left
    BY <1>0 DEF Exploring, ToCome
  <2>2. i \in DOMAIN stack'
    BY <1>0, <1>3, <2>1
  <2> QED
    BY <1>2, <2>1, <2>2
<1>9. Exploring'
  <2>1. \A p \in seen' : \A y \in Awaited(p)' : y \in seen' \/ ToCome(p, y)'
    BY <1>0, <1>8, SameGraph DEF ToCome
  <2>2. tree \in Printed /\ tree \in seen /\ seen \subseteq Reach({tree})
    BY <1>0 DEF Exploring
  <2>3. seen' \subseteq Reach({tree})'
    BY <1>0, <2>2, SameGraph
  <2> QED
    BY <1>0, <1>5, <2>1, <2>2, <2>3 DEF Exploring
<1>10. n = 1 => seen = Reach({tree})
  <2> SUFFICES ASSUME n = 1 PROVE seen = Reach({tree})
    OBVIOUS
  <2>1. DOMAIN stack' = {}
    BY <1>3
  <2>2. Closed(seen)
    BY <1>8, <2>1 DEF Closed
  <2> QED
    BY <1>0, <1>1, <2>2, ReachLeast DEF Exploring
<1>11. \A q \in Objects : Ready(q)' <=> Ready(q) \/ (q = tree /\ n = 1)
  BY <1>0, <1>3, <1>5 DEF Ready, Exploring
<1>12. Trees'
  <2>1. \A p \in Objects : <<tree, p>> \in shown <=> p \in seen
    BY <1>0 DEF Trees
  <2>2. \A q, p \in Objects : Ready(q)' => (<<q, p>> \in shown' <=> p \in Reach({q})')
    <3> SUFFICES ASSUME NEW q \in Objects, NEW p \in Objects, Ready(q)'
                 PROVE  <<q, p>> \in shown <=> p \in Reach({q})
      BY <1>0, SameGraph
    <3>1. CASE Ready(q)
      BY <3>1 DEF Trees
    <3>2. CASE q = tree /\ n = 1
      BY <1>10, <2>1, <3>2
    <3> QED
      BY <1>11, <3>1, <3>2
  <2>3. \A p \in Objects : <<tree', p>> \in shown' <=> p \in seen'
    BY <1>0, <2>1
  <2>4. \A q, p \in Objects : q \notin Printed' => <<q, p>> \notin shown'
    BY <1>0, <1>5 DEF Trees
  <2> QED
    BY <2>2, <2>3, <2>4 DEF Trees
<1>13. \A q \in Objects : Clean(q)' = Clean(q)
  BY <1>0 DEF Clean
\* What the loop was for waits for what the search is through with.
<1>14. ASSUME Clean(tree)
       PROVE  /\ \A p \in Through : Awaited(p) \subseteq Through /\ ~Deadlocked(p)
              /\ Awaited(o) \subseteq Through
              /\ ~Deadlocked(o)
  <2>1. \A p \in Through : Awaited(p) \subseteq Through /\ ~Deadlocked(p)
    BY <1>0, <1>14 DEF NoCycleYet
  <2>2. \A y \in Awaited(o) : y \in stack[n].left \/ y \in Through \/ n < n
    BY <1>0, <1>1, <1>14 DEF NoCycleYet
  <2>3. ~(n < n)
    BY <1>1
  <2>4. Awaited(o) \subseteq Through
    BY <1>0, <2>2, <2>3
  <2>5. Closed(Through) /\ Through \subseteq Objects
    BY <1>1, <2>1 DEF Closed, Through
  <2>6. o \notin Through
    BY <1>1 DEF Through, OnStack
  <2> QED
    BY <2>1, <2>4, <2>5, <2>6, NotDeadlocked
<1>15. Through' = Through \cup {o}
  <2>1. OnStack = OnStack' \cup {o}
    BY <1>1, <1>2, <1>3 DEF OnStack
  <2>2. o \notin OnStack'
    BY <1>1, <1>2, <1>3 DEF OnStack, Distinct
  <2> QED
    BY <1>0, <1>1, <2>1, <2>2 DEF Through
<1>16. NoneMissed'
  <2> SUFFICES ASSUME NEW q \in Objects, Ready(q)', Clean(q), NEW p \in Reach({q})
               PROVE  ~Deadlocked(p)
    BY <1>0, <1>13, SameGraph DEF NoneMissed
  <2>1. CASE Ready(q)
    BY <2>1 DEF NoneMissed
  <2>2. CASE q = tree /\ n = 1
    <3>1. OnStack' = {}
      BY <1>3, <2>2 DEF OnStack
    <3>2. p \in Through'
      BY <1>0, <1>10, <2>2, <3>1 DEF Through
    <3> QED
      BY <1>14, <1>15, <2>2, <3>2
  <2> QED
    BY <1>11, <2>1, <2>2
<1>17. NoCycleYet'
  <2> SUFFICES ASSUME Clean(tree)
               PROVE  /\ \A p \in Through' : Awaited(p)' \subseteq Through' /\ ~Deadlocked(p)'
                      /\ \A i \in DOMAIN stack' : \A y \in Awaited(stack[i].addr)' :
                           \/ y \in stack'[i].left
                           \/ y \in Through'
                           \/ i < Len(stack') /\ y = stack'[i + 1].addr
    BY <1>0, <1>1, <1>13 DEF NoCycleYet
  <2>1. \A p \in Through' : Awaited(p) \subseteq Through' /\ ~Deadlocked(p)
    BY <1>14, <1>15
  <2>2. ASSUME NEW i \in DOMAIN stack', NEW y \in Awaited(stack[i].addr)
        PROVE  \/ y \in stack'[i].left
               \/ y \in Through'
               \/ i < Len(stack') /\ y = stack'[i + 1].addr
    <3>1. \/ y \in stack[i].left
          \/ y \in Through
          \/ i < n /\ y = stack[i + 1].addr
      BY <1>0, <1>3 DEF NoCycleYet
    <3>2. CASE i < n /\ y = stack[i + 1].addr
      <4>1. i \in Int
        BY <1>2
      <4>2. i + 1 = n \/ (i < n - 1 /\ i + 1 \in 1 .. (n - 1))
        <5>1. i \in 1 .. (n - 1)
          BY <1>2
        <5> QED
          BY <1>1, <5>1
      <4>3. CASE i + 1 = n
        BY <1>15, <3>2, <4>3
      <4>4. CASE i < n - 1 /\ i + 1 \in 1 .. (n - 1)
        BY <1>2, <3>2, <4>4
      <4> QED
        BY <4>2, <4>3, <4>4
    <3> QED
      BY <1>2, <1>15, <3>1, <3>2
  <2>3. \A i \in DOMAIN stack' : Awaited(stack[i].addr)' = Awaited(stack[i].addr)
    BY <1>0, <1>2 DEF Awaited
  <2> QED
    BY <1>0, <2>1, <2>2, <2>3, SameGraph
<1> QED
  BY <1>4, <1>6, <1>7, <1>9, <1>12, <1>16, <1>17

----------------------------------------------------------------------------
(* The theorems. *)

LEMMA NextTInv ==
  ASSUME TInv, [Next]_vars
  PROVE  TInv'
<1>1. ASSUME Collect PROVE TInv'
  BY <1>1, CollectTInv
<1>2. ASSUME ScanReturns PROVE TInv'
  BY <1>2, ScanReturnsTInv
<1>3. ASSUME FindRoots PROVE TInv'
  BY <1>3, FindRootsTInv
<1>4. ASSUME PrintRoot PROVE TInv'
  BY <1>4, PrintRootTInv
<1>5. ASSUME PrintNext PROVE TInv'
  BY <1>5, PrintNextTInv
<1>6. ASSUME Return PROVE TInv'
  BY <1>6, ReturnTInv
<1>7. ASSUME Finish PROVE TInv'
  BY <1>7, FinishTInv
<1>8. ASSUME UNCHANGED vars PROVE TInv'
  BY <1>8, StutterTInv
<1> QED
  BY <1>1, <1>2, <1>3, <1>4, <1>5, <1>6, <1>7, <1>8 DEF Next, Step, Over

LEMMA TInvariance == Spec => []TInv
<1>1. Init => TInv
  BY InitTInv
<1>2. TInv /\ [Next]_vars => TInv'
  BY NextTInv
<1> QED
  BY <1>1, <1>2, PTL DEF Spec

\* Every state of the command is well typed, for any number of objects: the
\* recursion of print_entry is no deeper than there are objects.
THEOREM TypeCorrect == Spec => []TypeOK
<1>1. TInv => TypeOK
  BY DEF TInv
<1> QED
  BY <1>1, TInvariance, PTL

\* Whatever graph the objects form, the printed trees are those of the roots, and
\* the tree of a root has exactly what the root waits for, directly or not.
THEOREM TreesAlwaysComplete == Spec => []TreesComplete
<1>1. TInv => TreesComplete
  <2> SUFFICES ASSUME TInv, phase = "done", NEW r \in Objects
               PROVE  {o \in Objects : <<r, o>> \in shown} =
                        IF r \in Roots THEN Reach({r}) ELSE {}
    BY DEF TreesComplete
  <2>1. roots = {} /\ stack = <<>> /\ Printed = Roots
    BY DEF TInv, Order, Printed
  <2>2. CASE r \in Roots
    <3>1. Ready(r)
      BY <2>1, <2>2 DEF Ready
    <3>2. \A o \in Objects : <<r, o>> \in shown <=> o \in Reach({r})
      BY <3>1 DEF TInv, Trees
    <3> QED
      BY <2>2, <3>2, ReachHas
  <2>3. CASE r \notin Roots
    BY <2>1, <2>3 DEF TInv, Trees
  <2> QED
    BY <2>2, <2>3
<1> QED
  BY <1>1, TInvariance, PTL

\* Whatever graph the objects form, an object that was found is in some tree unless
\* it lies behind a cycle that no root leads into (AnalysisShell.cc:726-735).
THEOREM OnlyBehindCyclesHidden == Spec => []HiddenOnlyBehindCycles
<1>1. TInv /\ TreesComplete => HiddenOnlyBehindCycles
  <2> SUFFICES ASSUME TInv, TreesComplete, phase = "done", NEW o \in InGraph,
                      \A r \in Objects : <<r, o>> \notin shown
               PROVE  \E d \in InGraph : /\ Deadlocked(d) /\ o \in Reach({d})
                                         /\ \A r \in Roots : d \notin Reach({r})
    BY DEF HiddenOnlyBehindCycles
  <2>1. TypeOK /\ InGraph \subseteq Objects
    BY AwaitedFacts DEF TInv
  <2>2. ASSUME NEW r \in Roots PROVE o \notin Reach({r})
    <3>1. r \in Objects /\ o \in Objects
      BY <2>1, RootsInGraph
    <3>2. {x \in Objects : <<r, x>> \in shown} = Reach({r})
      BY <3>1 DEF TreesComplete
    <3> QED
      BY <3>1, <3>2
  <2> QED
    BY <2>1, <2>2, BehindCycle
<1> QED
  BY <1>1, TInvariance, TreesAlwaysComplete, PTL

\* Whatever graph the objects form, and in whatever order it is walked, a tree
\* whose root waits for a deadlock has <!seen> in it.
THEOREM DeadlocksFlagged == Spec => []DeadlockFlagged
<1>1. TInv => DeadlockFlagged
  <2> SUFFICES ASSUME TInv, phase = "done", NEW r \in Roots,
                      NEW d \in Reach({r}), Deadlocked(d)
               PROVE  \E o \in Objects : <<r, o>> \in flagged
    BY DEF DeadlockFlagged
  <2>1. roots = {} /\ stack = <<>> /\ Printed = Roots
    BY DEF TInv, Order, Printed
  <2>2. r \in Objects /\ Ready(r)
    BY <2>1, RootsInGraph, AwaitedFacts DEF Ready, TInv
  <2>3. ~Clean(r)
    BY <2>2 DEF TInv, NoneMissed
  <2> QED
    BY <2>3 DEF Clean
<1> QED
  BY <1>1, TInvariance, PTL
=============================================================================
