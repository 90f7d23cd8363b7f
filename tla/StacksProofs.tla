---------------------------- MODULE StacksProofs ----------------------------
(***************************************************************************)
(* Proofs about Stacks, for any number of frames and any memory.           *)
(*                                                                         *)
(* A trace either is a chain of frames that differ, which ends, or runs    *)
(* into a set of frames that call each other, which it never leaves.       *)
(***************************************************************************)
EXTENDS Stacks, Functions, FiniteSetTheorems, TLAPS

(* The parts of the inductive invariant. *)

Address == Frames \cup {Null, Stray}

Types ==
  /\ heap \in [Frames -> Kinds]
  /\ include_runnable \in BOOLEAN
  /\ phase \in {"scan", "roots", "print", "done", "terminated"}
  /\ visited \subseteq Frames
  /\ num_non_runnable_frames \in Nat
  /\ addr \in Address
  /\ traces \in [DOMAIN traces -> Seq(Address)]

\* The frames that are valid and not asked for.
NotLive == {f \in Frames : heap[f].check = "ok"} \ Live

\* What the scan has recorded and counted.
Recorded ==
  phase # "terminated" =>
    /\ phase # "scan" => visited = Frames
    /\ DOMAIN back_for_frame = visited \cap Live
    /\ \A f \in DOMAIN back_for_frame : back_for_frame[f] = Caller(f)
    /\ num_non_runnable_frames = Cardinality(visited \cap NotLive)

\* The roots whose trace is printed, or being printed.
Started == IF phase \in {"scan", "roots", "terminated"} THEN {} ELSE Innermost \ roots

Order ==
  /\ roots \subseteq Innermost
  /\ phase # "print" => roots = {} /\ addr = Null
  /\ DOMAIN traces = Started
  /\ warned \subseteq Started
  /\ addr # Null => root \in Started /\ root \notin warned

\* The frames of t differ, the first is r, and each next called the one before.
Chain(r, t) ==
  /\ t # <<>> => t[1] = r
  /\ \A i, j \in DOMAIN t : t[i] = t[j] => i = j
  /\ \A i \in DOMAIN t : i < Len(t) => t[i] \in Live /\ t[i + 1] = Caller(t[i])

\* The trace of r is over.
Complete(r) ==
  LET t == traces[r]
  IN /\ t # <<>>
     /\ Chain(r, t)
     /\ IF r \in warned THEN t[Len(t)] \notin Live
                        ELSE t[Len(t)] \in Live /\ Caller(t[Len(t)]) = Null

\* The trace of r goes on at addr.
Partial(r) ==
  LET t == traces[r]
  IN /\ Chain(r, t)
     /\ \A i \in DOMAIN t : t[i] \in Live
     /\ addr = IF t = <<>> THEN r ELSE Caller(t[Len(t)])

\* The trace is among frames that call each other, and stays there.
Trapped == \E T \in SUBSET Live : addr \in T /\ \A f \in T : Caller(f) \in T

Tracing ==
  /\ addr # Null => Trapped \/ Partial(root)
  /\ \A r \in Started : addr = Null \/ r # root => Complete(r)

SInv == Types /\ Recorded /\ Order /\ Tracing

----------------------------------------------------------------------------
(* The memory. *)

LEMMA MemoryFacts ==
  ASSUME Types
  PROVE  /\ Live \subseteq Frames /\ Innermost \subseteq Live /\ NotLive \subseteq Frames
         /\ \A f \in Frames : Caller(f) \in Address
         /\ Null \notin Frames /\ Null \notin Live
         /\ IsFiniteSet(Frames) /\ IsFiniteSet(Live)
<1>1. Live \subseteq Frames /\ Innermost \subseteq Live /\ NotLive \subseteq Frames
  BY DEF Live, Innermost, NotLive
<1>2. Null \notin Frames /\ IsFiniteSet(Frames)
  BY FramesAssumption
<1>3. IsFiniteSet(Live)
  BY <1>1, <1>2, FS_Subset
<1>4. ASSUME NEW f \in Frames PROVE Caller(f) \in Address
  <2>1. heap[f] \in Kinds
    BY DEF Types
  <2> QED
    BY <2>1, KindsAssumption DEF Caller, Address
<1> QED
  BY <1>1, <1>2, <1>3, <1>4

\* As long as the memory and the request stay the same, so do the chains.
LEMMA SameMemory ==
  ASSUME UNCHANGED <<heap, include_runnable>>
  PROVE  /\ Live' = Live /\ Innermost' = Innermost /\ NotLive' = NotLive
         /\ \A f : Caller(f)' = Caller(f)
         /\ \A r, t : Chain(r, t)' = Chain(r, t)
<1>1. Live' = Live
  BY DEF Live
<1>2. \A f : Caller(f)' = Caller(f)
  BY DEF Caller
<1>3. Innermost' = Innermost /\ NotLive' = NotLive
  BY <1>1, <1>2 DEF Innermost, NotLive
<1>4. \A r, t : Chain(r, t)' = Chain(r, t)
  BY <1>1, <1>2 DEF Chain
<1> QED
  BY <1>1, <1>2, <1>3, <1>4

\* A trace that is over stays as it is.
LEMMA StillComplete ==
  ASSUME UNCHANGED <<heap, include_runnable>>, NEW r, Complete(r),
         traces'[r] = traces[r], r \in warned' <=> r \in warned
  PROVE  Complete(r)'
BY SameMemory DEF Complete

\* What the parts say of the next state, while the memory stays the same.
LEMMA CompleteNext ==
  ASSUME UNCHANGED <<heap, include_runnable>>, NEW r, NEW t, traces'[r] = t,
         t # <<>>, Chain(r, t),
         IF r \in warned' THEN t[Len(t)] \notin Live
                          ELSE t[Len(t)] \in Live /\ Caller(t[Len(t)]) = Null
  PROVE  Complete(r)'
BY SameMemory DEF Complete, Chain

LEMMA PartialNext ==
  ASSUME UNCHANGED <<heap, include_runnable>>, NEW r, NEW t, traces'[r] = t,
         Chain(r, t), \A i \in DOMAIN t : t[i] \in Live,
         addr' = IF t = <<>> THEN r ELSE Caller(t[Len(t)])
  PROVE  Partial(r)'
BY SameMemory DEF Partial, Chain

----------------------------------------------------------------------------
(* The scan. *)

LEMMA InitSInv ==
  Init => SInv
<1> SUFFICES ASSUME Init PROVE SInv
  OBVIOUS
<1> USE DEF Init
<1>1. DOMAIN traces = {} /\ DOMAIN back_for_frame = {}
  OBVIOUS
<1>2. Types
  BY <1>1 DEF Types, Address
<1>3. Recorded
  BY <1>1, FS_EmptySet DEF Recorded
<1>4. Started = {}
  BY DEF Started
<1> QED
  BY <1>1, <1>2, <1>3, <1>4 DEF SInv, Order, Tracing

\* Nothing has been printed before the roots are known.
LEMMA BeforePrinting ==
  ASSUME SInv, phase \in {"scan", "roots"}, phase' \in {"roots", "print", "scan", "terminated"},
         UNCHANGED <<heap, include_runnable, addr, root, traces, warned>>,
         roots' = IF phase' = "print" THEN Innermost ELSE {}
  PROVE  Order' /\ Tracing'
<1>1. addr' = Null /\ DOMAIN traces' = {} /\ warned' = {}
  BY DEF SInv, Order, Started
<1>2. Started' = {}
  BY SameMemory DEF Started
<1> QED
  BY <1>1, <1>2, SameMemory DEF Order, Tracing

LEMMA CollectCases ==
  ASSUME Types, Collect
  PROVE  /\ phase = "scan" /\ phase' = "scan"
         /\ UNCHANGED <<request, roots, printVars>>
         /\ \E f \in Frames \ visited :
              /\ visited' = visited \cup {f}
              /\ IF heap[f].check # "ok"
                 THEN UNCHANGED <<back_for_frame, num_non_runnable_frames>>
                 ELSE IF Wanted(f)
                 THEN Emplace(f) /\ UNCHANGED num_non_runnable_frames
                 ELSE /\ num_non_runnable_frames' = num_non_runnable_frames + 1
                      /\ UNCHANGED back_for_frame
<1>1. PICK f \in Frames \ visited : visited' = visited \cup {f}
  BY DEF Collect, Scan!AVisit
<1>2. visited' \ visited = {f}
  BY <1>1
<1>3. phase = "scan"
  BY DEF Collect, Scan!AVisit
<1> QED
  BY <1>1, <1>2, <1>3 DEF Collect

LEMMA CollectSInv ==
  ASSUME SInv, Collect
  PROVE  SInv'
<1> USE DEF SInv
<1>0. /\ phase = "scan" /\ phase' = "scan" /\ roots = {}
      /\ UNCHANGED <<heap, include_runnable, roots, root, addr, traces, warned>>
  BY CollectCases DEF request, printVars, Order
<1>1. PICK f \in Frames \ visited :
        /\ visited' = visited \cup {f}
        /\ IF heap[f].check # "ok"
           THEN UNCHANGED <<back_for_frame, num_non_runnable_frames>>
           ELSE IF Wanted(f)
           THEN Emplace(f) /\ UNCHANGED num_non_runnable_frames
           ELSE /\ num_non_runnable_frames' = num_non_runnable_frames + 1
                /\ UNCHANGED back_for_frame
  BY CollectCases
<1>2. /\ DOMAIN back_for_frame = visited \cap Live
      /\ \A g \in DOMAIN back_for_frame : back_for_frame[g] = Caller(g)
      /\ num_non_runnable_frames = Cardinality(visited \cap NotLive)
  BY <1>0 DEF Recorded
<1>3. f \in Live <=> heap[f].check = "ok" /\ Wanted(f)
  BY DEF Live, Wanted, Types
<1>4. f \in NotLive <=> heap[f].check = "ok" /\ ~Wanted(f)
  BY <1>3 DEF NotLive
<1>5. /\ DOMAIN back_for_frame' = visited' \cap Live
      /\ \A g \in DOMAIN back_for_frame' : back_for_frame'[g] = Caller(g)
  <2>1. CASE f \in Live
    <3>1. back_for_frame' = [g \in DOMAIN back_for_frame \cup {f} |->
                               IF g = f THEN heap[f].back ELSE back_for_frame[g]]
      BY <1>1, <1>3, <2>1 DEF Emplace
    <3>2. DOMAIN back_for_frame' = DOMAIN back_for_frame \cup {f}
      BY <3>1
    <3>3. visited' \cap Live = (visited \cap Live) \cup {f}
      BY <1>1, <2>1
    <3>4. \A g \in DOMAIN back_for_frame' : back_for_frame'[g] = Caller(g)
      BY <1>2, <3>1 DEF Caller
    <3> QED
      BY <1>2, <3>2, <3>3, <3>4
  <2>2. CASE f \notin Live
    <3>1. UNCHANGED back_for_frame /\ visited' \cap Live = visited \cap Live
      BY <1>1, <1>3, <2>2
    <3> QED
      BY <1>2, <3>1
  <2> QED
    BY <2>1, <2>2
<1>6. /\ num_non_runnable_frames' = Cardinality(visited' \cap NotLive)
      /\ num_non_runnable_frames' \in Nat
  <2>1. CASE f \in NotLive
    <3> DEFINE S == visited \cap NotLive
    <3>1. visited' \cap NotLive = S \cup {f} /\ f \notin S
      BY <1>1, <2>1
    <3>2. IsFiniteSet(S)
      BY MemoryFacts, FS_Subset
    <3>3. Cardinality(S \cup {f}) = Cardinality(S) + 1
      BY <3>1, <3>2, FS_AddElement
    <3>4. num_non_runnable_frames' = num_non_runnable_frames + 1
      BY <1>1, <1>4, <2>1
    <3>5. num_non_runnable_frames \in Nat
      BY DEF Types
    <3>6. num_non_runnable_frames + 1 \in Nat
      BY <3>5
    <3> QED
      BY <1>2, <3>1, <3>3, <3>4, <3>6
  <2>2. CASE f \notin NotLive
    <3>1. UNCHANGED num_non_runnable_frames /\ visited' \cap NotLive = visited \cap NotLive
      BY <1>1, <1>4, <2>2
    <3> QED
      BY <1>2, <3>1 DEF Types
  <2> QED
    BY <2>1, <2>2
<1>7. Types'
  BY <1>0, <1>1, <1>6 DEF Types
<1>8. Recorded'
  BY <1>0, <1>5, <1>6, SameMemory DEF Recorded
<1> QED
  BY <1>0, <1>7, <1>8, BeforePrinting

LEMMA CollectThrowsSInv ==
  ASSUME SInv, CollectThrows
  PROVE  SInv'
<1>1. /\ phase = "scan" /\ phase' = "terminated"
      /\ UNCHANGED <<heap, include_runnable, visited, num_non_runnable_frames,
                     roots, root, addr, traces, warned>>
  BY DEF CollectThrows, request, printVars
<1>2. Types' /\ Recorded' /\ roots = {}
  BY <1>1 DEF SInv, Types, Recorded, Order
<1> QED
  BY <1>1, <1>2, BeforePrinting DEF SInv

LEMMA ScanReturnsSInv ==
  ASSUME SInv, ScanReturns
  PROVE  SInv'
<1>1. /\ phase = "scan" /\ phase' = "roots" /\ visited = Frames
      /\ UNCHANGED <<heap, include_runnable, visited, back_for_frame,
                     num_non_runnable_frames, roots, root, addr, traces, warned>>
  BY DEF ScanReturns, request, printVars
<1>2. Types' /\ Recorded' /\ roots = {}
  BY <1>1, SameMemory DEF SInv, Types, Recorded, Order
<1> QED
  BY <1>1, <1>2, BeforePrinting DEF SInv

\* The recorded frames that no recorded frame points to are the innermost ones.
LEMMA FindRootsSInv ==
  ASSUME SInv, FindRoots
  PROVE  SInv'
<1>1. /\ phase = "roots" /\ phase' = "print"
      /\ roots' = DOMAIN back_for_frame \ {back_for_frame[f] : f \in DOMAIN back_for_frame}
      /\ UNCHANGED <<heap, include_runnable, visited, back_for_frame,
                     num_non_runnable_frames, root, addr, traces, warned>>
  BY DEF FindRoots, request, printVars
<1>2. /\ DOMAIN back_for_frame = Live
      /\ \A f \in Live : back_for_frame[f] = Caller(f)
  <2>1. visited = Frames
    BY <1>1 DEF SInv, Recorded
  <2> QED
    BY <1>1, <2>1, MemoryFacts DEF SInv, Recorded
<1>3. roots' = Innermost
  BY <1>1, <1>2 DEF Innermost
<1>4. Types' /\ Recorded'
  BY <1>1, SameMemory DEF SInv, Types, Recorded
<1> QED
  BY <1>1, <1>3, <1>4, BeforePrinting DEF SInv

----------------------------------------------------------------------------
(* Traces. *)

LEMMA SeqFacts ==
  ASSUME NEW S, NEW t \in Seq(S)
  PROVE  /\ Len(t) \in Nat /\ DOMAIN t = 1 .. Len(t)
         /\ \A i \in DOMAIN t : t[i] \in S
         /\ t # <<>> <=> Len(t) # 0
         /\ t # <<>> => 1 \in DOMAIN t /\ Len(t) \in DOMAIN t
OBVIOUS

LEMMA AppendFacts ==
  ASSUME NEW S, NEW t \in Seq(S), NEW a \in S
  PROVE  /\ Append(t, a) \in Seq(S) /\ Append(t, a) # <<>>
         /\ Len(Append(t, a)) = Len(t) + 1
         /\ DOMAIN Append(t, a) = 1 .. (Len(t) + 1)
         /\ \A i \in DOMAIN t : Append(t, a)[i] = t[i]
         /\ Append(t, a)[Len(t) + 1] = a
OBVIOUS

LEMMA NextIndex ==
  ASSUME NEW n \in Nat, NEW i \in 1 .. (n + 1)
  PROVE  \/ i \in 1 .. n /\ i # n + 1
         \/ i = n + 1 /\ i \notin 1 .. n
OBVIOUS

\* A chain of live frames has no more lines than there are frames.
LEMMA ShortChain ==
  ASSUME Types, NEW t \in Seq(Address), NEW r, Chain(r, t), \A i \in DOMAIN t : t[i] \in Live
  PROVE  Len(t) < MaxLines
<1>1. Len(t) \in Nat /\ DOMAIN t = 1 .. Len(t)
  BY SeqFacts
<1> DEFINE f == [i \in 1 .. Len(t) |-> t[i]]
<1>2. f \in [1 .. Len(t) -> Frames]
  BY <1>1, MemoryFacts
<1>3. f \in Injection(1 .. Len(t), Frames)
  BY <1>1, <1>2 DEF Injection, IsInjective, Chain
<1>4. IsFiniteSet(1 .. Len(t)) /\ Cardinality(1 .. Len(t)) = Len(t)
  <2>1. Cardinality(1 .. Len(t)) = IF 1 > Len(t) THEN 0 ELSE Len(t) - 1 + 1
    BY <1>1, FS_Interval
  <2> QED
    BY <1>1, <2>1, FS_Interval
<1>5. Cardinality(1 .. Len(t)) <= Cardinality(Frames)
  BY <1>3, <1>4, FramesAssumption, FS_Injection
<1>6. Cardinality(Frames) \in Nat
  BY FramesAssumption, FS_CardinalityType
<1> QED
  BY <1>1, <1>4, <1>5, <1>6 DEF MaxLines

\* A chain of live frames goes on with a frame that it does not have.
LEMMA ChainGrows ==
  ASSUME NEW t \in Seq(Address), NEW r, Chain(r, t), \A i \in DOMAIN t : t[i] \in Live,
         NEW a \in Address, a = IF t = <<>> THEN r ELSE Caller(t[Len(t)]),
         \A i \in DOMAIN t : t[i] # a
  PROVE  Chain(r, Append(t, a))
<1> DEFINE n == Len(t)
           u == Append(t, a)
<1>1. /\ n \in Nat /\ DOMAIN t = 1 .. n
      /\ t # <<>> <=> n # 0
      /\ t # <<>> => 1 \in DOMAIN t /\ n \in DOMAIN t
  BY SeqFacts
<1>2. /\ Len(u) = n + 1 /\ DOMAIN u = 1 .. (n + 1)
      /\ \A i \in DOMAIN t : u[i] = t[i]
      /\ u[n + 1] = a
  BY AppendFacts
<1> HIDE DEF u, n
<1>3. \A i \in DOMAIN u : (i \in DOMAIN t /\ i # n + 1) \/ (i = n + 1 /\ i \notin DOMAIN t)
  BY <1>1, <1>2, NextIndex
<1>4. u[1] = r
  <2>1. CASE t = <<>>
    <3>1. n = 0
      BY <1>1, <2>1
    <3>2. n + 1 = 1
      BY <3>1
    <3> QED
      BY <1>2, <2>1, <3>2
  <2>2. CASE t # <<>>
    BY <1>1, <1>2, <2>2 DEF Chain
  <2> QED
    BY <2>1, <2>2
<1>5. \A i, j \in DOMAIN u : u[i] = u[j] => i = j
  BY <1>2, <1>3 DEF Chain
<1>6. ASSUME NEW i \in DOMAIN u, i < Len(u)
      PROVE  u[i] \in Live /\ u[i + 1] = Caller(u[i])
  <2>1. i \in DOMAIN t /\ u[i] = t[i] /\ u[i] \in Live
    <3>1. i \in 1 .. (n + 1) /\ i < n + 1
      BY <1>2, <1>6
    <3>2. i \in 1 .. n
      BY <1>1, <3>1
    <3> QED
      BY <1>1, <1>2, <3>2
  <2>2. i \in 1 .. n
    BY <1>1, <2>1
  <2>3. CASE i = n
    <3>1. t # <<>>
      BY <1>1, <2>2, <2>3
    <3> QED
      BY <1>2, <2>1, <2>3, <3>1 DEF n
  <2>4. CASE i < n
    <3>1. i + 1 \in 1 .. n
      BY <1>1, <2>2, <2>4
    <3>2. u[i + 1] = t[i + 1]
      BY <1>1, <1>2, <3>1
    <3>3. t[i + 1] = Caller(t[i])
      BY <2>1, <2>4 DEF Chain, n
    <3> QED
      BY <2>1, <3>2, <3>3
  <2>5. i = n \/ i < n
    BY <1>1, <2>2
  <2> QED
    BY <2>3, <2>4, <2>5
<1> QED
  BY <1>4, <1>5, <1>6 DEF Chain, u

\* A chain that comes to a frame it has never leaves the frames it has.
LEMMA ChainReturns ==
  ASSUME NEW t \in Seq(Address), NEW r, Chain(r, t), \A i \in DOMAIN t : t[i] \in Live,
         NEW k \in DOMAIN t, Caller(t[Len(t)]) = t[k]
  PROVE  \E T \in SUBSET Live : t[k] \in T /\ \A f \in T : Caller(f) \in T
<1> DEFINE n == Len(t)
           T == {t[i] : i \in k .. n}
<1>1. n \in Nat /\ DOMAIN t = 1 .. n /\ k \in 1 .. n
  BY SeqFacts
<1>2. \A i \in k .. n : i \in 1 .. n
  BY <1>1
<1>3. T \subseteq Live
  BY <1>1, <1>2
<1>4. t[k] \in T
  <2>1. k \in k .. n
    BY <1>1
  <2> QED
    BY <2>1
<1>5. ASSUME NEW i \in k .. n PROVE Caller(t[i]) \in T
  <2>1. CASE i = n
    BY <1>4, <2>1
  <2>2. CASE i # n
    <3>0. i \in Int /\ k \in Int /\ n \in Int /\ k <= i /\ i <= n
      BY <1>1
    <3>1. i < n /\ i + 1 \in k .. n
      BY <2>2, <3>0
    <3>2. t[i + 1] = Caller(t[i])
      BY <1>1, <1>2, <3>1 DEF Chain
    <3> QED
      BY <3>1, <3>2
  <2> QED
    BY <2>1, <2>2
<1> QED
  BY <1>3, <1>4, <1>5

----------------------------------------------------------------------------
(* Printing. *)

LEMMA StartTraceSInv ==
  ASSUME SInv, StartTrace
  PROVE  SInv'
<1> USE DEF SInv
<1>0. /\ phase = "print" /\ phase' = "print" /\ addr = Null
      /\ UNCHANGED <<heap, include_runnable, visited, back_for_frame,
                     num_non_runnable_frames, warned>>
  BY DEF StartTrace, request
<1>1. PICK r \in roots :
        /\ roots' = roots \ {r}
        /\ root' = r
        /\ addr' = r
        /\ traces' = [q \in DOMAIN traces \cup {r} |-> IF q = r THEN <<>> ELSE traces[q]]
  BY DEF StartTrace
<1>2. r \in Innermost /\ r \in Live /\ r \in Frames /\ r \in Address /\ r # Null
  BY MemoryFacts DEF Order, Address
<1>3. Started' = Started \cup {r} /\ r \notin Started
  BY <1>0, <1>1, <1>2, SameMemory DEF Started
<1>4. /\ DOMAIN traces' = DOMAIN traces \cup {r}
      /\ traces'[r] = <<>>
      /\ \A q \in DOMAIN traces : q # r => traces'[q] = traces[q]
  BY <1>1
<1>5. Types'
  <2>1. \A q \in DOMAIN traces' : traces'[q] \in Seq(Address)
    <3>1. <<>> \in Seq(Address)
      OBVIOUS
    <3> QED
      BY <1>4, <3>1 DEF Types
  <2>2. traces' = [q \in DOMAIN traces' |-> traces'[q]]
    BY <1>1
  <2>3. traces' \in [DOMAIN traces' -> Seq(Address)]
    BY <2>1, <2>2
  <2> QED
    BY <1>0, <1>1, <1>2, <2>3 DEF Types
<1>6. Recorded'
  BY <1>0, SameMemory DEF Recorded
<1>7. Order'
  <2>1. r \notin warned
    BY <1>3 DEF Order
  <2> QED
    BY <1>0, <1>1, <1>3, <1>4, <2>1, SameMemory DEF Order
<1>8. Partial(r)'
  <2>1. Chain(r, <<>>)
    BY DEF Chain
  <2> QED
    BY <1>0, <1>1, <1>4, <2>1, SameMemory DEF Partial
<1>9. \A q \in Started' : q # r => Complete(q)'
  <2> SUFFICES ASSUME NEW q \in Started, q # r
               PROVE  Complete(q)'
    BY <1>3
  <2>1. Complete(q) /\ traces'[q] = traces[q]
    BY <1>0, <1>4 DEF Tracing, Order
  <2> QED
    BY <1>0, <2>1, StillComplete
<1>10. Tracing'
  <2>1. Partial(root)'
    BY <1>1, <1>8 DEF Partial, Chain
  <2> QED
    BY <1>1, <1>2, <1>9, <2>1 DEF Tracing
<1> QED
  BY <1>5, <1>6, <1>7, <1>10

LEMMA PrintFrameSInv ==
  ASSUME SInv, PrintFrame
  PROVE  SInv'
<1> USE DEF SInv
<1> DEFINE t == traces[root]
           u == Append(t, addr)
<1>0. /\ phase = "print" /\ phase' = "print" /\ addr # Null
      /\ traces' = [traces EXCEPT ![root] = Shown(t)]
      /\ IF addr \in DOMAIN back_for_frame
         THEN addr' = back_for_frame[addr] /\ UNCHANGED warned
         ELSE addr' = Null /\ warned' = warned \cup {root}
      /\ UNCHANGED <<heap, include_runnable, visited, back_for_frame,
                     num_non_runnable_frames, roots, root>>
  BY DEF PrintFrame, request
<1>1. /\ root \in Started /\ root \notin warned /\ root \in DOMAIN traces
      /\ t \in Seq(Address) /\ addr \in Address
  BY <1>0 DEF Order, Types
<1>2. IF addr \in Live
      THEN addr' = Caller(addr) /\ UNCHANGED warned
      ELSE addr' = Null /\ warned' = warned \cup {root}
  <2>1. visited = Frames
    BY <1>0 DEF Recorded
  <2>2. DOMAIN back_for_frame = Live /\ \A f \in Live : back_for_frame[f] = Caller(f)
    BY <1>0, <2>1, MemoryFacts DEF Recorded
  <2> QED
    BY <1>0, <2>2
<1>3. Started' = Started
  BY <1>0, SameMemory DEF Started
<1>4. /\ DOMAIN traces' = DOMAIN traces
      /\ traces'[root] = Shown(t)
      /\ \A q \in DOMAIN traces : q # root => traces'[q] = traces[q]
  BY <1>0, <1>1
<1>5. Types'
  <2>1. Shown(t) \in Seq(Address)
    BY <1>1, AppendFacts DEF Shown
  <2>2. \A q \in DOMAIN traces : traces'[q] \in Seq(Address)
    BY <1>4, <2>1 DEF Types
  <2>3. traces' = [q \in DOMAIN traces |-> traces'[q]]
    BY <1>0, <1>4 DEF Types
  <2>4. traces' \in [DOMAIN traces' -> Seq(Address)]
    BY <1>4, <2>2, <2>3
  <2>5. addr' \in Address
    BY <1>2, MemoryFacts DEF Address
  <2> QED
    BY <1>0, <2>4, <2>5 DEF Types
<1>6. Recorded'
  BY <1>0, SameMemory DEF Recorded
<1>7. Order'
  BY <1>0, <1>1, <1>2, <1>3, <1>4, SameMemory DEF Order
<1>8. \A q \in Started' : q # root => Complete(q)'
  <2> SUFFICES ASSUME NEW q \in Started, q # root
               PROVE  Complete(q)'
    BY <1>3
  <2>1. Complete(q) /\ traces'[q] = traces[q] /\ (q \in warned' <=> q \in warned)
    BY <1>2, <1>4 DEF Tracing, Order
  <2> QED
    BY <1>0, <2>1, StillComplete
\* The trace stays among the frames it has run into.
<1>9. ASSUME Trapped PROVE addr' # Null /\ Trapped'
  <2>1. PICK T \in SUBSET Live : addr \in T /\ \A f \in T : Caller(f) \in T
    BY <1>9 DEF Trapped
  <2>2. addr' \in T
    BY <1>2, <2>1
  <2>3. T \in SUBSET Live' /\ \A f \in T : Caller(f)' \in T
    BY <1>0, <2>1, SameMemory
  <2> QED
    BY <2>1, <2>2, <2>3, MemoryFacts DEF Trapped
<1>10. ASSUME Partial(root), NEW r, r = root
       PROVE  IF addr' = Null THEN Complete(r)' ELSE Trapped' \/ Partial(r)'
  <2>1. /\ Chain(root, t)
        /\ \A i \in DOMAIN t : t[i] \in Live
        /\ addr = IF t = <<>> THEN root ELSE Caller(t[Len(t)])
    BY <1>10 DEF Partial
  <2>2. traces'[root] = u
    <3>1. Len(t) < MaxLines
      BY <1>1, <2>1, ShortChain
    <3> QED
      BY <1>4, <3>1 DEF Shown
  <2>3. /\ u # <<>> /\ u[Len(u)] = addr
        /\ Len(u) = Len(t) + 1
        /\ DOMAIN u = 1 .. (Len(t) + 1)
        /\ \A i \in DOMAIN t : u[i] = t[i]
        /\ u[Len(t) + 1] = addr
        /\ DOMAIN t = 1 .. Len(t) /\ Len(t) \in Nat
    BY <1>1, AppendFacts, SeqFacts
  <2>4. CASE addr \notin Live
    <3>1. Chain(root, u)
      BY <1>1, <2>1, <2>4, ChainGrows
    <3> QED
      BY <1>0, <1>2, <1>10, <2>2, <2>3, <2>4, <3>1, CompleteNext
  <2>5. CASE addr \in Live /\ \A i \in DOMAIN t : t[i] # addr
    <3>1. Chain(root, u)
      BY <1>1, <2>1, <2>5, ChainGrows
    <3>2. CASE addr' = Null
      <4>1. root \notin warned' /\ Caller(addr) = Null
        BY <1>1, <1>2, <2>5, <3>2
      <4> QED
        BY <1>0, <1>10, <2>2, <2>3, <2>5, <3>1, <4>1, <3>2, CompleteNext
    <3>3. CASE addr' # Null
      <4>1. \A i \in DOMAIN u : u[i] \in Live
        BY <2>1, <2>3, <2>5, NextIndex
      <4>2. addr' = Caller(addr)
        BY <1>2, <2>5
      <4> QED
        BY <1>0, <1>10, <2>2, <2>3, <3>1, <3>3, <4>1, <4>2, PartialNext
    <3> QED
      BY <3>2, <3>3
  <2>6. CASE addr \in Live /\ \E i \in DOMAIN t : t[i] = addr
    <3>1. PICK k \in DOMAIN t : t[k] = addr
      BY <2>6
    <3>2. t # <<>> /\ Caller(t[Len(t)]) = t[k]
      BY <2>1, <2>3, <3>1
    <3>3. PICK T \in SUBSET Live : t[k] \in T /\ \A f \in T : Caller(f) \in T
      BY <1>1, <2>1, <3>1, <3>2, ChainReturns
    <3>4. Trapped
      BY <3>1, <3>3 DEF Trapped
    <3> QED
      BY <1>9, <3>4
  <2> QED
    BY <2>4, <2>5, <2>6
<1>11. Tracing'
  <2>1. PICK r : r = root
    OBVIOUS
  <2>2. IF addr' = Null THEN Complete(r)' ELSE Trapped' \/ Partial(r)'
    BY <1>0, <1>9, <1>10, <2>1 DEF Tracing
  <2>3. Partial(r)' => Partial(root)'
    BY <1>0, <2>1 DEF Partial, Chain
  <2> QED
    BY <1>0, <1>8, <2>1, <2>2, <2>3 DEF Tracing
<1> QED
  BY <1>5, <1>6, <1>7, <1>11

LEMMA FinishSInv ==
  ASSUME SInv, Finish
  PROVE  SInv'
<1> USE DEF SInv
<1>1. /\ phase = "print" /\ phase' = "done" /\ addr = Null /\ roots = {}
      /\ UNCHANGED <<heap, include_runnable, visited, back_for_frame,
                     num_non_runnable_frames, roots, root, addr, traces, warned>>
  BY DEF Finish, request, printVars
<1>2. Types' /\ Recorded'
  BY <1>1, SameMemory DEF Types, Recorded
<1>3. Started' = Started
  BY <1>1, SameMemory DEF Started
<1>4. \A q \in Started : Complete(q) => Complete(q)'
  BY <1>1, StillComplete
<1> QED
  BY <1>1, <1>2, <1>3, <1>4, SameMemory DEF Order, Tracing

LEMMA StutterSInv ==
  ASSUME SInv, UNCHANGED vars
  PROVE  SInv'
<1> USE DEF SInv
<1>1. UNCHANGED <<heap, include_runnable, phase, visited, back_for_frame,
                  num_non_runnable_frames, roots, root, addr, traces, warned>>
  BY DEF vars, request, printVars
<1>2. Types' /\ Recorded'
  BY <1>1, SameMemory DEF Types, Recorded
<1>3. Started' = Started
  BY <1>1, SameMemory DEF Started
<1>4. \A q \in Started : Complete(q) => Complete(q)'
  BY <1>1, StillComplete
<1>5. Trapped => Trapped'
  BY <1>1, SameMemory DEF Trapped
<1>6. Partial(root) => Partial(root)'
  BY <1>1, SameMemory DEF Partial, Chain
<1> QED
  BY <1>1, <1>2, <1>3, <1>4, <1>5, <1>6, SameMemory DEF Order, Tracing

LEMMA SInvariance == Spec => []SInv
<1>1. Init => SInv
  BY InitSInv
<1>2. SInv /\ [Next]_vars => SInv'
  <2> SUFFICES ASSUME SInv, [Next]_vars PROVE SInv'
    OBVIOUS
  <2>1. ASSUME Collect PROVE SInv'
    BY <2>1, CollectSInv
  <2>2. ASSUME CollectThrows PROVE SInv'
    BY <2>2, CollectThrowsSInv
  <2>3. ASSUME ScanReturns PROVE SInv'
    BY <2>3, ScanReturnsSInv
  <2>4. ASSUME FindRoots PROVE SInv'
    BY <2>4, FindRootsSInv
  <2>5. ASSUME StartTrace PROVE SInv'
    BY <2>5, StartTraceSInv
  <2>6. ASSUME PrintFrame PROVE SInv'
    BY <2>6, PrintFrameSInv
  <2>7. ASSUME Finish PROVE SInv'
    BY <2>7, FinishSInv
  <2>8. ASSUME UNCHANGED vars PROVE SInv'
    BY <2>8, StutterSInv
  <2> QED
    BY <2>1, <2>2, <2>3, <2>4, <2>5, <2>6, <2>7, <2>8 DEF Next, Step, Over
<1> QED
  BY <1>1, <1>2, PTL DEF Spec

----------------------------------------------------------------------------
(* Cycles. *)

LEMMA CallersLeast ==
  ASSUME NEW S, NEW T \in SUBSET Live, S \cap Live \subseteq T, Closed(T)
  PROVE  Callers(S) \subseteq T
BY DEF Callers

LEMMA CallersClosed ==
  ASSUME NEW S
  PROVE  Callers(S) \subseteq Live /\ S \cap Live \subseteq Callers(S) /\ Closed(Callers(S))
<1>1. Callers(S) \subseteq Live /\ S \cap Live \subseteq Callers(S)
  BY DEF Callers
<1>2. ASSUME NEW f \in Callers(S), Caller(f) \in Live PROVE Caller(f) \in Callers(S)
  BY <1>2 DEF Callers, Closed
<1> QED
  BY <1>1, <1>2 DEF Closed

\* Frames that all are called by one of them are all on cycles: as many callers
\* as frames, so none of them calls two, and a frame off its own cycle would be
\* one caller too many.
LEMMA CalledByEachOther ==
  ASSUME Types, NEW U \in SUBSET Live, \A f \in U : \E g \in U : Caller(g) = f,
         NEW f \in U
  PROVE  OnCycle(f)
<1> DEFINE h == [g \in U |-> Caller(g)]
           I == {Caller(g) : g \in U}
<1>1. IsFiniteSet(U)
  BY MemoryFacts, FS_Subset
<1>2. h \in Surjection(U, I)
  BY DEF Surjection
<1>3. IsFiniteSet(I) /\ Cardinality(I) <= Cardinality(U)
      /\ (Cardinality(I) = Cardinality(U) <=> h \in Injection(U, I))
  BY <1>1, <1>2, FS_Surjection
<1>4. U \subseteq I
  OBVIOUS
<1>5. /\ Cardinality(U) <= Cardinality(I)
      /\ Cardinality(U) = Cardinality(I) => U = I
  BY <1>3, <1>4, FS_Subset
<1>6. Cardinality(U) \in Nat /\ Cardinality(I) \in Nat
  BY <1>1, <1>3, FS_CardinalityType
<1>7. Cardinality(I) = Cardinality(U)
  BY <1>3, <1>5, <1>6
<1>8. U = I
  BY <1>5, <1>7
<1>9. \A a, b \in U : Caller(a) = Caller(b) => a = b
  BY <1>3, <1>7 DEF Injection, IsInjective
<1> DEFINE R == Callers({Caller(f)})
<1>10. Closed(U) /\ Caller(f) \in U
  BY <1>8 DEF Closed
<1>11. R \subseteq U
  BY <1>10, CallersLeast
<1>12. Closed(R) /\ Caller(f) \in R
  BY <1>10, CallersClosed
<1>13. SUFFICES ASSUME f \notin R PROVE FALSE
  BY DEF OnCycle
<1> HIDE DEF R
<1> DEFINE k == [g \in R \cup {f} |-> Caller(g)]
<1>14. k \in [R \cup {f} -> R]
  <2>1. \A g \in R \cup {f} : Caller(g) \in R
    BY <1>8, <1>11, <1>12 DEF Closed
  <2> QED
    BY <2>1
<1>15. k \in Injection(R \cup {f}, R)
  BY <1>9, <1>11, <1>14 DEF Injection, IsInjective
<1>16. IsFiniteSet(R)
  BY <1>1, <1>11, FS_Subset
<1>17. Cardinality(R \cup {f}) <= Cardinality(R)
  BY <1>15, <1>16, FS_Injection
<1>18. Cardinality(R \cup {f}) = Cardinality(R) + 1 /\ Cardinality(R) \in Nat
  BY <1>13, <1>16, FS_AddElement, FS_CardinalityType
<1> QED
  BY <1>17, <1>18

----------------------------------------------------------------------------
(* When the command is done. *)

LEMMA DoneFacts ==
  ASSUME SInv, phase = "done"
  PROVE  /\ DOMAIN traces = Innermost
         /\ \A r \in Innermost : Complete(r) /\ traces[r] \in Seq(Address)
         /\ num_non_runnable_frames = Cardinality(NotLive)
<1>1. Started = Innermost /\ addr = Null
  BY DEF SInv, Order, Started
<1>2. visited \cap NotLive = NotLive
  BY MemoryFacts DEF SInv, Recorded
<1> QED
  BY <1>1, <1>2 DEF SInv, Order, Tracing, Recorded, Types

\* What a trace has, it has all the callers of.
LEMMA TraceClosed ==
  ASSUME SInv, phase = "done", NEW r \in Innermost, NEW i \in DOMAIN traces[r],
         NEW k \in i .. Len(traces[r]), Caller(traces[r][k]) \in Live, traces[r][k] \in Live
  PROVE  \E j \in (i + 1) .. Len(traces[r]) :
           traces[r][j] = Caller(traces[r][k]) /\ j \in DOMAIN traces[r]
<1> DEFINE t == traces[r]
<1>1. Complete(r) /\ t \in Seq(Address)
  BY DoneFacts
<1>2. Len(t) \in Nat /\ DOMAIN t = 1 .. Len(t) /\ i \in 1 .. Len(t)
  BY <1>1, SeqFacts
<1>3. i \in Nat /\ k \in Nat /\ i <= k /\ k <= Len(t) /\ 1 <= i
  BY <1>2
<1>4. k \in DOMAIN t /\ k # Len(t)
  <2>1. ASSUME k = Len(t) PROVE FALSE
    BY <1>1, <2>1, MemoryFacts DEF Complete, SInv
  <2> QED
    BY <1>2, <1>3, <2>1
<1>5. k < Len(t) /\ k + 1 \in (i + 1) .. Len(t) /\ k + 1 \in 1 .. Len(t)
  BY <1>2, <1>3, <1>4
<1>6. t[k + 1] = Caller(t[k])
  BY <1>1, <1>4, <1>5 DEF Complete, Chain
<1> QED
  BY <1>2, <1>5, <1>6

LEMMA NoneMissing ==
  ASSUME SInv, phase = "done"
  PROVE  \A f \in Live : OnCycle(f) \/ \E r \in Innermost : \E i \in DOMAIN traces[r] :
                                         traces[r][i] = f
<1> DEFINE Printed(f) == \E r \in Innermost : \E i \in DOMAIN traces[r] : traces[r][i] = f
           U == {f \in Live : ~Printed(f)}
<1>1. ASSUME NEW f \in U PROVE \E g \in U : Caller(g) = f
  <2>1. f \notin Innermost
    <3>1. ASSUME f \in Innermost PROVE FALSE
      <4>1. Complete(f) /\ traces[f] \in Seq(Address)
        BY <3>1, DoneFacts
      <4>2. 1 \in DOMAIN traces[f] /\ traces[f][1] = f
        BY <4>1, SeqFacts DEF Complete, Chain
      <4> QED
        BY <1>1, <3>1, <4>2
    <3> QED
      BY <3>1
  <2>2. PICK g \in Live : Caller(g) = f
    BY <1>1, <2>1 DEF Innermost
  <2>3. ASSUME Printed(g) PROVE FALSE
    <3>1. PICK r \in Innermost : \E i \in DOMAIN traces[r] : traces[r][i] = g
      BY <2>3
    <3>2. PICK i \in DOMAIN traces[r] : traces[r][i] = g
      BY <3>1
    <3>3. i \in i .. Len(traces[r])
      <4>1. traces[r] \in Seq(Address)
        BY DoneFacts
      <4>2. i \in 1 .. Len(traces[r]) /\ Len(traces[r]) \in Nat
        BY <4>1, SeqFacts
      <4> QED
        BY <4>2
    <3>4. \E j \in DOMAIN traces[r] : traces[r][j] = f
      BY <1>1, <2>2, <3>2, <3>3, TraceClosed
    <3> QED
      BY <1>1, <3>4
  <2> QED
    BY <2>2, <2>3
<1>2. \A f \in U : OnCycle(f)
  BY <1>1, CalledByEachOther DEF SInv
<1> QED
  BY <1>2

\* A trace that is over passes no frame twice, so none of its frames, and nothing
\* that the roots lead to, is on a cycle.
LEMMA NoCycleLeft ==
  ASSUME SInv, phase = "done"
  PROVE  ~LeadsIntoCycle
<1> SUFFICES ASSUME NEW f \in Callers(Innermost), OnCycle(f) PROVE FALSE
  BY DEF LeadsIntoCycle
<1> DEFINE P == {g \in Live : \E r \in Innermost : \E i \in DOMAIN traces[r] : traces[r][i] = g}
<1>0. \A r \in Innermost : \A i \in DOMAIN traces[r] :
        i \in i .. Len(traces[r]) /\ Len(traces[r]) \in Nat /\ i \in 1 .. Len(traces[r])
  <2> SUFFICES ASSUME NEW r \in Innermost, NEW i \in DOMAIN traces[r]
               PROVE  i \in i .. Len(traces[r]) /\ Len(traces[r]) \in Nat /\ i \in 1 .. Len(traces[r])
    OBVIOUS
  <2>1. traces[r] \in Seq(Address)
    BY DoneFacts
  <2>2. i \in 1 .. Len(traces[r]) /\ Len(traces[r]) \in Nat
    BY <2>1, SeqFacts
  <2> QED
    BY <2>2
<1>1. Innermost \cap Live \subseteq P
  <2> SUFFICES ASSUME NEW r \in Innermost, r \in Live PROVE r \in P
    OBVIOUS
  <2>1. Complete(r) /\ traces[r] \in Seq(Address)
    BY DoneFacts
  <2>2. 1 \in DOMAIN traces[r] /\ traces[r][1] = r
    BY <2>1, SeqFacts DEF Complete, Chain
  <2> QED
    BY <2>2
<1>2. Closed(P)
  <2> SUFFICES ASSUME NEW g \in P, Caller(g) \in Live PROVE Caller(g) \in P
    BY DEF Closed
  <2>1. PICK r \in Innermost : \E i \in DOMAIN traces[r] : traces[r][i] = g
    OBVIOUS
  <2>2. PICK i \in DOMAIN traces[r] : traces[r][i] = g
    BY <2>1
  <2>3. \E j \in DOMAIN traces[r] : traces[r][j] = Caller(g)
    BY <1>0, <2>2, TraceClosed
  <2> QED
    BY <2>3
<1>3. f \in P
  BY <1>1, <1>2, CallersLeast
<1>4. PICK r \in Innermost : \E i \in DOMAIN traces[r] : traces[r][i] = f
  BY <1>3
<1>5. PICK i \in DOMAIN traces[r] : traces[r][i] = f
  BY <1>4
\* The rest of the trace is closed, and has the caller of f.
<1> DEFINE t == traces[r]
           S == {g \in Live : \E j \in (i + 1) .. Len(t) : t[j] = g}
<1>6. {Caller(f)} \cap Live \subseteq S
  BY <1>0, <1>3, <1>5, TraceClosed
<1>7. Closed(S)
  <2> SUFFICES ASSUME NEW g \in S, Caller(g) \in Live PROVE Caller(g) \in S
    BY DEF Closed
  <2>1. PICK k \in (i + 1) .. Len(t) : t[k] = g
    OBVIOUS
  <2>2. k \in i .. Len(t)
    BY <1>0
  <2>3. \E j \in (i + 1) .. Len(t) : t[j] = Caller(g)
    BY <2>1, <2>2, TraceClosed
  <2> QED
    BY <2>3
<1>8. f \in S
  BY <1>6, <1>7, CallersLeast DEF OnCycle
<1>9. PICK j \in (i + 1) .. Len(t) : t[j] = t[i]
  BY <1>5, <1>8
<1>10. t \in Seq(Address) /\ Complete(r)
  BY DoneFacts
<1>11. j \in DOMAIN t /\ j # i
  <2>1. i \in 1 .. Len(t) /\ Len(t) \in Nat
    BY <1>0
  <2>2. j \in 1 .. Len(t) /\ j # i
    BY <2>1
  <2> QED
    BY <1>10, <2>2, SeqFacts
<1> QED
  BY <1>9, <1>10, <1>11 DEF Complete, Chain

----------------------------------------------------------------------------
(* The theorems. *)

\* Whatever is in the memory and however the threads found it: when the command
\* ends, its traces are the chains of calls under way, each printed to its end,
\* with a warning exactly if it leaves the frames found, and no frame is missing
\* but those on a cycle; the other frames have been counted.
THEOREM StacksAlwaysRight == Spec => []StacksRight
<1>1. SInv => StacksRight
  <2> SUFFICES ASSUME SInv, phase = "done"
               PROVE  /\ DOMAIN traces = Innermost
                      /\ \A r \in Innermost :
                           LET trace == traces[r]
                               last  == trace[Len(trace)]
                           IN /\ trace[1] = r
                              /\ \A i \in 1 .. (Len(trace) - 1) : trace[i + 1] = Caller(trace[i])
                              /\ IF r \in warned THEN last \notin Live
                                                 ELSE last \in Live /\ Caller(last) = Null
                      /\ \A f \in Live : OnCycle(f) \/ \E r \in Innermost :
                           \E i \in DOMAIN traces[r] : traces[r][i] = f
                      /\ num_non_runnable_frames =
                           Cardinality({f \in Frames : heap[f].check = "ok"} \ Live)
    BY DEF StacksRight
  <2>1. ASSUME NEW r \in Innermost
        PROVE  /\ traces[r][1] = r
               /\ \A i \in 1 .. (Len(traces[r]) - 1) : traces[r][i + 1] = Caller(traces[r][i])
               /\ LET last == traces[r][Len(traces[r])]
                  IN IF r \in warned THEN last \notin Live
                                     ELSE last \in Live /\ Caller(last) = Null
    <3>1. Complete(r) /\ traces[r] \in Seq(Address)
      BY <2>1, DoneFacts
    <3>2. Len(traces[r]) \in Nat /\ DOMAIN traces[r] = 1 .. Len(traces[r])
      BY <3>1, SeqFacts
    <3>3. \A i \in 1 .. (Len(traces[r]) - 1) : i \in DOMAIN traces[r] /\ i < Len(traces[r])
      BY <3>2
    <3> QED
      BY <3>1, <3>3 DEF Complete, Chain
  <2> QED
    BY <2>1, DoneFacts, NoneMissing DEF NotLive
<1> QED
  BY <1>1, SInvariance, PTL

\* The command never ends if a chain from a root runs into a cycle: the safety
\* part of EndsUnlessCyclic.
THEOREM CyclicIsEndless == Spec => []CyclicNeverDone
<1>1. SInv => CyclicNeverDone
  BY NoCycleLeft DEF CyclicNeverDone
<1> QED
  BY <1>1, SInvariance, PTL
=============================================================================
