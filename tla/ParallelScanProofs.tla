------------------------- MODULE ParallelScanProofs -------------------------
(***************************************************************************)
(* Proofs about ParallelScan, for any number of workers, any block size    *)
(* and any set of scans.                                                   *)
(***************************************************************************)
EXTENDS ParallelScan, TLAPS

(* The parts of the inductive invariant. *)

\* region_start_offsets are the prefix sums of the sizes measured so far, all
\* of them once a thread has been started.
Layout ==
  /\ Len(region_start_offsets) <= NRegions + 1
  /\ region_start_offsets[1] = 0
  /\ \A i, j \in 1 .. Len(region_start_offsets) :
       i <= j => region_start_offsets[i] <= region_start_offsets[j]
  /\ \A i \in 1 .. (Len(region_start_offsets) - 1) :
       region_start_offsets[i + 1] = region_start_offsets[i] + scan.regions[i]
  /\ \A w \in Workers : pc[w] # "new" => Len(region_start_offsets) = NRegions + 1

\* A worker never searches backwards: the region it is in starts no later than
\* any block it may still claim, and holds the start of the block it has.
InRegion ==
  \A w \in Workers :
    /\ current_region[w] <= Len(region_start_offsets)
    /\ region_start_offsets[current_region[w]] <= current_offset
    /\ pc[w] = "visit" =>
         /\ current_region[w] <= NRegions
         /\ region_start_offsets[current_region[w]] <= offset[w]
         /\ offset[w] < region_start_offsets[current_region[w] + 1]

\* Where the laid-out regions place an address.
Place(a) == region_start_offsets[a[1]] + a[2]

\* What has been visited lies below the counter, and in a block a worker
\* holds it lies below the worker's position.
VisitedBehind ==
  \A a \in visited :
    /\ a[1] \in 1 .. NRegions
    /\ a[1] < Len(region_start_offsets)
    /\ Place(a) < current_offset
    /\ \A w \in Workers : pc[w] = "visit" =>
         Place(a) < offset[w] + z[w] \/ offset[w] + BlockStride <= Place(a)

IInv == TypeOK /\ Layout /\ InRegion /\ BlocksDisjoint
        /\ (scan.stride > 0 => VisitedBehind)

----------------------------------------------------------------------------
LEMMA TypeInit == Init => TypeOK
  BY BlockStrideAssumption, ScansAssumption DEF Init, TypeOK

LEMMA TypeNext == TypeOK /\ Layout /\ InRegion /\ [Next]_vars => TypeOK'
<1> SUFFICES ASSUME TypeOK, Layout, InRegion, [Next]_vars PROVE TypeOK'
  OBVIOUS
<1> USE BlockStrideAssumption, ScansAssumption
<1>s. /\ scan \in [regions : Seq(Nat), stride : Nat, object_size : Nat \ {0}]
      /\ Total \in Nat
  BY DEF TypeOK, Total
<1>1. CASE Refuse
  BY <1>1 DEF Refuse, TypeOK, workerVars
<1>2. CASE Measure
  <2>1. CASE scan.regions[Len(region_start_offsets)] = 0
    BY <1>2, <2>1 DEF Measure, TypeOK, workerVars
  <2>2. CASE scan.regions[Len(region_start_offsets)] # 0
    <3> DEFINE size == scan.regions[Len(region_start_offsets)]
    <3>1. size \in Nat
      BY <1>2, <1>s DEF Measure, NRegions, TypeOK
    <3>2. region_start_offsets' = Append(region_start_offsets, Total + size)
      BY <1>2, <2>2 DEF Measure
    <3>3. region_start_offsets' \in Seq(Nat) /\ Len(region_start_offsets') > 0
      BY <1>s, <3>1, <3>2 DEF TypeOK
    <3> QED
      BY <1>2, <2>2, <3>3 DEF Measure, TypeOK, workerVars
  <2> QED
    BY <2>1, <2>2
<1>3. CASE ShowProgress
  BY <1>3 DEF ShowProgress, TypeOK, workerVars
<1>4. CASE StopProgress
  BY <1>4 DEF StopProgress, TypeOK, workerVars
<1>5. CASE Join
  BY <1>5 DEF Join, TypeOK, workerVars
<1>6. ASSUME NEW w \in Workers, StartThread(w) PROVE TypeOK'
  BY <1>6 DEF StartThread, TypeOK
<1>7. ASSUME NEW w \in Workers, Claim(w) PROVE TypeOK'
  <2>1. CASE BlocksLeft
    <3>1. PICK r \in 1 .. NRegions :
            /\ current_region' = [current_region EXCEPT ![w] = r]
            /\ pc' = [pc EXCEPT ![w] = IF current_offset <= LastStart(r)
                                       THEN "visit" ELSE "claim"]
      BY <1>7, <2>1 DEF Claim
    <3>2. r \in Nat \ {0}
      BY <3>1, <1>s DEF NRegions
    <3> QED
      BY <1>7, <3>1, <3>2 DEF Claim, NextBlock, TypeOK, callerVars
  <2>2. CASE ~BlocksLeft
    <3>1. /\ UNCHANGED <<scan, callerVars, current_region, z, visited>>
          /\ pc' = [pc EXCEPT ![w] = "done"]
          /\ offset' = [offset EXCEPT ![w] = current_offset]
          /\ current_offset' = current_offset + BlockStride
      BY <1>7, <2>2 DEF Claim, NextBlock
    <3> QED
      BY <3>1 DEF TypeOK, callerVars
  <2> QED
    BY <2>1, <2>2
<1>8. ASSUME NEW w \in Workers, Visit(w) PROVE TypeOK'
  <2> DEFINE nextZ == z[w] + scan.stride
  <2>1. z' \in [Workers -> 0 .. (BlockStride - 1)]
    <3>1. CASE GoesOn(w, nextZ)
      <4>1. nextZ \in 0 .. (BlockStride - 1)
        BY <3>1, <1>s DEF GoesOn, TypeOK
      <4>2. z' = [z EXCEPT ![w] = nextZ]
        BY <1>8, <3>1 DEF Visit
      <4> QED
        BY <4>1, <4>2 DEF TypeOK
    <3>2. CASE ~GoesOn(w, nextZ)
      <4>1. z' = [z EXCEPT ![w] = 0]
        BY <1>8, <3>2 DEF Visit
      <4> QED
        BY <4>1 DEF TypeOK
    <3> QED
      BY <3>1, <3>2
  <2>2. At(w) \in Nat \X Nat
    <3>1. /\ current_region[w] \in 1 .. NRegions
          /\ region_start_offsets[current_region[w]] <= offset[w]
          /\ region_start_offsets[current_region[w]] \in Nat
      BY <1>8 DEF Visit, TypeOK, InRegion, Layout
    <3>2. offset[w] \in Nat /\ z[w] \in Nat
      BY DEF TypeOK
    <3> QED
      BY <3>1, <3>2 DEF At
  <2> QED
    <3>1. pc' \in [Workers -> {"new", "claim", "visit", "done"}]
      BY <1>8 DEF Visit, TypeOK
    <3>2. /\ visited' \subseteq Nat \X Nat
          /\ main' = main \/ main' = "terminated"
      BY <1>8, <2>2 DEF Visit, TypeOK
    <3>3. UNCHANGED <<scan, region_start_offsets, progress_current_region,
                      current_offset, offset, current_region>>
      BY <1>8 DEF Visit
    <3> QED
      BY <2>1, <3>1, <3>2, <3>3 DEF TypeOK
<1>9. CASE UNCHANGED vars
  BY <1>9 DEF vars, callerVars, workerVars, TypeOK
<1> QED
  BY <1>1, <1>2, <1>3, <1>4, <1>5, <1>6, <1>7, <1>8, <1>9
     DEF Next, Caller, Worker, Over

----------------------------------------------------------------------------
(* The layout is the prefix sums, whatever step is taken. *)
LEMMA LayoutInit == Init => Layout
  BY ScansAssumption DEF Init, Layout, NRegions

LEMMA LayoutNext == TypeOK /\ Layout /\ [Next]_vars => Layout'
<1> SUFFICES ASSUME TypeOK, Layout, [Next]_vars PROVE Layout'
  OBVIOUS
<1>s. /\ scan \in [regions : Seq(Nat), stride : Nat, object_size : Nat \ {0}]
      /\ NRegions \in Nat
      /\ region_start_offsets \in Seq(Nat)
      /\ Len(region_start_offsets) \in Nat \ {0}
      /\ Total \in Nat
  BY ScansAssumption DEF TypeOK, NRegions, Total
<1>1. CASE Measure
  <2>1. CASE scan.regions[Len(region_start_offsets)] = 0
    BY <1>1, <2>1 DEF Measure, Layout, NRegions, workerVars
  <2>2. CASE scan.regions[Len(region_start_offsets)] # 0
    <3> DEFINE n    == Len(region_start_offsets)
               rso  == region_start_offsets
               size == scan.regions[n]
    <3>1. n <= NRegions /\ UNCHANGED <<scan, pc>>
      BY <1>1 DEF Measure, workerVars
    <3>2. size \in Nat
      BY <1>s, <3>1 DEF NRegions
    <3>3. rso' = Append(rso, Total + size)
      BY <1>1, <2>2 DEF Measure
    <3>4. /\ Len(rso') = n + 1
          /\ rso'[n + 1] = rso[n] + size
          /\ \A i \in 1 .. n : rso'[i] = rso[i] /\ rso[i] \in Nat
      BY <1>s, <3>2, <3>3 DEF Total
    <3>5. \A i, j \in 1 .. n : i <= j => rso[i] <= rso[j]
      BY DEF Layout
    <3>6. \A i, j \in 1 .. (n + 1) : i <= j => rso'[i] <= rso'[j]
      <4> SUFFICES ASSUME NEW i \in 1 .. (n + 1), NEW j \in 1 .. (n + 1), i <= j
                   PROVE  rso'[i] <= rso'[j]
        OBVIOUS
      <4>1. CASE j \in 1 .. n
        <5>1. i \in 1 .. n
          BY <1>s, <4>1
        <5>2. rso[i] <= rso[j]
          BY <3>5, <4>1, <5>1
        <5> QED
          BY <3>4, <4>1, <5>1, <5>2
      <4>2. CASE j = n + 1 /\ i \in 1 .. n
        <5>1. rso[i] <= rso[n]
          BY <1>s, <3>5, <4>2
        <5> QED
          BY <1>s, <3>2, <3>4, <4>2, <5>1
      <4>3. CASE j = n + 1 /\ i = n + 1
        BY <1>s, <3>2, <3>4, <4>3
      <4> QED
        BY <1>s, <4>1, <4>2, <4>3
    <3>7. \A i \in 1 .. n : rso'[i + 1] = rso'[i] + scan.regions[i]
      <4> SUFFICES ASSUME NEW i \in 1 .. n
                   PROVE  rso'[i + 1] = rso'[i] + scan.regions[i]
        OBVIOUS
      <4>1. CASE i = n
        BY <1>s, <3>4, <4>1
      <4>2. CASE i # n
        <5>1. i \in 1 .. (n - 1) /\ i + 1 \in 1 .. n
          BY <1>s, <4>2
        <5> QED
          BY <3>4, <5>1 DEF Layout
      <4> QED
        BY <4>1, <4>2
    <3>8. \A w \in Workers : pc[w] = "new"
      BY <1>s, <3>1 DEF Layout
    <3> QED
      <4>1. NRegions' = NRegions /\ \A w \in Workers : pc'[w] = "new"
        BY <3>1, <3>8 DEF NRegions
      <4>2. Len(rso') - 1 = n /\ Len(rso') <= NRegions + 1
        BY <1>s, <3>1, <3>4
      <4>3. rso'[1] = 0
        BY <1>s, <3>4 DEF Layout
      <4> QED
        BY <3>1, <3>4, <3>6, <3>7, <4>1, <4>2, <4>3 DEF Layout
  <2> QED
    BY <2>1, <2>2
<1>2. ASSUME NEW w \in Workers, StartThread(w) PROVE Layout'
  BY <1>2 DEF StartThread, Layout, NRegions, TypeOK
<1>3. ASSUME NEW w \in Workers, Worker(w) PROVE Layout'
  <2>1. pc[w] # "new" /\ UNCHANGED <<scan, region_start_offsets>>
    BY <1>3 DEF Worker, Claim, Visit, callerVars
  <2>2. \A v \in Workers : pc'[v] # "new" => pc[v] # "new"
    <3>1. \A v \in Workers \ {w} : pc'[v] = pc[v]
      BY <1>3 DEF Worker, Claim, Visit, TypeOK
    <3> QED
      BY <2>1, <3>1
  <2> QED
    BY <2>1, <2>2 DEF Layout, NRegions
<1>4. CASE UNCHANGED <<scan, region_start_offsets, pc>>
  BY <1>4 DEF Layout, NRegions
<1>5. Refuse \/ ShowProgress \/ StopProgress \/ Join \/ Over \/ UNCHANGED vars
        => UNCHANGED <<scan, region_start_offsets, pc>>
  BY DEF Refuse, ShowProgress, StopProgress, Join, Over, vars, callerVars, workerVars
<1> QED
  BY <1>1, <1>2, <1>3, <1>4, <1>5 DEF Next, Caller

----------------------------------------------------------------------------
(* Each worker's region holds the start of its block. *)
LEMMA InRegionInit == Init => InRegion
<1> SUFFICES ASSUME Init PROVE InRegion
  OBVIOUS
<1>1. \A w \in Workers : current_region[w] = 1 /\ pc[w] = "new"
  BY DEF Init
<1>2. Len(region_start_offsets) = 1 /\ region_start_offsets[1] = 0 /\ current_offset = 0
  BY DEF Init
<1>3. ASSUME NEW w \in Workers
      PROVE  /\ current_region[w] <= Len(region_start_offsets)
             /\ region_start_offsets[current_region[w]] <= current_offset
             /\ pc[w] # "visit"
  BY <1>1, <1>2
<1> QED
  BY <1>3 DEF InRegion

\* The start offsets of a laid-out region are numbers.
LEMMA Starts ==
  ASSUME TypeOK, Layout
  PROVE  /\ scan \in [regions : Seq(Nat), stride : Nat, object_size : Nat \ {0}]
         /\ NRegions \in Nat
         /\ region_start_offsets \in Seq(Nat)
         /\ Len(region_start_offsets) \in Nat \ {0}
         /\ \A i \in 1 .. Len(region_start_offsets) : region_start_offsets[i] \in Nat
  BY ScansAssumption DEF TypeOK, NRegions

\* What Claim does, one case at a time.
LEMMA ClaimCases ==
  ASSUME TypeOK, Layout, InRegion, NEW w \in Workers, Claim(w)
  PROVE  /\ pc[w] = "claim"
         /\ current_offset' = current_offset + BlockStride
         /\ offset' = [offset EXCEPT ![w] = current_offset]
         /\ UNCHANGED <<scan, region_start_offsets, z, visited>>
         /\ \A v \in Workers \ {w} : /\ pc'[v] = pc[v]
                                     /\ offset'[v] = offset[v]
                                     /\ current_region'[v] = current_region[v]
         /\ \/ /\ pc'[w] = "done"
               /\ ~(current_offset < Total)
               /\ current_region'[w] = current_region[w]
            \/ /\ pc'[w] = IF current_offset <= LastStart(current_region'[w])
                          THEN "visit" ELSE "claim"
               /\ pc'[w] \in {"visit", "claim"}
               /\ current_offset < Total
               /\ current_region'[w] \in 1 .. NRegions
               /\ region_start_offsets[current_region'[w]] <= current_offset
               /\ current_offset < region_start_offsets[current_region'[w] + 1]
<1>1. /\ pc[w] = "claim"
      /\ current_offset' = current_offset + BlockStride
      /\ offset' = [offset EXCEPT ![w] = current_offset]
      /\ UNCHANGED <<scan, region_start_offsets, z, visited>>
  BY DEF Claim, NextBlock, callerVars
<1>2. \A v \in Workers \ {w} : offset'[v] = offset[v]
  BY <1>1 DEF TypeOK
<1>3. CASE current_offset < Total
  <2>1. PICK r \in 1 .. NRegions :
          /\ Seeks(current_region[w], current_offset, r)
          /\ current_region' = [current_region EXCEPT ![w] = r]
          /\ pc' = [pc EXCEPT ![w] = IF current_offset <= LastStart(r)
                                     THEN "visit" ELSE "claim"]
    BY <1>3 DEF Claim, BlocksLeft
  <2>2. /\ current_region'[w] = r
        /\ pc'[w] = IF current_offset <= LastStart(r) THEN "visit" ELSE "claim"
        /\ pc'[w] \in {"visit", "claim"}
        /\ \A v \in Workers \ {w} : /\ pc'[v] = pc[v]
                                    /\ current_region'[v] = current_region[v]
    BY <2>1 DEF TypeOK
  <2>3. current_offset < region_start_offsets[r + 1]
    BY <2>1 DEF Seeks
  <2>4. region_start_offsets[r] <= current_offset
    <3>1. CASE r = current_region[w]
      BY <3>1 DEF InRegion
    <3>2. CASE r # current_region[w]
      <4>1. r - 1 \in current_region[w] .. (r - 1) /\ r - 1 + 1 = r
        BY <2>1, <3>2, ScansAssumption DEF Seeks, TypeOK, NRegions
      <4>2. region_start_offsets[r] \in Nat
        <5>1. Len(region_start_offsets) = NRegions + 1
          BY <1>1 DEF Layout
        <5> QED
          BY <5>1, Starts
      <4> QED
        BY <2>1, <4>1, <4>2 DEF Seeks, TypeOK
    <3> QED
      BY <3>1, <3>2
  <2> QED
    BY <1>1, <1>2, <1>3, <2>2, <2>3, <2>4
<1>4. CASE ~(current_offset < Total)
  <2>1. pc' = [pc EXCEPT ![w] = "done"] /\ UNCHANGED current_region
    BY <1>4 DEF Claim, BlocksLeft
  <2> QED
    BY <1>1, <1>2, <1>4, <2>1 DEF TypeOK
<1> QED
  BY <1>3, <1>4

\* What Visit does to the state other workers depend on.
LEMMA VisitCases ==
  ASSUME TypeOK, NEW w \in Workers, Visit(w)
  PROVE  /\ pc[w] = "visit"
         /\ UNCHANGED <<scan, region_start_offsets, current_offset, offset,
                        current_region>>
         /\ visited' = visited \/ visited' = visited \cup {At(w)}
         /\ \A v \in Workers \ {w} : pc'[v] = pc[v] /\ z'[v] = z[v]
         /\ \/ /\ pc'[w] = "claim"
               /\ z'[w] = 0
               /\ ~GoesOn(w, z[w] + scan.stride)
            \/ /\ pc'[w] = "visit"
               /\ z'[w] = z[w] + scan.stride
               /\ GoesOn(w, z[w] + scan.stride)
<1>1. CASE GoesOn(w, z[w] + scan.stride)
  BY <1>1 DEF Visit, TypeOK
<1>2. CASE ~GoesOn(w, z[w] + scan.stride)
  BY <1>2 DEF Visit, TypeOK
<1> QED
  BY <1>1, <1>2

\* The steps that leave alone what the invariant is about.
LEMMA OtherSteps ==
  Refuse \/ ShowProgress \/ StopProgress \/ Join \/ Over \/ UNCHANGED vars
    => UNCHANGED <<scan, region_start_offsets, current_offset, workerVars, visited>>
  BY DEF Refuse, ShowProgress, StopProgress, Join, Over, vars, callerVars, workerVars

\* Measuring a region moves no region measured before.
LEMMA MeasureCases ==
  ASSUME TypeOK, Layout, Measure
  PROVE  /\ UNCHANGED <<scan, current_offset, workerVars, visited>>
         /\ Len(region_start_offsets) <= Len(region_start_offsets')
         /\ \A i \in 1 .. Len(region_start_offsets) :
              region_start_offsets'[i] = region_start_offsets[i]
         /\ \A w \in Workers : pc[w] = "new"
<1>s. /\ scan \in [regions : Seq(Nat), stride : Nat, object_size : Nat \ {0}]
      /\ region_start_offsets \in Seq(Nat)
      /\ Total \in Nat
      /\ Len(region_start_offsets) \in 1 .. NRegions
      /\ NRegions \in Nat
  BY ScansAssumption DEF TypeOK, NRegions, Total, Measure
<1>1. \A w \in Workers : pc[w] = "new"
  <2>1. Len(region_start_offsets) # NRegions + 1
    BY <1>s
  <2> QED
    BY <2>1 DEF Layout
<1>2. CASE scan.regions[Len(region_start_offsets)] = 0
  BY <1>1, <1>2, <1>s DEF Measure
<1>3. CASE scan.regions[Len(region_start_offsets)] # 0
  <2> DEFINE size == scan.regions[Len(region_start_offsets)]
  <2>1. size \in Nat
    BY <1>s DEF NRegions
  <2>2. region_start_offsets' = Append(region_start_offsets, Total + size)
    BY <1>3 DEF Measure
  <2>3. UNCHANGED <<scan, current_offset, workerVars, visited>>
    BY DEF Measure
  <2> QED
    BY <1>s, <1>1, <2>1, <2>2, <2>3
<1> QED
  BY <1>2, <1>3

LEMMA InRegionNext == TypeOK /\ Layout /\ InRegion /\ [Next]_vars => InRegion'
<1> SUFFICES ASSUME TypeOK, Layout, InRegion, [Next]_vars PROVE InRegion'
  OBVIOUS
<1> USE BlockStrideAssumption
<1>s. /\ scan \in [regions : Seq(Nat), stride : Nat, object_size : Nat \ {0}]
      /\ NRegions \in Nat
      /\ region_start_offsets \in Seq(Nat)
      /\ \A w \in Workers :
           /\ current_region[w] \in 1 .. Len(region_start_offsets)
           /\ region_start_offsets[current_region[w]] \in Nat
  BY ScansAssumption DEF TypeOK, NRegions, InRegion
<1>1. CASE Measure
  <2>1. UNCHANGED <<pc, current_region, current_offset>>
    BY <1>1, MeasureCases DEF workerVars
  <2>2. \A w \in Workers : pc[w] = "new"
    BY <1>1, MeasureCases
  <2>3. Len(region_start_offsets) <= Len(region_start_offsets')
    BY <1>1, MeasureCases
  <2>4. \A w \in Workers : region_start_offsets'[current_region[w]]
                             = region_start_offsets[current_region[w]]
    BY <1>1, <1>s, MeasureCases
  <2>5. Len(region_start_offsets') \in Nat
    <3>1. TypeOK'
      BY TypeNext
    <3> QED
      BY <3>1 DEF TypeOK
  <2> QED
    BY <1>s, <2>1, <2>2, <2>3, <2>4, <2>5 DEF InRegion
<1>2. ASSUME NEW w \in Workers, StartThread(w) PROVE InRegion'
  BY <1>2 DEF StartThread, InRegion, NRegions, TypeOK
<1>3. ASSUME NEW w \in Workers, Claim(w) PROVE InRegion'
  <2> SUFFICES ASSUME NEW v \in Workers
               PROVE  /\ current_region'[v] <= Len(region_start_offsets')
                      /\ region_start_offsets'[current_region'[v]] <= current_offset'
                      /\ pc'[v] = "visit" =>
                           /\ current_region'[v] <= NRegions'
                           /\ region_start_offsets'[current_region'[v]] <= offset'[v]
                           /\ offset'[v] < region_start_offsets'[current_region'[v] + 1]
    BY DEF InRegion
  <2>1. /\ current_offset \in Nat /\ current_offset' = current_offset + BlockStride
        /\ UNCHANGED <<scan, region_start_offsets, NRegions>>
        /\ pc[w] = "claim"
    BY <1>3, ClaimCases DEF TypeOK, NRegions
  <2>2. CASE v = w
    <3>1. offset'[w] = current_offset
      BY <1>3, ClaimCases DEF TypeOK
    <3>2. CASE pc'[w] = "done" /\ current_region'[w] = current_region[w]
      BY <1>s, <2>1, <2>2, <3>2 DEF InRegion
    <3>3. CASE /\ current_region'[w] \in 1 .. NRegions
               /\ region_start_offsets[current_region'[w]] <= current_offset
               /\ current_offset < region_start_offsets[current_region'[w] + 1]
      <4>1. Len(region_start_offsets) = NRegions + 1
        BY <2>1 DEF Layout
      <4>2. region_start_offsets[current_region'[w]] \in Nat
        BY <3>3, <4>1, Starts
      <4>3. current_region'[w] <= Len(region_start_offsets)
        BY <1>s, <3>3, <4>1
      <4>4. region_start_offsets[current_region'[w]] <= current_offset + BlockStride
        BY <2>1, <3>3, <4>2
      <4> QED
        BY <2>1, <2>2, <3>1, <3>3, <4>3, <4>4
    <3> QED
      BY <1>3, <3>2, <3>3, ClaimCases
  <2>3. CASE v # w
    <3>1. /\ pc'[v] = pc[v] /\ offset'[v] = offset[v]
          /\ current_region'[v] = current_region[v]
      BY <1>3, <2>3, ClaimCases
    <3> QED
      BY <1>s, <2>1, <3>1 DEF InRegion
  <2> QED
    BY <2>2, <2>3
<1>4. ASSUME NEW w \in Workers, Visit(w) PROVE InRegion'
  <2>1. /\ UNCHANGED <<scan, region_start_offsets, current_offset, offset,
                       current_region, NRegions>>
        /\ \A v \in Workers : pc'[v] = "visit" => pc[v] = "visit"
    BY <1>4, VisitCases DEF NRegions
  <2> QED
    BY <2>1 DEF InRegion
<1>5. CASE UNCHANGED <<scan, region_start_offsets, current_offset, workerVars, visited>>
  BY <1>5 DEF InRegion, workerVars, NRegions
<1> QED
  BY <1>1, <1>2, <1>3, <1>4, <1>5, OtherSteps DEF Next, Caller, Worker

----------------------------------------------------------------------------
(* Blocks are claimed once: fetch_add hands out disjoint blocks. *)
LEMMA BlocksNext ==
  TypeOK /\ Layout /\ InRegion /\ BlocksDisjoint /\ [Next]_vars => BlocksDisjoint'
<1> SUFFICES ASSUME TypeOK, Layout, InRegion, BlocksDisjoint, [Next]_vars
             PROVE  BlocksDisjoint'
  OBVIOUS
<1> USE BlockStrideAssumption
<1>1. CASE UNCHANGED <<pc, offset, current_offset>>
  BY <1>1 DEF BlocksDisjoint
<1>2. ASSUME NEW w \in Workers, StartThread(w) PROVE BlocksDisjoint'
  BY <1>2 DEF StartThread, BlocksDisjoint, TypeOK
<1>3. ASSUME NEW w \in Workers, Claim(w) PROVE BlocksDisjoint'
  <2>1. /\ current_offset \in Nat /\ current_offset' = current_offset + BlockStride
        /\ offset' = [offset EXCEPT ![w] = current_offset]
        /\ offset \in [Workers -> Nat]
        /\ \A v \in Workers \ {w} : pc'[v] = pc[v]
    BY <1>3, ClaimCases DEF TypeOK
  <2>2. \A v \in Workers \ {w} : pc'[v] = "visit" =>
          offset'[v] = offset[v] /\ offset[v] + BlockStride <= current_offset
    BY <2>1 DEF BlocksDisjoint
  <2>3. offset'[w] = current_offset
    BY <2>1
  <2> SUFFICES ASSUME NEW u \in Workers, pc'[u] = "visit"
               PROVE  /\ offset'[u] + BlockStride <= current_offset'
                      /\ \A v \in Workers \ {u} : pc'[v] = "visit" =>
                           \/ offset'[u] + BlockStride <= offset'[v]
                           \/ offset'[v] + BlockStride <= offset'[u]
    BY DEF BlocksDisjoint
  <2>4. CASE u = w
    BY <2>1, <2>2, <2>3, <2>4
  <2>5. CASE u # w
    <3>1. offset'[u] = offset[u] /\ offset[u] + BlockStride <= current_offset
      BY <2>2, <2>5
    <3>2. ASSUME NEW v \in Workers \ {u}, pc'[v] = "visit"
          PROVE  \/ offset'[u] + BlockStride <= offset'[v]
                 \/ offset'[v] + BlockStride <= offset'[u]
      <4>1. CASE v = w
        BY <2>3, <3>1, <4>1
      <4>2. CASE v # w
        BY <2>1, <2>2, <2>5, <3>1, <3>2, <4>2 DEF BlocksDisjoint
      <4> QED
        BY <4>1, <4>2
    <3> QED
      BY <2>1, <3>1, <3>2
  <2> QED
    BY <2>4, <2>5
<1>4. ASSUME NEW w \in Workers, Visit(w) PROVE BlocksDisjoint'
  <2>1. /\ UNCHANGED <<current_offset, offset>>
        /\ \A v \in Workers : pc'[v] = "visit" => pc[v] = "visit"
    BY <1>4, VisitCases
  <2> QED
    BY <2>1 DEF BlocksDisjoint
<1>5. Measure => UNCHANGED <<pc, offset, current_offset>>
  BY DEF Measure, workerVars
<1> QED
  BY <1>1, <1>2, <1>3, <1>4, <1>5, OtherSteps DEF Next, Caller, Worker, workerVars

----------------------------------------------------------------------------
(* What has been visited is behind the counter and behind every worker. *)

\* The address a worker is at lies in a region, and its place is the worker's
\* position in its block.
LEMMA PlaceOfAt ==
  ASSUME TypeOK, Layout, InRegion, NEW w \in Workers, pc[w] = "visit"
  PROVE  /\ At(w) \in (1 .. NRegions) \X Nat
         /\ At(w)[1] < Len(region_start_offsets)
         /\ Place(At(w)) = offset[w] + z[w]
<1>1. Len(region_start_offsets) = NRegions + 1
  BY DEF Layout
<1>2. /\ current_region[w] \in 1 .. NRegions
      /\ region_start_offsets[current_region[w]] <= offset[w]
  BY DEF InRegion, TypeOK
<1>3. region_start_offsets[current_region[w]] \in Nat
  BY <1>1, <1>2, Starts
<1>4. offset[w] \in Nat /\ z[w] \in Nat
  BY DEF TypeOK
<1>5. At(w)[1] = current_region[w]
      /\ At(w)[2] = offset[w] - region_start_offsets[current_region[w]] + z[w]
  BY DEF At
<1>6. At(w)[2] \in Nat /\ At(w) \in (1 .. NRegions) \X Nat
  BY <1>2, <1>3, <1>4 DEF At
<1>7. Place(At(w)) = offset[w] + z[w]
  BY <1>3, <1>4, <1>5 DEF Place
<1> QED
  BY <1>1, <1>2, <1>5, <1>6, <1>7, Starts

\* An address that has been visited is not one a worker is at.
LEMMA NotYetVisited ==
  ASSUME TypeOK, Layout, InRegion, VisitedBehind,
         NEW w \in Workers, pc[w] = "visit"
  PROVE  At(w) \notin visited
<1>1. offset[w] \in Nat /\ z[w] \in 0 .. (BlockStride - 1)
  BY DEF TypeOK
<1> SUFFICES ASSUME At(w) \in visited PROVE FALSE
  OBVIOUS
<1>2. \/ Place(At(w)) < offset[w] + z[w]
      \/ offset[w] + BlockStride <= Place(At(w))
  BY DEF VisitedBehind
<1> QED
  BY <1>1, <1>2, PlaceOfAt, BlockStrideAssumption

LEMMA VisitedNext ==
  /\ TypeOK /\ Layout /\ InRegion /\ BlocksDisjoint /\ scan.stride > 0
  /\ VisitedBehind /\ [Next]_vars
  => VisitedBehind'
<1> SUFFICES ASSUME TypeOK, Layout, InRegion, BlocksDisjoint, scan.stride > 0,
                    VisitedBehind, [Next]_vars
             PROVE  VisitedBehind'
  OBVIOUS
<1> USE BlockStrideAssumption
<1>s. /\ NRegions \in Nat /\ current_offset \in Nat /\ scan.stride \in Nat
      /\ offset \in [Workers -> Nat] /\ z \in [Workers -> 0 .. (BlockStride - 1)]
      /\ \A i \in 1 .. Len(region_start_offsets) : region_start_offsets[i] \in Nat
      /\ \A a \in visited : a[2] \in Nat
  BY Starts DEF TypeOK
<1>p. \A a \in visited : Place(a) \in Nat
  <2> SUFFICES ASSUME NEW a \in visited PROVE Place(a) \in Nat
    OBVIOUS
  <2>1. a[1] \in 1 .. Len(region_start_offsets)
    BY <1>s, Starts DEF VisitedBehind
  <2> QED
    BY <1>s, <2>1 DEF Place
<1>1. CASE Measure
  <2>1. \A a \in visited : Place(a)' = Place(a) /\ a[1] < Len(region_start_offsets')
    <3> SUFFICES ASSUME NEW a \in visited
                 PROVE  Place(a)' = Place(a) /\ a[1] < Len(region_start_offsets')
      OBVIOUS
    <3>1. a[1] \in 1 .. Len(region_start_offsets) /\ a[1] < Len(region_start_offsets)
      BY <1>s, Starts DEF VisitedBehind
    <3>2. Len(region_start_offsets') \in Nat
      <4>1. TypeOK'
        BY TypeNext
      <4> QED
        BY <4>1 DEF TypeOK
    <3> QED
      BY <1>1, <3>1, <3>2, MeasureCases, Starts DEF Place
  <2>2. UNCHANGED <<scan, current_offset, pc, offset, z, visited, NRegions>>
    BY <1>1, MeasureCases DEF workerVars, NRegions
  <2> QED
    BY <2>1, <2>2 DEF VisitedBehind
<1>2. ASSUME NEW w \in Workers, StartThread(w) PROVE VisitedBehind'
  BY <1>2 DEF StartThread, VisitedBehind, Place, NRegions, TypeOK
<1>3. ASSUME NEW w \in Workers, Claim(w) PROVE VisitedBehind'
  <2>1. /\ current_offset' = current_offset + BlockStride
        /\ UNCHANGED <<scan, region_start_offsets, z, visited, NRegions>>
        /\ \A v \in Workers \ {w} : pc'[v] = pc[v] /\ offset'[v] = offset[v]
        /\ offset'[w] = current_offset
        /\ z[w] >= 0
    BY <1>3, <1>s, ClaimCases DEF NRegions
  <2> SUFFICES ASSUME NEW a \in visited
               PROVE  /\ a[1] \in 1 .. NRegions
                      /\ a[1] < Len(region_start_offsets)
                      /\ Place(a) < current_offset + BlockStride
                      /\ \A v \in Workers : pc'[v] = "visit" =>
                           \/ Place(a) < offset'[v] + z[v]
                           \/ offset'[v] + BlockStride <= Place(a)
    BY <2>1 DEF VisitedBehind, Place
  <2>2. /\ a[1] \in 1 .. NRegions
        /\ a[1] < Len(region_start_offsets)
        /\ Place(a) < current_offset
    BY DEF VisitedBehind
  <2>3. ASSUME NEW v \in Workers, pc'[v] = "visit"
        PROVE  Place(a) < offset'[v] + z[v] \/ offset'[v] + BlockStride <= Place(a)
    <3>1. CASE v = w
      BY <1>s, <1>p, <2>1, <2>2, <3>1
    <3>2. CASE v # w
      BY <2>1, <2>3, <3>2 DEF VisitedBehind
    <3> QED
      BY <3>1, <3>2
  <2> QED
    BY <1>s, <1>p, <2>2, <2>3
<1>4. ASSUME NEW w \in Workers, Visit(w) PROVE VisitedBehind'
  <2>1. /\ pc[w] = "visit"
        /\ UNCHANGED <<scan, region_start_offsets, current_offset, offset, NRegions>>
        /\ \A v \in Workers \ {w} : pc'[v] = pc[v] /\ z'[v] = z[v]
        /\ pc'[w] = "claim" \/ (pc'[w] = "visit" /\ z'[w] = z[w] + scan.stride)
        /\ visited' \subseteq visited \cup {At(w)}
    BY <1>4, VisitCases DEF NRegions
  <2>2. At(w) \in (1 .. NRegions) \X Nat /\ Place(At(w)) = offset[w] + z[w]
        /\ At(w)[1] < Len(region_start_offsets)
    BY <2>1, PlaceOfAt
  <2>3. offset[w] + BlockStride <= current_offset
    BY <2>1 DEF BlocksDisjoint
  <2> SUFFICES ASSUME NEW a \in visited \cup {At(w)}
               PROVE  /\ a[1] \in 1 .. NRegions
                      /\ a[1] < Len(region_start_offsets)
                      /\ Place(a) < current_offset
                      /\ \A v \in Workers : pc'[v] = "visit" =>
                           \/ Place(a) < offset[v] + z'[v]
                           \/ offset[v] + BlockStride <= Place(a)
    BY <2>1 DEF VisitedBehind, Place
  <2>4. CASE a \in visited
    <3>1. /\ a[1] \in 1 .. NRegions
          /\ a[1] < Len(region_start_offsets)
          /\ Place(a) < current_offset
      BY <2>4 DEF VisitedBehind
    <3>2. ASSUME NEW v \in Workers, pc'[v] = "visit"
          PROVE  Place(a) < offset[v] + z'[v] \/ offset[v] + BlockStride <= Place(a)
      <4>1. pc[v] = "visit" /\ (z'[v] = z[v] \/ z'[v] = z[v] + scan.stride)
        BY <2>1, <3>2
      <4>2. Place(a) < offset[v] + z[v] \/ offset[v] + BlockStride <= Place(a)
        BY <2>4, <4>1 DEF VisitedBehind
      <4> QED
        BY <1>s, <1>p, <2>4, <4>1, <4>2
    <3> QED
      BY <3>1, <3>2
  <2>5. CASE a = At(w)
    <3>1. Place(a) = offset[w] + z[w] /\ offset[w] \in Nat
          /\ z[w] \in 0 .. (BlockStride - 1)
      BY <1>s, <2>2, <2>5
    <3>2. Place(a) < current_offset
      BY <1>s, <2>3, <3>1
    <3>3. ASSUME NEW v \in Workers, pc'[v] = "visit"
          PROVE  Place(a) < offset[v] + z'[v] \/ offset[v] + BlockStride <= Place(a)
      <4>1. CASE v = w
        <5>1. z'[w] = z[w] + scan.stride
          BY <2>1, <3>3, <4>1
        <5> QED
          BY <1>s, <3>1, <4>1, <5>1
      <4>2. CASE v # w
        <5>1. /\ pc[v] = "visit" /\ z'[v] = z[v]
              /\ offset[v] \in Nat /\ z[v] \in 0 .. (BlockStride - 1)
          BY <1>s, <2>1, <3>3, <4>2
        <5>2. \/ offset[w] + BlockStride <= offset[v]
              \/ offset[v] + BlockStride <= offset[w]
          BY <2>1, <4>2, <5>1 DEF BlocksDisjoint
        <5> QED
          BY <3>1, <5>1, <5>2
      <4> QED
        BY <4>1, <4>2
    <3> QED
      BY <2>2, <2>5, <3>2, <3>3
  <2> QED
    BY <2>4, <2>5
<1>5. CASE UNCHANGED <<scan, region_start_offsets, current_offset, workerVars, visited>>
  BY <1>5 DEF VisitedBehind, Place, workerVars, NRegions
<1> QED
  BY <1>1, <1>2, <1>3, <1>4, <1>5, OtherSteps DEF Next, Caller, Worker

----------------------------------------------------------------------------
LEMMA InvInit == Init => IInv
<1> SUFFICES ASSUME Init PROVE IInv
  OBVIOUS
<1>1. BlocksDisjoint /\ VisitedBehind
  BY DEF Init, BlocksDisjoint, VisitedBehind
<1> QED
  BY <1>1, TypeInit, LayoutInit, InRegionInit DEF IInv

LEMMA InvNext == IInv /\ [Next]_vars => IInv'
<1> SUFFICES ASSUME IInv, [Next]_vars PROVE IInv'
  OBVIOUS
<1>1. UNCHANGED scan
  BY DEF Next, Caller, Refuse, Measure, ShowProgress, StopProgress, Join,
         StartThread, Worker, Claim, Visit, Over, vars
<1> QED
  BY <1>1, TypeNext, LayoutNext, InRegionNext, BlocksNext, VisitedNext DEF IInv

LEMMA Invariance == Spec => []IInv
  BY InvInit, InvNext, PTL DEF Spec

\* Every reachable state is of its type (the scan's state, MemoryReader.hh:195-264).
THEOREM TypeCorrect == Spec => []TypeOK
<1>1. IInv => TypeOK
  BY DEF IInv
<1> QED
  BY <1>1, Invariance, PTL

\* The workers' blocks are disjoint, for any number of workers and any snapshot:
\* what makes the per-thread results of the commands safe to collect.
THEOREM DisjointBlocks == Spec => []BlocksDisjoint
<1>1. IInv => BlocksDisjoint
  BY DEF IInv
<1> QED
  BY <1>1, Invariance, PTL

\* No address is visited twice by any interleaving of any number of workers,
\* whatever the sizes of the regions: the results count each object once.
THEOREM VisitedOnce == Spec => NeverTwice
<1>1. IInv => \A w \in Workers : scan.stride > 0 /\ Visit(w) => At(w) \notin visited
  <2> SUFFICES ASSUME IInv, NEW w \in Workers, scan.stride > 0, Visit(w)
               PROVE  At(w) \notin visited
    OBVIOUS
  <2> QED
    BY NotYetVisited DEF IInv, Visit
<1> QED
  BY <1>1, Invariance, PTL DEF NeverTwice

----------------------------------------------------------------------------
(* Which addresses are visited, in a scan of whole pages. *)

\* What OnlyEligible and CompleteAtReturn suppose of a call.
Regular == WholePages /\ scan.stride > 0

\* The caller goes on only when there is a next step to take: the regions are
\* measured, then every block claimed, then every worker done.
Phases ==
  /\ \A i \in 1 .. (Len(region_start_offsets) - 1) : scan.regions[i] # 0
  /\ main \in {"progress", "join", "returned"} =>
       StrideAccepted /\ Len(region_start_offsets) = NRegions + 1
  /\ main \in {"join", "returned"} => ~BlocksLeft
  /\ main = "returned" => \A w \in Workers : pc[w] = "done"
  /\ main = "threw" => \A w \in Workers : pc[w] = "new"
  /\ \A w \in Workers : pc[w] = "done" => ~BlocksLeft
  /\ \A w \in Workers : pc[w] # "new" => StrideAccepted
  /\ (\A w \in Workers : pc[w] = "new") => current_offset = 0

\* Regions and blocks start at multiples of BlockStride, positions in a block
\* are multiples of the stride, and the object a worker is at ends within the
\* worker's region.
Aligned ==
  /\ current_offset % BlockStride = 0
  /\ \A i \in 1 .. Len(region_start_offsets) : region_start_offsets[i] % BlockStride = 0
  /\ \A w \in Workers :
       /\ offset[w] % BlockStride = 0
       /\ z[w] % scan.stride = 0
       /\ pc[w] # "visit" => z[w] = 0
       /\ pc[w] = "visit" =>
            offset[w] + z[w] <= region_start_offsets[current_region[w] + 1] - scan.object_size

\* An eligible address below the counter has been visited, or lies ahead of a
\* worker in the block it holds.
Covered ==
  \A a \in Eligible :
    a[1] < Len(region_start_offsets) /\ Place(a) < current_offset =>
      \/ a \in visited
      \/ \E w \in Workers :
           /\ pc[w] = "visit"
           /\ offset[w] + z[w] <= Place(a)
           /\ Place(a) < offset[w] + BlockStride

ScanInv ==
  /\ IInv
  /\ Phases
  /\ Regular => Aligned /\ OnlyEligible /\ Covered

(* Multiples. *)

\* A multiple of s, as a product.
LEMMA ModProduct ==
  ASSUME NEW s \in Nat \ {0}, NEW a \in Nat, a % s = 0
  PROVE  \E k \in Nat : a = k * s
  OBVIOUS

LEMMA ProductMod ==
  ASSUME NEW s \in Nat \ {0}, NEW k \in Nat
  PROVE  (k * s) % s = 0
  OBVIOUS

LEMMA ModPlus ==
  ASSUME NEW s \in Nat \ {0}, NEW a \in Nat, NEW b \in Nat, a % s = 0, b % s = 0
  PROVE  (a + b) % s = 0
<1>1. PICK j \in Nat : a = j * s
  BY ModProduct
<1>2. PICK k \in Nat : b = k * s
  BY ModProduct
<1>3. a + b = (j + k) * s
  BY <1>1, <1>2
<1>4. j + k \in Nat
  OBVIOUS
<1> QED
  BY <1>3, <1>4, ProductMod

LEMMA ModMinus ==
  ASSUME NEW s \in Nat \ {0}, NEW a \in Nat, NEW b \in Nat, a % s = 0, b % s = 0, b <= a
  PROVE  (a - b) % s = 0
<1>1. PICK j \in Nat : a = j * s
  BY ModProduct
<1>2. PICK k \in Nat : b = k * s
  BY ModProduct
<1>3. k <= j
  <2> SUFFICES ASSUME j + 1 <= k PROVE FALSE
    OBVIOUS
  <2>1. PICK d \in Nat : k = j + 1 + d
    <3> WITNESS k - j - 1 \in Nat
    <3> QED OBVIOUS
  <2>2. k * s = j * s + s + d * s
    BY <2>1
  <2>3. d * s >= 0
    OBVIOUS
  <2> QED
    BY <1>1, <1>2, <2>2, <2>3
<1>4. a - b = (j - k) * s
  BY <1>1, <1>2
<1>5. j - k \in Nat
  BY <1>3
<1> QED
  BY <1>4, <1>5, ProductMod

LEMMA ModNext ==
  ASSUME NEW s \in Nat \ {0}, NEW a \in Nat, NEW b \in Nat, a % s = 0, b % s = 0, a < b
  PROVE  a + s <= b
<1>1. a <= b /\ b - a \in Nat
  OBVIOUS
<1>2. (b - a) % s = 0
  BY <1>1, ModMinus
<1>3. PICK k \in Nat : b - a = k * s
  BY <1>1, <1>2, ModProduct
<1>4. k # 0
  <2> SUFFICES ASSUME k = 0 PROVE FALSE
    OBVIOUS
  <2>1. b - a = 0
    BY <1>3
  <2> QED
    BY <2>1
<1>5. k - 1 \in Nat
  BY <1>4
<1>6. b - a = (k - 1) * s + s
  BY <1>3, <1>5
<1>7. (k - 1) * s >= 0 /\ (k - 1) * s \in Int
  BY <1>5
<1> QED
  BY <1>6, <1>7

LEMMA ModDivides ==
  ASSUME NEW s \in Nat \ {0}, NEW m \in Nat \ {0}, NEW a \in Nat, m % s = 0, a % m = 0
  PROVE  a % s = 0
<1>1. PICK j \in Nat : m = j * s
  BY ModProduct
<1>2. PICK k \in Nat : a = k * m
  BY ModProduct
<1>3. a = (k * j) * s
  BY <1>1, <1>2
<1>4. k * j \in Nat
  OBVIOUS
<1> QED
  BY <1>3, <1>4, ProductMod

----------------------------------------------------------------------------
LEMMA PhasesInit == Init => Phases
<1> SUFFICES ASSUME Init PROVE Phases
  OBVIOUS
<1>1. /\ main = "setup" /\ Len(region_start_offsets) = 1
      /\ \A w \in Workers : pc[w] = "new"
  BY DEF Init
<1> QED
  BY <1>1 DEF Phases, Init

LEMMA PhasesNext == IInv /\ Phases /\ [Next]_vars => Phases'
<1> SUFFICES ASSUME IInv, Phases, [Next]_vars PROVE Phases'
  OBVIOUS
<1> USE BlockStrideAssumption
<1>i. TypeOK /\ Layout /\ InRegion
  BY DEF IInv
<1>s. /\ scan.regions \in Seq(Nat) /\ NRegions \in Nat
      /\ region_start_offsets \in Seq(Nat)
      /\ Len(region_start_offsets) \in Nat \ {0}
      /\ Total \in Nat /\ current_offset \in Nat
      /\ Len(region_start_offsets) <= NRegions + 1
  BY <1>i, Starts DEF TypeOK, Total, Layout
<1>1. CASE Refuse
  <2>1. main' = "threw" /\ UNCHANGED <<scan, region_start_offsets, current_offset, pc>>
    BY <1>1 DEF Refuse, workerVars
  <2>2. \A w \in Workers : pc[w] = "new"
    BY <1>1 DEF Refuse, Phases
  <2> QED
    BY <2>1, <2>2 DEF Phases, NRegions, Total, BlocksLeft, StrideAccepted
<1>2. CASE Measure
  <2>1. /\ UNCHANGED <<scan, pc, current_offset>> /\ StrideAccepted /\ main = "setup"
        /\ \A w \in Workers : pc[w] = "new"
    BY <1>2, <1>i, MeasureCases DEF Measure, workerVars
  <2>2. CASE scan.regions[Len(region_start_offsets)] = 0
    <3>1. main' = "threw" /\ UNCHANGED region_start_offsets
      BY <1>2, <2>2 DEF Measure
    <3> QED
      BY <2>1, <3>1 DEF Phases, NRegions, Total, BlocksLeft, StrideAccepted
  <2>3. CASE scan.regions[Len(region_start_offsets)] # 0
    <3> DEFINE size == scan.regions[Len(region_start_offsets)]
    <3>1. /\ region_start_offsets' = Append(region_start_offsets, Total + size)
          /\ main' = "setup"
      BY <1>2, <2>1, <2>3 DEF Measure
    <3>2. size \in Nat
      BY <1>2, <1>s DEF Measure, NRegions
    <3>3. Len(region_start_offsets') = Len(region_start_offsets) + 1
      BY <1>s, <3>1, <3>2
    <3>4. \A i \in 1 .. (Len(region_start_offsets') - 1) : scan.regions[i] # 0
      BY <1>s, <2>3, <3>3 DEF Phases
    <3> QED
      BY <2>1, <3>1, <3>4 DEF Phases, StrideAccepted
  <2> QED
    BY <2>2, <2>3
<1>3. CASE ShowProgress
  BY <1>3 DEF ShowProgress, Phases, workerVars, NRegions, Total, BlocksLeft, StrideAccepted
<1>4. CASE StopProgress
  BY <1>4 DEF StopProgress, Phases, workerVars, NRegions, Total, BlocksLeft, StrideAccepted
<1>5. CASE Join
  BY <1>5 DEF Join, Phases, workerVars, NRegions, Total, BlocksLeft, StrideAccepted
<1>6. ASSUME NEW w \in Workers, StartThread(w) PROVE Phases'
  <2>1. /\ StrideAccepted /\ Len(region_start_offsets) = NRegions + 1
        /\ main' \in {"setup", "progress"}
        /\ UNCHANGED <<scan, region_start_offsets, current_offset>>
        /\ \A v \in Workers : pc'[v] = "done" => pc[v] = "done"
        /\ pc'[w] # "new"
    BY <1>6, <1>i DEF StartThread, TypeOK
  <2> QED
    BY <2>1 DEF Phases, NRegions, Total, BlocksLeft, StrideAccepted
<1>7. ASSUME NEW w \in Workers, Claim(w) PROVE Phases'
  <2>1. /\ pc[w] = "claim"
        /\ current_offset' = current_offset + BlockStride
        /\ UNCHANGED <<scan, main, region_start_offsets>>
        /\ \A v \in Workers \ {w} : pc'[v] = pc[v]
        /\ pc'[w] = "done" => ~(current_offset < Total)
        /\ pc'[w] # "new"
    BY <1>7, <1>i, ClaimCases DEF Claim, callerVars
  <2>2. StrideAccepted' /\ NRegions' = NRegions /\ Total' = Total
    BY <2>1 DEF Phases, StrideAccepted, NRegions, Total
  <2>3. main # "returned" /\ main # "threw"
    BY <2>1 DEF Phases
  <2>4. ~BlocksLeft => ~BlocksLeft'
    BY <1>s, <2>1, <2>2 DEF BlocksLeft
  <2>5. \A v \in Workers : pc'[v] = "done" => ~BlocksLeft'
    <3>1. ~BlocksLeft => ~BlocksLeft'
      BY <2>4
    <3>2. pc'[w] = "done" => ~BlocksLeft
      BY <2>1 DEF BlocksLeft
    <3> QED
      BY <2>1, <3>1, <3>2 DEF Phases
  <2>6. main \in {"join", "returned"} => ~BlocksLeft
    BY DEF Phases
  <2>7. /\ main \in {"progress", "join", "returned"} => Len(region_start_offsets) = NRegions + 1
        /\ \A i \in 1 .. (Len(region_start_offsets) - 1) : scan.regions[i] # 0
    BY DEF Phases
  <2> QED
    BY <2>1, <2>2, <2>3, <2>4, <2>5, <2>6, <2>7 DEF Phases
<1>8. ASSUME NEW w \in Workers, Visit(w) PROVE Phases'
  <2>1. /\ pc[w] = "visit"
        /\ UNCHANGED <<scan, region_start_offsets, current_offset>>
        /\ \A v \in Workers \ {w} : pc'[v] = pc[v]
        /\ pc'[w] \in {"claim", "visit"}
        /\ main' = main \/ main' = "terminated"
    BY <1>8, <1>i, VisitCases DEF Visit
  <2>2. main # "returned" /\ main # "threw"
    BY <2>1 DEF Phases
  <2>3. \A v \in Workers : pc'[v] = "done" => pc[v] = "done"
    BY <2>1
  <2>4. \A v \in Workers : pc'[v] # "new" => pc[v] # "new"
    BY <2>1
  <2> QED
    BY <2>1, <2>2, <2>3, <2>4 DEF Phases, NRegions, Total, BlocksLeft, StrideAccepted
<1>9. CASE UNCHANGED vars
  BY <1>9 DEF vars, callerVars, workerVars, Phases, NRegions, Total, BlocksLeft, StrideAccepted
<1> QED
  BY <1>1, <1>2, <1>3, <1>4, <1>5, <1>6, <1>7, <1>8, <1>9
     DEF Next, Caller, Worker, Over

----------------------------------------------------------------------------
(* Objects lie inside their regions. *)

\* In a scan of whole pages an object is never larger than what lies before
\* the end of a region, so the subtraction of its size does not wrap.
LEMMA Ends ==
  ASSUME TypeOK, Layout, Regular, Len(region_start_offsets) = NRegions + 1,
         NEW r \in 1 .. NRegions
  PROVE  /\ region_start_offsets[r + 1] = region_start_offsets[r] + scan.regions[r]
         /\ LastStart(r) = region_start_offsets[r + 1] - scan.object_size
         /\ region_start_offsets[r] \in Nat
         /\ region_start_offsets[r + 1] \in Nat
         /\ scan.regions[r] \in Nat
         /\ scan.object_size \in Nat \ {0}
<1>1. /\ scan.regions \in Seq(Nat) /\ NRegions \in Nat
      /\ scan.object_size \in Nat \ {0}
      /\ \A i \in 1 .. (NRegions + 1) : region_start_offsets[i] \in Nat
  BY Starts
<1>2. \A i \in 1 .. NRegions :
        region_start_offsets[i + 1] = region_start_offsets[i] + scan.regions[i]
  BY <1>1 DEF Layout
<1>3. scan.object_size <= scan.regions[1]
  BY <1>1 DEF Regular, WholePages
<1>4. region_start_offsets[2] = scan.regions[1]
  <2>1. 1 \in 1 .. NRegions /\ region_start_offsets[1] = 0 /\ scan.regions[1] \in Nat
    BY <1>1 DEF Layout, NRegions
  <2> QED
    BY <1>2, <2>1
<1>5. region_start_offsets[2] <= region_start_offsets[r + 1]
  BY <1>1 DEF Layout
<1>6. scan.object_size <= region_start_offsets[r + 1]
  <2>1. region_start_offsets[2] \in Nat /\ region_start_offsets[r + 1] \in Nat
    BY <1>1
  <2> QED
    BY <1>1, <1>3, <1>4, <1>5, <2>1
<1>7. /\ region_start_offsets[r + 1] = region_start_offsets[r] + scan.regions[r]
      /\ region_start_offsets[r] \in Nat /\ region_start_offsets[r + 1] \in Nat
  <2>1. r \in 1 .. (NRegions + 1) /\ r + 1 \in 1 .. (NRegions + 1)
    BY <1>1
  <2> QED
    BY <1>1, <1>2, <2>1
<1>8. scan.regions[r] \in Nat
  BY <1>1 DEF NRegions
<1>9. LastStart(r) = region_start_offsets[r + 1] - scan.object_size
  BY <1>6 DEF LastStart
<1> QED
  BY <1>1, <1>7, <1>8, <1>9

\* A started worker's stride divides the block, and so whatever a block divides.
LEMMA Strides ==
  ASSUME TypeOK, Phases, Regular, NEW w \in Workers, pc[w] # "new"
  PROVE  /\ scan.stride \in Nat \ {0}
         /\ BlockStride % scan.stride = 0
         /\ \A n \in Nat : n % BlockStride = 0 => n % scan.stride = 0
<1>1. scan.stride \in Nat \ {0}
  BY ScansAssumption DEF TypeOK, Regular
<1>2. BlockStride % scan.stride = 0
  <2>1. StrideAccepted
    BY DEF Phases
  <2> QED
    BY <1>1, <2>1 DEF StrideAccepted
<1>3. ASSUME NEW n \in Nat, n % BlockStride = 0 PROVE n % scan.stride = 0
  BY <1>1, <1>2, <1>3, ModDivides, BlockStrideAssumption
<1> QED
  BY <1>1, <1>2, <1>3

\* Where a worker is, the object is inside the region, and aligned.
LEMMA AtEligible ==
  ASSUME IInv, Phases, Regular, Aligned, NEW w \in Workers, pc[w] = "visit"
  PROVE  Fits(w) /\ At(w) \in Eligible
<1> DEFINE r == current_region[w]
<1>i. TypeOK /\ Layout /\ InRegion
  BY DEF IInv
<1>1. Len(region_start_offsets) = NRegions + 1
  BY <1>i DEF Layout
<1>2. /\ r \in 1 .. NRegions
      /\ region_start_offsets[r] <= offset[w]
      /\ NRegions \in Nat
      /\ offset[w] \in Nat /\ z[w] \in Nat
  <2>1. r \in Nat \ {0} /\ offset[w] \in Nat /\ z[w] \in Nat
    BY <1>i DEF TypeOK
  <2> QED
    BY <1>i, <2>1, Starts DEF InRegion
<1>3. /\ region_start_offsets[r + 1] = region_start_offsets[r] + scan.regions[r]
      /\ region_start_offsets[r] \in Nat
      /\ scan.regions[r] \in Nat
      /\ scan.object_size \in Nat \ {0}
  BY <1>1, <1>2, <1>i, Ends
<1>4. offset[w] + z[w] <= region_start_offsets[r + 1] - scan.object_size
  BY DEF Aligned
<1> DEFINE o == offset[w] - region_start_offsets[r] + z[w]
<1>5. At(w) = <<r, o>> /\ o \in Nat
  BY <1>2, <1>3 DEF At
<1>6. o + scan.object_size <= scan.regions[r]
  BY <1>2, <1>3, <1>4
<1>7. o % scan.stride = 0
  <2>1. offset[w] % BlockStride = 0 /\ region_start_offsets[r] % BlockStride = 0
    <3>1. r \in 1 .. Len(region_start_offsets)
      BY <1>1, <1>2
    <3> QED
      BY <3>1 DEF Aligned
  <2>2. offset[w] % scan.stride = 0 /\ region_start_offsets[r] % scan.stride = 0
        /\ z[w] % scan.stride = 0
    BY <1>2, <1>3, <1>i, <2>1, Strides DEF Aligned
  <2>3. scan.stride \in Nat \ {0}
    BY <1>i, Strides
  <2>4. (offset[w] - region_start_offsets[r]) % scan.stride = 0
    BY <1>2, <1>3, <2>2, <2>3, ModMinus
  <2>5. offset[w] - region_start_offsets[r] \in Nat
    BY <1>2, <1>3
  <2> QED
    BY <1>2, <2>2, <2>3, <2>4, <2>5, ModPlus
<1>8. Fits(w)
  BY <1>5, <1>6 DEF Fits
<1>9. o \in 0 .. (scan.regions[r] - scan.object_size)
  BY <1>3, <1>5, <1>6
<1> QED
  BY <1>2, <1>5, <1>7, <1>8, <1>9 DEF Eligible

LEMMA AlignedNext ==
  IInv /\ Phases /\ Regular /\ Aligned /\ [Next]_vars => Aligned'
<1> SUFFICES ASSUME IInv, Phases, Regular, Aligned, [Next]_vars PROVE Aligned'
  OBVIOUS
<1>i. TypeOK /\ Layout /\ InRegion
  BY DEF IInv
<1>s. /\ scan.regions \in Seq(Nat) /\ NRegions \in Nat
      /\ region_start_offsets \in Seq(Nat)
      /\ Len(region_start_offsets) \in Nat \ {0}
      /\ Total \in Nat /\ current_offset \in Nat
      /\ scan.stride \in Nat \ {0}
      /\ BlockStride \in Nat \ {0}
      /\ Total % BlockStride = 0
      /\ BlockStride % BlockStride = 0
      /\ scan.stride % scan.stride = 0
  <2>1. /\ scan.stride \in Nat \ {0}
        /\ Total \in Nat /\ Total % BlockStride = 0
    BY <1>i, Starts DEF TypeOK, Total, Regular, Aligned
  <2>2. \A n \in Nat \ {0} : n % n = 0
    OBVIOUS
  <2> QED
    BY <1>i, <2>1, <2>2, Starts, BlockStrideAssumption DEF TypeOK
<1>1. CASE Measure
  <2>1. /\ UNCHANGED <<scan, current_offset, pc, offset, current_region, z>>
        /\ \A w \in Workers : pc[w] = "new"
    BY <1>1, <1>i, MeasureCases DEF workerVars
  <2>2. \A i \in 1 .. Len(region_start_offsets') : region_start_offsets'[i] % BlockStride = 0
    <3>1. CASE scan.regions[Len(region_start_offsets)] = 0
      <4>1. UNCHANGED region_start_offsets
        BY <1>1, <3>1 DEF Measure
      <4> QED
        BY <4>1 DEF Aligned
    <3>2. CASE scan.regions[Len(region_start_offsets)] # 0
      <4> DEFINE size == scan.regions[Len(region_start_offsets)]
      <4>1. region_start_offsets' = Append(region_start_offsets, Total + size)
        BY <1>1, <3>2 DEF Measure
      <4>2. size \in Nat /\ size % BlockStride = 0
        BY <1>1, <1>s DEF Measure, NRegions, Regular, WholePages
      <4>3. (Total + size) % BlockStride = 0
        BY <1>s, <4>2, ModPlus
      <4> SUFFICES ASSUME NEW i \in 1 .. Len(region_start_offsets')
                   PROVE  region_start_offsets'[i] % BlockStride = 0
        OBVIOUS
      <4>4. /\ Len(region_start_offsets') = Len(region_start_offsets) + 1
            /\ \/ i = Len(region_start_offsets') /\ region_start_offsets'[i] = Total + size
               \/ /\ i \in 1 .. Len(region_start_offsets)
                  /\ region_start_offsets'[i] = region_start_offsets[i]
        BY <1>s, <4>1, <4>2
      <4> QED
        BY <4>3, <4>4 DEF Aligned
    <3> QED
      BY <3>1, <3>2
  <2> QED
    BY <2>1, <2>2 DEF Aligned
<1>2. ASSUME NEW w \in Workers, StartThread(w) PROVE Aligned'
  <2>1. /\ UNCHANGED <<scan, region_start_offsets, current_offset, offset, z, current_region>>
        /\ \A v \in Workers : pc'[v] = "visit" <=> pc[v] = "visit"
    BY <1>2, <1>i DEF StartThread, TypeOK
  <2> QED
    BY <2>1 DEF Aligned
<1>3. ASSUME NEW w \in Workers, Claim(w) PROVE Aligned'
  <2>1. /\ pc[w] = "claim"
        /\ current_offset' = current_offset + BlockStride
        /\ offset'[w] = current_offset
        /\ UNCHANGED <<scan, region_start_offsets, z>>
        /\ \A v \in Workers \ {w} : /\ pc'[v] = pc[v]
                                    /\ offset'[v] = offset[v]
                                    /\ current_region'[v] = current_region[v]
    BY <1>3, <1>i, ClaimCases DEF TypeOK
  <2>2. (current_offset + BlockStride) % BlockStride = 0
    BY <1>s, ModPlus DEF Aligned
  <2>3. z[w] = 0
    BY <2>1 DEF Aligned
  <2>4. ASSUME pc'[w] = "visit"
        PROVE  offset'[w] + z[w]
                 <= region_start_offsets[current_region'[w] + 1] - scan.object_size
    <3>1. /\ current_region'[w] \in 1 .. NRegions
          /\ current_offset <= LastStart(current_region'[w])
      <4>1. "visit" # "done" /\ "visit" # "claim"
        OBVIOUS
      <4> QED
        BY <1>3, <1>i, <2>4, <4>1, ClaimCases
    <3>2. Len(region_start_offsets) = NRegions + 1
      BY <1>i, <2>1 DEF Layout
    <3>3. LastStart(current_region'[w])
            = region_start_offsets[current_region'[w] + 1] - scan.object_size
      BY <1>i, <3>1, <3>2, Ends
    <3> QED
      BY <1>s, <2>1, <2>3, <3>1, <3>3
  <2> QED
    BY <2>1, <2>2, <2>3, <2>4 DEF Aligned
<1>4. ASSUME NEW w \in Workers, Visit(w) PROVE Aligned'
  <2>1. /\ pc[w] = "visit"
        /\ UNCHANGED <<scan, region_start_offsets, current_offset, offset,
                       current_region, NRegions>>
        /\ \A v \in Workers \ {w} : pc'[v] = pc[v] /\ z'[v] = z[v]
    BY <1>4, <1>i, VisitCases DEF NRegions
  <2>2. /\ z'[w] % scan.stride = 0
        /\ pc'[w] # "visit" => z'[w] = 0
        /\ pc'[w] = "visit" =>
              offset[w] + z'[w]
                <= region_start_offsets[current_region[w] + 1] - scan.object_size
    <3>1. CASE pc'[w] = "claim" /\ z'[w] = 0
      BY <1>s, <3>1
    <3>2. CASE /\ pc'[w] = "visit"
               /\ z'[w] = z[w] + scan.stride
               /\ GoesOn(w, z[w] + scan.stride)
      <4>1. z[w] \in Nat /\ z[w] % scan.stride = 0
        BY <1>i DEF TypeOK, Aligned
      <4>2. z'[w] % scan.stride = 0
        BY <1>s, <3>2, <4>1, ModPlus
      <4>3. offset[w] + z'[w] <= LastStart(current_region[w])
        BY <3>2 DEF GoesOn
      <4>4. /\ Len(region_start_offsets) = NRegions + 1
            /\ current_region[w] \in 1 .. NRegions
        BY <1>i, <1>s, <2>1 DEF Layout, InRegion, TypeOK
      <4>5. LastStart(current_region[w])
              = region_start_offsets[current_region[w] + 1] - scan.object_size
        BY <1>i, <4>4, Ends
      <4> QED
        BY <3>2, <4>2, <4>3, <4>5
    <3> QED
      BY <1>4, <1>i, <3>1, <3>2, VisitCases
  <2> QED
    BY <2>1, <2>2 DEF Aligned
<1>5. CASE UNCHANGED <<scan, region_start_offsets, current_offset, workerVars, visited>>
  BY <1>5 DEF Aligned, workerVars
<1> QED
  BY <1>1, <1>2, <1>3, <1>4, <1>5, OtherSteps DEF Next, Caller, Worker

\* The call stays the same, and with it what it asks for.
LEMMA SameScan ==
  ASSUME [Next]_vars
  PROVE  UNCHANGED <<scan, NRegions, WholePages, Regular, Eligible, StrideAccepted,
                     Acceptable>>
<1>1. UNCHANGED scan
  BY DEF Next, Caller, Refuse, Measure, ShowProgress, StopProgress, Join,
         StartThread, Worker, Claim, Visit, Over, vars
<1> QED
  BY <1>1 DEF NRegions, WholePages, Regular, Eligible, StrideAccepted, Acceptable

LEMMA OnlyEligibleNext ==
  IInv /\ Phases /\ Regular /\ Aligned /\ OnlyEligible /\ [Next]_vars => OnlyEligible'
<1> SUFFICES ASSUME IInv, Phases, Regular, Aligned, OnlyEligible, [Next]_vars
             PROVE  OnlyEligible'
  OBVIOUS
<1>1. visited \subseteq Eligible /\ main # "terminated" /\ Eligible' = Eligible
  BY SameScan DEF OnlyEligible, Regular
<1>2. ASSUME NEW w \in Workers, Visit(w) PROVE OnlyEligible'
  <2>1. Fits(w) /\ At(w) \in Eligible
    BY <1>2, AtEligible DEF Visit
  <2>2. visited' = visited \cup {At(w)} /\ main' = main
    BY <1>2, <2>1 DEF Visit
  <2> QED
    BY <1>1, <2>1, <2>2 DEF OnlyEligible
<1>3. ASSUME NEW w \in Workers, StartThread(w) \/ Claim(w) PROVE OnlyEligible'
  <2>1. visited' = visited /\ (main' = main \/ main' = "progress")
    BY <1>3 DEF StartThread, Claim, callerVars
  <2> QED
    BY <1>1, <2>1 DEF OnlyEligible
<1>4. CASE Caller \/ Over \/ UNCHANGED vars
  <2>1. /\ visited' = visited
        /\ main' = main \/ main' \in {"threw", "join", "returned"}
    BY <1>4 DEF Caller, Refuse, Measure, ShowProgress, StopProgress, Join, Over, vars,
                callerVars
  <2> QED
    BY <1>1, <2>1 DEF OnlyEligible
<1> QED
  BY <1>2, <1>3, <1>4 DEF Next, Worker

----------------------------------------------------------------------------
(* Nothing eligible is passed over. *)

LEMMA EligiblePairs ==
  ASSUME TypeOK, NEW a \in Eligible
  PROVE  /\ a \in (1 .. NRegions) \X Nat
         /\ a[1] \in 1 .. NRegions /\ a[2] \in Nat /\ a[2] % scan.stride = 0
         /\ scan.regions[a[1]] \in Nat
         /\ scan.object_size \in Nat \ {0}
         /\ a[2] <= scan.regions[a[1]] - scan.object_size
<1>1. scan.regions \in Seq(Nat) /\ scan.object_size \in Nat \ {0}
  BY ScansAssumption DEF TypeOK
<1>2. PICK r \in 1 .. NRegions :
        a \in {r} \X {o \in 0 .. (scan.regions[r] - scan.object_size) : o % scan.stride = 0}
  BY DEF Eligible
<1> QED
  BY <1>1, <1>2 DEF NRegions

\* An eligible address that is laid out lies in its region, an object's size
\* before the end.
LEMMA PlaceOfEligible ==
  ASSUME TypeOK, Layout, NEW a \in Eligible, a[1] < Len(region_start_offsets)
  PROVE  /\ a[1] \in 1 .. NRegions /\ a[1] \in 1 .. (Len(region_start_offsets) - 1)
         /\ a[2] \in Nat /\ a[2] % scan.stride = 0
         /\ Place(a) \in Nat
         /\ Place(a) = region_start_offsets[a[1]] + a[2]
         /\ region_start_offsets[a[1]] \in Nat
         /\ region_start_offsets[a[1] + 1] \in Nat
         /\ scan.object_size \in Nat \ {0}
         /\ region_start_offsets[a[1]] <= Place(a)
         /\ Place(a) <= region_start_offsets[a[1] + 1] - scan.object_size
<1>1. /\ NRegions \in Nat
      /\ scan.object_size \in Nat \ {0}
      /\ Len(region_start_offsets) \in Nat \ {0}
      /\ \A i \in 1 .. Len(region_start_offsets) : region_start_offsets[i] \in Nat
  BY Starts
<1>2. /\ a[1] \in 1 .. NRegions /\ a[2] \in Nat
      /\ a[2] % scan.stride = 0
      /\ scan.regions[a[1]] \in Nat
      /\ a[2] <= scan.regions[a[1]] - scan.object_size
  BY EligiblePairs
<1>3. a[1] \in 1 .. (Len(region_start_offsets) - 1)
  BY <1>1, <1>2
<1>4. region_start_offsets[a[1] + 1] = region_start_offsets[a[1]] + scan.regions[a[1]]
  BY <1>3 DEF Layout
<1>5. region_start_offsets[a[1]] \in Nat /\ region_start_offsets[a[1] + 1] \in Nat
  <2>1. a[1] \in 1 .. Len(region_start_offsets) /\ a[1] + 1 \in 1 .. Len(region_start_offsets)
    BY <1>1, <1>3
  <2> QED
    BY <1>1, <2>1
<1>6. Place(a) = region_start_offsets[a[1]] + a[2]
  BY DEF Place
<1>7. /\ Place(a) \in Nat
      /\ region_start_offsets[a[1]] <= Place(a)
      /\ Place(a) <= region_start_offsets[a[1] + 1] - scan.object_size
  <2>1. \A start, o, size, obj \in Nat : o <= size - obj =>
          start + o \in Nat /\ start <= start + o /\ start + o <= start + size - obj
    OBVIOUS
  <2>2. scan.object_size \in Nat
    BY <1>1
  <2> QED
    BY <1>2, <1>4, <1>5, <1>6, <2>1, <2>2
<1> QED
  BY <1>1, <1>2, <1>3, <1>5, <1>6, <1>7

\* Regions do not overlap: where an address is tells its region.
LEMMA SameRegion ==
  ASSUME TypeOK, Layout, NEW a \in Eligible, a[1] < Len(region_start_offsets),
         NEW r \in 1 .. (Len(region_start_offsets) - 1),
         region_start_offsets[r] <= Place(a), Place(a) < region_start_offsets[r + 1]
  PROVE  a[1] = r
<1>1. /\ Len(region_start_offsets) \in Nat
      /\ \A i \in 1 .. Len(region_start_offsets) : region_start_offsets[i] \in Nat
      /\ \A i, j \in 1 .. Len(region_start_offsets) :
           i <= j => region_start_offsets[i] <= region_start_offsets[j]
  BY Starts DEF Layout
<1>2. /\ a[1] \in 1 .. (Len(region_start_offsets) - 1)
      /\ Place(a) \in Nat
      /\ region_start_offsets[a[1]] <= Place(a)
      /\ Place(a) < region_start_offsets[a[1] + 1]
  <2>1. /\ a[1] \in 1 .. (Len(region_start_offsets) - 1)
        /\ Place(a) \in Nat
        /\ region_start_offsets[a[1] + 1] \in Nat
        /\ scan.object_size \in Nat \ {0}
        /\ region_start_offsets[a[1]] <= Place(a)
        /\ Place(a) <= region_start_offsets[a[1] + 1] - scan.object_size
    BY PlaceOfEligible
  <2> QED
    BY <2>1
<1>3. CASE a[1] < r
  <2>1. region_start_offsets[a[1] + 1] <= region_start_offsets[r]
    <3>1. /\ a[1] + 1 \in 1 .. Len(region_start_offsets)
          /\ r \in 1 .. Len(region_start_offsets)
          /\ a[1] + 1 <= r
      BY <1>1, <1>2, <1>3
    <3> QED
      BY <1>1, <3>1
  <2>2. region_start_offsets[a[1] + 1] \in Nat /\ region_start_offsets[r] \in Nat
    BY <1>1, <1>2
  <2> QED
    BY <1>2, <2>1, <2>2
<1>4. CASE r < a[1]
  <2>1. region_start_offsets[r + 1] <= region_start_offsets[a[1]]
    <3>1. /\ r + 1 \in 1 .. Len(region_start_offsets)
          /\ a[1] \in 1 .. Len(region_start_offsets)
          /\ r + 1 <= a[1]
      BY <1>1, <1>2, <1>4
    <3> QED
      BY <1>1, <3>1
  <2>2. region_start_offsets[r + 1] \in Nat /\ region_start_offsets[a[1]] \in Nat
    BY <1>1, <1>2
  <2> QED
    BY <1>2, <2>1, <2>2
<1> QED
  BY <1>2, <1>3, <1>4

\* A block lies inside one region.
LEMMA BlockInRegion ==
  ASSUME TypeOK, Layout, Aligned, NEW o \in Nat, o % BlockStride = 0,
         NEW r \in 1 .. (Len(region_start_offsets) - 1),
         o < region_start_offsets[r + 1]
  PROVE  o + BlockStride <= region_start_offsets[r + 1]
<1>1. /\ region_start_offsets[r + 1] \in Nat
      /\ region_start_offsets[r + 1] % BlockStride = 0
  BY Starts DEF Aligned
<1> QED
  BY <1>1, ModNext, BlockStrideAssumption

LEMMA CoveredNext ==
  IInv /\ Phases /\ Regular /\ Aligned /\ Covered /\ [Next]_vars => Covered'
<1> SUFFICES ASSUME IInv, Phases, Regular, Aligned, Covered, [Next]_vars
             PROVE  Covered'
  OBVIOUS
<1>i. TypeOK /\ Layout /\ InRegion /\ UNCHANGED <<scan, NRegions, Eligible>>
  BY SameScan DEF IInv
<1>s. /\ NRegions \in Nat /\ current_offset \in Nat
      /\ Len(region_start_offsets) \in Nat \ {0}
      /\ \A i \in 1 .. Len(region_start_offsets) : region_start_offsets[i] \in Nat
      /\ offset \in [Workers -> Nat] /\ z \in [Workers -> 0 .. (BlockStride - 1)]
      /\ BlockStride \in Nat \ {0}
  BY <1>i, Starts, BlockStrideAssumption DEF TypeOK
<1>1. CASE Measure
  <2>1. current_offset' = 0
    BY <1>1, <1>i, MeasureCases DEF Phases
  <2>2. ASSUME NEW a \in Eligible, a[1] < Len(region_start_offsets')
        PROVE  ~(Place(a)' < 0)
    <3>1. a[1] \in 1 .. NRegions /\ a[2] \in Nat
      BY EligiblePairs, <1>i
    <3>2. Len(region_start_offsets') \in Nat /\ region_start_offsets' \in Seq(Nat)
      <4>1. TypeOK'
        BY <1>i, TypeNext
      <4> QED
        BY <4>1 DEF TypeOK
    <3>3. region_start_offsets'[a[1]] \in Nat
      BY <1>s, <2>2, <3>1, <3>2
    <3> QED
      BY <3>1, <3>3 DEF Place
  <2> QED
    BY <1>i, <2>1, <2>2 DEF Covered
<1>2. ASSUME NEW w \in Workers, StartThread(w) PROVE Covered'
  <2>1. /\ UNCHANGED <<region_start_offsets, current_offset, offset, z, visited>>
        /\ \A v \in Workers : pc'[v] = "visit" <=> pc[v] = "visit"
    BY <1>2, <1>i DEF StartThread, TypeOK
  <2> QED
    BY <1>i, <2>1 DEF Covered, Place
<1>3. ASSUME NEW w \in Workers, Claim(w) PROVE Covered'
  <2>1. /\ pc[w] = "claim"
        /\ current_offset' = current_offset + BlockStride
        /\ offset'[w] = current_offset
        /\ UNCHANGED <<region_start_offsets, z, visited>>
        /\ \A v \in Workers \ {w} : pc'[v] = pc[v] /\ offset'[v] = offset[v]
        /\ z[w] = 0
    BY <1>3, <1>i, ClaimCases DEF TypeOK, Aligned
  <2>2. Len(region_start_offsets) = NRegions + 1
    BY <1>i, <2>1 DEF Layout
  <2> SUFFICES ASSUME NEW a \in Eligible, a[1] < Len(region_start_offsets),
                      Place(a) < current_offset + BlockStride
               PROVE  \/ a \in visited
                      \/ \E v \in Workers :
                           /\ pc'[v] = "visit"
                           /\ offset'[v] + z[v] <= Place(a)
                           /\ Place(a) < offset'[v] + BlockStride
    BY <1>i, <2>1 DEF Covered, Place
  <2>3. Place(a) \in Nat
    BY <1>i, PlaceOfEligible
  <2>4. CASE Place(a) < current_offset
    <3>1. CASE a \in visited
      BY <3>1
    <3>2. CASE a \notin visited
      <4>1. PICK v \in Workers : /\ pc[v] = "visit"
                                 /\ offset[v] + z[v] <= Place(a)
                                 /\ Place(a) < offset[v] + BlockStride
        BY <2>4, <3>2 DEF Covered
      <4> QED
        BY <2>1, <4>1
    <3> QED
      BY <3>1, <3>2
  <2>5. CASE current_offset <= Place(a)
    <3>1. Place(a) < Total
      <4>1. /\ a[1] \in 1 .. NRegions
            /\ region_start_offsets[a[1] + 1] \in Nat
            /\ scan.object_size \in Nat \ {0}
            /\ Place(a) <= region_start_offsets[a[1] + 1] - scan.object_size
        BY <1>i, PlaceOfEligible
      <4>2. region_start_offsets[a[1] + 1] <= Total
        <5>1. /\ a[1] + 1 \in 1 .. Len(region_start_offsets)
              /\ Len(region_start_offsets) \in 1 .. Len(region_start_offsets)
              /\ a[1] + 1 <= Len(region_start_offsets)
          BY <1>s, <2>2, <4>1
        <5> QED
          BY <1>i, <5>1 DEF Layout, Total
      <4>3. Total \in Nat
        BY <1>s DEF Total
      <4> QED
        BY <2>3, <4>1, <4>2, <4>3
    <3>2. current_offset < Total
      BY <1>s, <2>3, <2>5, <3>1 DEF Total
    <3> DEFINE r == current_region'[w]
    <3>3. /\ r \in 1 .. NRegions
          /\ pc'[w] = IF current_offset <= LastStart(r) THEN "visit" ELSE "claim"
          /\ region_start_offsets[r] <= current_offset
          /\ current_offset < region_start_offsets[r + 1]
      BY <1>3, <1>i, <3>2, ClaimCases
    <3>4. region_start_offsets[r] \in Nat /\ region_start_offsets[r + 1] \in Nat
          /\ r \in 1 .. (Len(region_start_offsets) - 1)
      BY <1>s, <2>2, <3>3
    <3>5. current_offset + BlockStride <= region_start_offsets[r + 1]
      BY <1>i, <1>s, <3>3, <3>4, BlockInRegion DEF Aligned
    <3>6. a[1] = r
      <4>1. region_start_offsets[r] <= Place(a) /\ Place(a) < region_start_offsets[r + 1]
        BY <1>s, <2>3, <2>5, <3>3, <3>4, <3>5
      <4> QED
        BY <1>i, <3>4, <4>1, SameRegion
    <3>7. current_offset <= LastStart(r)
      <4>1. Place(a) <= region_start_offsets[r + 1] - scan.object_size
        BY <1>i, <3>6, PlaceOfEligible
      <4>2. /\ LastStart(r) = region_start_offsets[r + 1] - scan.object_size
            /\ scan.object_size \in Nat
        BY <1>i, <2>2, <3>3, Ends
      <4> QED
        BY <1>s, <2>3, <2>5, <3>4, <4>1, <4>2
    <3>8. pc'[w] = "visit"
      BY <3>3, <3>7
    <3>9. offset'[w] + z[w] <= Place(a) /\ Place(a) < offset'[w] + BlockStride
      BY <1>s, <2>1, <2>3, <2>5
    <3> QED
      BY <3>8, <3>9
  <2> QED
    BY <1>s, <2>3, <2>4, <2>5
<1>4. ASSUME NEW w \in Workers, Visit(w) PROVE Covered'
  <2>1. /\ pc[w] = "visit"
        /\ UNCHANGED <<region_start_offsets, current_offset, offset, current_region>>
        /\ \A v \in Workers \ {w} : pc'[v] = pc[v] /\ z'[v] = z[v]
    BY <1>4, <1>i, VisitCases
  <2>2. visited' = visited \cup {At(w)}
    <3>1. Fits(w)
      BY <2>1, AtEligible
    <3> QED
      BY <1>4, <3>1 DEF Visit
  <2> SUFFICES ASSUME NEW a \in Eligible, a[1] < Len(region_start_offsets),
                      Place(a) < current_offset, a \notin visited', a \notin visited
               PROVE  \E v \in Workers :
                        /\ pc'[v] = "visit"
                        /\ offset[v] + z'[v] <= Place(a)
                        /\ Place(a) < offset[v] + BlockStride
    BY <1>i, <2>1, <2>2 DEF Covered, Place
  <2>3. PICK v \in Workers : /\ pc[v] = "visit"
                             /\ offset[v] + z[v] <= Place(a)
                             /\ Place(a) < offset[v] + BlockStride
    BY DEF Covered
  <2>4. CASE v # w
    BY <2>1, <2>3, <2>4
  <2>5. CASE v = w
    <3> DEFINE r == current_region[w]
    <3>p. Place(a) \in Nat /\ a[2] \in Nat
      BY <1>i, PlaceOfEligible
    <3>1. /\ a[2] \in Nat /\ region_start_offsets[a[1]] \in Nat
          /\ region_start_offsets[a[1] + 1] \in Nat
          /\ a[1] \in 1 .. (Len(region_start_offsets) - 1)
          /\ Place(a) = region_start_offsets[a[1]] + a[2]
          /\ Place(a) <= region_start_offsets[a[1] + 1] - scan.object_size
          /\ scan.object_size \in Nat
      BY <1>i, PlaceOfEligible DEF Place
    <3>2. /\ Len(region_start_offsets) = NRegions + 1
          /\ r \in 1 .. (Len(region_start_offsets) - 1)
          /\ region_start_offsets[r] <= offset[w]
          /\ offset[w] < region_start_offsets[r + 1]
          /\ region_start_offsets[r] \in Nat /\ region_start_offsets[r + 1] \in Nat
      <4>1. Len(region_start_offsets) = NRegions + 1
        BY <1>i, <2>1 DEF Layout
      <4>2. /\ r \in Nat \ {0} /\ r <= NRegions
            /\ region_start_offsets[r] <= offset[w]
            /\ offset[w] < region_start_offsets[r + 1]
        BY <1>i, <2>1 DEF InRegion, TypeOK
      <4>3. r \in 1 .. Len(region_start_offsets) /\ r + 1 \in 1 .. Len(region_start_offsets)
        BY <1>s, <4>1, <4>2
      <4> QED
        BY <1>s, <4>1, <4>2, <4>3
    <3>3. offset[w] \in Nat /\ z[w] \in Nat
      BY <1>i DEF TypeOK
    <3>m. /\ offset[w] % BlockStride = 0 /\ z[w] % scan.stride = 0
          /\ a[2] % scan.stride = 0
      BY <1>i, EligiblePairs DEF Aligned
    <3>b. /\ offset[w] + z[w] <= Place(a)
          /\ Place(a) < offset[w] + BlockStride
          /\ BlockStride \in Nat
      BY <1>s, <2>3, <2>5
    <3>4. offset[w] + BlockStride <= region_start_offsets[r + 1]
      BY <1>i, <3>2, <3>3, <3>m, BlockInRegion
    <3>5. a[1] = r
      <4>0. \A start, o, y, p, stride, next \in Nat :
              start <= o /\ o + y <= p /\ p < o + stride /\ o + stride <= next =>
                start <= p /\ p < next
        OBVIOUS
      <4>1. region_start_offsets[r] <= Place(a) /\ Place(a) < region_start_offsets[r + 1]
        <5>1. /\ region_start_offsets[r] \in Nat /\ region_start_offsets[r + 1] \in Nat
              /\ region_start_offsets[r] <= offset[w]
          BY <3>2
        <5>2. /\ Place(a) \in Nat /\ offset[w] \in Nat /\ z[w] \in Nat /\ BlockStride \in Nat
              /\ offset[w] + z[w] <= Place(a) /\ Place(a) < offset[w] + BlockStride
          BY <3>3, <3>b, <3>p
        <5> QED
          BY <3>4, <4>0, <5>1, <5>2
      <4> QED
        BY <1>i, <3>2, <4>1, SameRegion
    <3>6. Place(a) # offset[w] + z[w]
      <4> SUFFICES ASSUME Place(a) = offset[w] + z[w] PROVE FALSE
        OBVIOUS
      <4>1. a[2] = offset[w] - region_start_offsets[r] + z[w]
        <5>1. Place(a) = region_start_offsets[r] + a[2]
          BY <3>1, <3>5
        <5>2. region_start_offsets[r] \in Nat
          BY <3>2
        <5> QED
          BY <3>3, <3>p, <5>1, <5>2
      <4>2. a = At(w)
        <5>1. a \in (1 .. NRegions) \X Nat
          BY <1>i, EligiblePairs
        <5> QED
          BY <3>5, <4>1, <5>1 DEF At
      <4> QED
        BY <2>2, <4>2
    <3>7. offset[w] + z[w] + scan.stride <= Place(a)
      <4>1. scan.stride \in Nat \ {0}
        BY <1>i, <2>1, Strides
      <4>2. offset[w] % scan.stride = 0 /\ region_start_offsets[r] % scan.stride = 0
        <5>1. region_start_offsets[r] % BlockStride = 0
          BY <1>s, <3>2 DEF Aligned
        <5> QED
          BY <1>i, <2>1, <3>2, <3>3, <3>m, <5>1, Strides
      <4>3. (offset[w] + z[w]) % scan.stride = 0
        BY <3>3, <3>m, <4>1, <4>2, ModPlus
      <4>4. Place(a) % scan.stride = 0
        <5>1. (region_start_offsets[r] + a[2]) % scan.stride = 0
          BY <3>1, <3>2, <3>m, <4>1, <4>2, ModPlus
        <5> QED
          BY <3>1, <3>5, <5>1
      <4>5. offset[w] + z[w] \in Nat /\ offset[w] + z[w] < Place(a)
        BY <3>3, <3>6, <3>b, <3>p
      <4> QED
        BY <3>p, <4>1, <4>3, <4>4, <4>5, ModNext
    <3>8. GoesOn(w, z[w] + scan.stride)
      <4>1. LastStart(r) = region_start_offsets[r + 1] - scan.object_size
        <5>1. r \in 1 .. NRegions
          BY <1>s, <3>2
        <5> QED
          BY <1>i, <3>2, <5>1, Ends
      <4>2. scan.stride \in Nat
        BY <1>i, Starts
      <4>3. z[w] + scan.stride < BlockStride
        BY <3>3, <3>7, <3>b, <3>p, <4>2
      <4>4. Place(a) <= region_start_offsets[r + 1] - scan.object_size
        BY <3>1, <3>5
      <4>5. offset[w] + (z[w] + scan.stride) <= LastStart(r)
        <5>1. scan.object_size \in Nat
          BY <3>1
        <5>2. region_start_offsets[r + 1] \in Nat
          BY <3>2
        <5> QED
          BY <3>3, <3>7, <3>p, <4>1, <4>2, <4>4, <5>1, <5>2
      <4> QED
        BY <4>3, <4>5 DEF GoesOn
    <3>9. pc'[w] = "visit" /\ z'[w] = z[w] + scan.stride
      BY <1>4, <1>i, <3>8, VisitCases
    <3>10. offset[w] + z'[w] <= Place(a)
      <4>1. scan.stride \in Nat
        BY <1>i, Starts
      <4> QED
        BY <3>3, <3>7, <3>9, <4>1
    <3> QED
      BY <2>3, <2>5, <3>9, <3>10
  <2> QED
    BY <2>4, <2>5
<1>5. CASE UNCHANGED <<scan, region_start_offsets, current_offset, workerVars, visited>>
  BY <1>5, <1>i DEF Covered, Place, workerVars
<1> QED
  BY <1>1, <1>2, <1>3, <1>4, <1>5, OtherSteps DEF Next, Caller, Worker

----------------------------------------------------------------------------
LEMMA ScanInvInit == Init => ScanInv
<1> SUFFICES ASSUME Init PROVE ScanInv
  OBVIOUS
<1>1. IInv /\ Phases
  BY InvInit, PhasesInit
<1>2. ASSUME Regular PROVE Aligned
  <2>1. scan.stride \in Nat \ {0} /\ BlockStride \in Nat \ {0}
    BY <1>2, BlockStrideAssumption, ScansAssumption DEF Init, Regular
  <2>2. 0 % scan.stride = 0 /\ 0 % BlockStride = 0
    BY <2>1
  <2> QED
    BY <2>2 DEF Init, Aligned
<1>3. OnlyEligible
  BY DEF Init, OnlyEligible
<1>4. Covered
  <2> SUFFICES ASSUME NEW a \in Eligible, a[1] < Len(region_start_offsets),
                      Place(a) < current_offset
               PROVE  FALSE
    BY DEF Covered
  <2>1. Place(a) \in Nat /\ current_offset = 0
    BY <1>1, PlaceOfEligible DEF IInv, Init
  <2> QED
    BY <2>1
<1> QED
  BY <1>1, <1>2, <1>3, <1>4 DEF ScanInv

LEMMA ScanInvNext == ScanInv /\ [Next]_vars => ScanInv'
<1> SUFFICES ASSUME ScanInv, [Next]_vars PROVE ScanInv'
  OBVIOUS
<1>1. Regular' = Regular
  BY SameScan
<1> QED
  BY <1>1, InvNext, PhasesNext, AlignedNext, OnlyEligibleNext, CoveredNext DEF ScanInv

LEMMA ScanInvariance == Spec => []ScanInv
  BY ScanInvInit, ScanInvNext, PTL DEF Spec

\* When the call has returned the counter is past every region and no worker
\* holds a block, so what is covered has been visited.
LEMMA AllVisited ==
  ASSUME ScanInv, Regular, main \in {"join", "returned"},
         \A w \in Workers : pc[w] = "done"
  PROVE  visited = Eligible
<1>i. /\ TypeOK /\ Layout /\ Phases /\ Covered
      /\ visited \subseteq Eligible
  BY DEF ScanInv, IInv, OnlyEligible, Regular
<1>1. Len(region_start_offsets) = NRegions + 1 /\ ~BlocksLeft
  BY <1>i DEF Phases
<1>s. /\ NRegions \in Nat /\ current_offset \in Nat
      /\ Len(region_start_offsets) \in Nat \ {0}
      /\ \A i \in 1 .. Len(region_start_offsets) : region_start_offsets[i] \in Nat
  BY <1>i, Starts DEF TypeOK
<1> SUFFICES ASSUME NEW a \in Eligible PROVE a \in visited
  BY <1>i
<1>2. a[1] < Len(region_start_offsets) /\ a[1] + 1 \in 1 .. Len(region_start_offsets)
  <2>1. a[1] \in 1 .. NRegions
    BY <1>i, EligiblePairs
  <2> QED
    BY <1>1, <1>s, <2>1
<1>3. Place(a) < Total
  <2>1. region_start_offsets[a[1] + 1] <= Total
    BY <1>i, <1>2, <1>s DEF Layout, Total
  <2>2. /\ Place(a) <= region_start_offsets[a[1] + 1] - scan.object_size
        /\ Place(a) \in Nat /\ region_start_offsets[a[1] + 1] \in Nat
        /\ scan.object_size \in Nat \ {0}
    BY <1>i, <1>2, PlaceOfEligible
  <2>3. Total \in Nat
    BY <1>s DEF Total
  <2> QED
    BY <2>1, <2>2, <2>3
<1>4. Place(a) < current_offset
  <2>1. Place(a) \in Nat /\ Total \in Nat
    BY <1>i, <1>2, <1>s, PlaceOfEligible DEF Total
  <2> QED
    BY <1>1, <1>3, <1>s, <2>1 DEF BlocksLeft
<1>5. ~\E w \in Workers : pc[w] = "visit"
  OBVIOUS
<1> QED
  BY <1>2, <1>4, <1>5, <1>i DEF Covered

\* The callback is only ever given an object that lies wholly inside one region
\* and is aligned, and no thread of the scan is ever terminated by pget
\* (MemoryReader.hh:225-232), for any regions of whole pages.
THEOREM VisitsOnlyEligible == Spec => []OnlyEligible
<1>1. ScanInv => OnlyEligible
  BY DEF ScanInv, OnlyEligible, Regular
<1> QED
  BY <1>1, ScanInvariance, PTL

\* When the call returns the callback has run for every eligible address, for
\* any number of workers and any regions of whole pages (MemoryReader.hh:217-241).
THEOREM CompleteWhenReturned == Spec => []CompleteAtReturn
<1>1. ScanInv => CompleteAtReturn
  <2> SUFFICES ASSUME ScanInv, Regular, main = "returned" PROVE visited = Eligible
    BY DEF CompleteAtReturn, Regular
  <2>1. \A w \in Workers : pc[w] = "done"
    BY DEF ScanInv, Phases
  <2> QED
    BY <2>1, AllVisited
<1> QED
  BY <1>1, ScanInvariance, PTL

----------------------------------------------------------------------------
(* The scan implements its contract: each of its steps is a step of        *)
(* AbstractScan or leaves the abstract state as it is.                     *)

LEMMA InitPromised == Init => Promised!AInit
  BY DEF Init, Promised!AInit

LEMMA NextPromised ==
  ASSUME ScanInv, Regular, [Next]_vars
  PROVE  [Promised!ANext]_(Promised!avars)
<1>i. /\ IInv /\ TypeOK /\ Layout /\ InRegion /\ Phases /\ Aligned /\ OnlyEligible
  BY DEF ScanInv, IInv
<1>1. Eligible' = Eligible /\ Acceptable' = Acceptable
  BY SameScan
<1>2. ASSUME visited' = visited, main' = main PROVE UNCHANGED Promised!avars
  BY <1>1, <1>2 DEF Promised!avars
<1>3. ASSUME visited' = visited,
             main \in {"setup", "progress", "join"}, main' \in {"setup", "progress", "join"}
      PROVE  UNCHANGED Promised!avars
  BY <1>1, <1>3 DEF Promised!avars
<1>4. ASSUME visited' = visited, main = "setup", main' = "threw", ~Acceptable
      PROVE  Promised!ANext
  BY <1>1, <1>4 DEF Promised!ANext, Promised!ARefuse, Promised!SameRequest
<1>5. CASE Refuse
  <2>1. ~Acceptable
    BY <1>5 DEF Refuse, Acceptable
  <2> QED
    BY <1>4, <1>5, <2>1 DEF Refuse
<1>6. CASE Measure
  <2>1. CASE scan.regions[Len(region_start_offsets)] = 0
    <3>1. ~Acceptable
      <4>1. Len(region_start_offsets) \in 1 .. NRegions
        BY <1>6, <1>i, Starts DEF Measure
      <4>2. ~(scan.regions[Len(region_start_offsets)] > 0)
        BY <2>1
      <4> QED
        BY <4>1, <4>2 DEF Acceptable
    <3>2. visited' = visited /\ main = "setup" /\ main' = "threw"
      BY <1>6, <2>1 DEF Measure
    <3> QED
      BY <1>4, <3>1, <3>2
  <2>2. CASE scan.regions[Len(region_start_offsets)] # 0
    <3>1. visited' = visited /\ main' = main
      BY <1>6, <2>2 DEF Measure
    <3> QED
      BY <1>2, <3>1
  <2> QED
    BY <2>1, <2>2
<1>7. CASE ShowProgress
  BY <1>2, <1>7 DEF ShowProgress
<1>8. CASE StopProgress
  BY <1>3, <1>8 DEF StopProgress
<1>9. CASE Join
  <2>1. visited = Eligible
    BY <1>9, AllVisited DEF Join
  <2>2. Acceptable
    <3>1. /\ \A i \in 1 .. (Len(region_start_offsets) - 1) : scan.regions[i] # 0
          /\ StrideAccepted /\ Len(region_start_offsets) = NRegions + 1
      BY <1>9, <1>i DEF Join, Phases
    <3>2. /\ scan.regions \in Seq(Nat) /\ NRegions \in Nat
      BY <1>i, Starts
    <3>3. \A r \in 1 .. NRegions : scan.regions[r] > 0
      BY <3>1, <3>2 DEF NRegions
    <3> QED
      BY <3>1, <3>3 DEF Acceptable, Regular
  <2>3. visited' = visited /\ main = "join" /\ main' = "returned"
    BY <1>9 DEF Join
  <2>4. Promised!AReturn
    BY <1>1, <2>1, <2>2, <2>3 DEF Promised!AReturn, Promised!SameRequest
  <2> QED
    BY <2>4 DEF Promised!ANext
<1>10. ASSUME NEW w \in Workers, StartThread(w) PROVE UNCHANGED Promised!avars
  BY <1>3, <1>10 DEF StartThread
<1>11. ASSUME NEW w \in Workers, Claim(w) PROVE UNCHANGED Promised!avars
  BY <1>2, <1>11 DEF Claim, callerVars
<1>12. ASSUME NEW w \in Workers, Visit(w) PROVE Promised!ANext
  <2>1. pc[w] = "visit" /\ Fits(w) /\ At(w) \in Eligible
    BY <1>12, <1>i, AtEligible DEF Visit
  <2>2. visited' = visited \cup {At(w)} /\ main' = main
    BY <1>12, <2>1 DEF Visit
  <2>3. At(w) \notin visited
    BY <1>i, <2>1, NotYetVisited DEF IInv, Regular
  <2>4. main \in {"setup", "progress", "join"}
    BY <1>i, <2>1 DEF Phases, TypeOK, OnlyEligible, Regular
  <2>5. Acceptable
    <3>1. /\ \A i \in 1 .. (Len(region_start_offsets) - 1) : scan.regions[i] # 0
          /\ StrideAccepted /\ Len(region_start_offsets) = NRegions + 1
      BY <1>i, <2>1 DEF Phases, Layout
    <3>2. /\ scan.regions \in Seq(Nat) /\ NRegions \in Nat
      BY <1>i, Starts
    <3>3. \A r \in 1 .. NRegions : scan.regions[r] > 0
      BY <3>1, <3>2 DEF NRegions
    <3> QED
      BY <3>1, <3>3 DEF Acceptable, Regular
  <2>6. Promised!AVisit
    BY <1>1, <2>1, <2>2, <2>3, <2>4, <2>5 DEF Promised!AVisit, Promised!SameRequest
  <2> QED
    BY <2>6 DEF Promised!ANext
<1>13. CASE Over \/ UNCHANGED vars
  BY <1>2, <1>13 DEF Over, vars, callerVars
<1> QED
  BY <1>5, <1>6, <1>7, <1>8, <1>9, <1>10, <1>11, <1>12, <1>13 DEF Next, Caller, Worker

\* map_all_addresses keeps the safety part of its contract: the callback runs
\* once for every eligible address before the call returns, and a request that
\* cannot be scanned is refused before the callback has run at all
\* (MemoryReader.hh:195-264).  That it returns at all is left to TLC.
THEOREM ImplementsSafety ==
  Spec /\ Regular => Promised!AInit /\ [][Promised!ANext]_(Promised!avars)
<1>1. Regular /\ [Next]_vars => Regular'
  BY SameScan
<1>2. ScanInv /\ Regular /\ [Next]_vars => [Promised!ANext]_(Promised!avars)
  BY NextPromised
<1>3. Init => Promised!AInit
  BY InitPromised
<1> QED
  BY <1>1, <1>2, <1>3, ScanInvariance, PTL DEF Spec
=============================================================================
