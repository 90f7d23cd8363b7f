----------------------------- MODULE ReaderProofs -----------------------------
(***************************************************************************)
(* Proofs about what reads a snapshot: RegionMap, for any width of the     *)
(* address space, any layout of the files in the host's memory and any     *)
(* snapshots; and Decoders, for objects of any size.                       *)
(***************************************************************************)
EXTENDS RegionMap, Decoders, NaturalsInduction, SequenceTheorems, FiniteSetTheorems, TLAPS

(* The parts of the inductive invariant. *)

\* Every region is one of the records that have been read, and every such
\* record has a region at its address.
OfRecords ==
  /\ \A k \in DOMAIN regions_by_mapped : \E i \in Regions :
       /\ source.records[i].start = k
       /\ source.records[i].size = regions_by_mapped[k].size
  /\ \A i \in Regions : source.records[i].start \in DOMAIN regions_by_mapped

\* Both maps have the same views, and only the maps of a stream empty ones.
SameViews ==
  /\ \A k \in DOMAIN regions_by_mapped :
       /\ regions_by_mapped[k].host \in DOMAIN regions_by_host
       /\ regions_by_host[regions_by_mapped[k].host] = regions_by_mapped[k]
  /\ source.form = "directory" =>
       \A h \in DOMAIN regions_by_host : regions_by_host[h].size > 0

\* No two regions share a byte of the host's memory, and a stream is entered
\* from its beginning.
HostsApart ==
  /\ \A g, h \in DOMAIN regions_by_host :
       \/ g = h
       \/ g + regions_by_host[g].size <= h
       \/ h + regions_by_host[h].size <= g
  /\ source.form = "stream" =>
       \A h \in DOMAIN regions_by_host : h + regions_by_host[h].size <= where

\* What is left of a stream is its end.
ReadInOrder ==
  source.form = "stream" =>
    \A i \in left : \A j \in DOMAIN source.records : i <= j => j \in left

IInv == TypeOK /\ OfRecords /\ SameViews /\ HostsApart /\ ReadInOrder

----------------------------------------------------------------------------
(* Arithmetic modulo the width, and facts about the constants. *)

LEMMA ModSmall ==
  ASSUME NEW w \in Nat \ {0}, NEW x \in 0 .. (w - 1)
  PROVE  x % w = x
  OBVIOUS

LEMMA ModOnceAround ==
  ASSUME NEW w \in Nat \ {0}, NEW x \in w .. (2 * w - 1)
  PROVE  x % w = x - w
  OBVIOUS

LEMMA Records ==
  ASSUME source \in Sources
  PROVE  /\ source.form \in {"directory", "stream"}
         /\ source.records \in Seq(Record)
         /\ source.cut \in BOOLEAN
         /\ \A i \in DOMAIN source.records :
              /\ i \in Nat
              /\ source.records[i].start \in Nat
              /\ source.records[i].size \in Nat
              /\ source.records[i].start + source.records[i].size < Word
<1>1. /\ source.form \in {"directory", "stream"}
      /\ source.records \in Seq(Record)
      /\ source.cut \in BOOLEAN
  BY SourcesAssumption
<1>2. ASSUME NEW i \in DOMAIN source.records
      PROVE  /\ i \in Nat
             /\ source.records[i] \in Record
             /\ source.records[i].start + source.records[i].size < Word
  BY <1>1, SourcesAssumption
<1> QED
  BY <1>1, <1>2 DEF Record

----------------------------------------------------------------------------
(* The invariant. *)

LEMMA InvInit == Init => IInv
<1> SUFFICES ASSUME Init PROVE IInv
  OBVIOUS
<1>1. TypeOK
  BY HostsAssumption DEF Init, TypeOK
<1>2. Regions = {}
  BY DEF Init, Regions
<1>3. OfRecords /\ SameViews /\ HostsApart /\ ReadInOrder
  BY <1>2 DEF Init, OfRecords, SameViews, HostsApart, ReadInOrder
<1> QED
  BY <1>1, <1>3 DEF IInv

\* A region entered at a free place of the host's memory keeps both maps in order.
LEMMA Enters ==
  ASSUME IInv,
         NEW i \in left, NEW host \in Nat,
         \A h \in DOMAIN regions_by_host :
           /\ h # host
           /\ \/ host + source.records[i].size <= h
              \/ h + regions_by_host[h].size <= host,
         source.form = "directory" => source.records[i].size > 0,
         AddRegion(source.records[i], host),
         source' = source,
         Regions' = Regions \cup {i}
  PROVE  /\ regions_by_mapped' \in [DOMAIN regions_by_mapped' -> View]
         /\ regions_by_host' \in [DOMAIN regions_by_host' -> View]
         /\ \A k \in DOMAIN regions_by_mapped' : regions_by_mapped'[k].addr = k
         /\ \A h \in DOMAIN regions_by_host' : regions_by_host'[h].host = h
         /\ total_bytes' \in Nat
         /\ OfRecords'
         /\ SameViews'
         /\ \A g, h \in DOMAIN regions_by_host' :
              \/ g = h
              \/ g + regions_by_host'[g].size <= h
              \/ h + regions_by_host'[h].size <= g
         /\ DOMAIN regions_by_host' = DOMAIN regions_by_host \cup {host}
         /\ regions_by_host'[host].size = source.records[i].size
         /\ \A h \in DOMAIN regions_by_host : regions_by_host'[h] = regions_by_host[h]
<1> DEFINE rec == source.records[i]
           view == [addr |-> rec.start, host |-> host, size |-> rec.size]
<1>1. rec.start \in Nat /\ rec.size \in Nat /\ i \in DOMAIN source.records
  BY Records DEF IInv, TypeOK
<1>2. view \in View /\ view.addr = rec.start /\ view.host = host /\ view.size = rec.size
  BY <1>1 DEF View
<1>3. /\ DOMAIN regions_by_mapped' = DOMAIN regions_by_mapped \cup {rec.start}
      /\ \A k \in DOMAIN regions_by_mapped : regions_by_mapped'[k] = regions_by_mapped[k]
      /\ rec.start \notin DOMAIN regions_by_mapped => regions_by_mapped'[rec.start] = view
      /\ regions_by_mapped' = [k \in DOMAIN regions_by_mapped' |-> regions_by_mapped'[k]]
  BY DEF AddRegion, Emplace
<1>4. /\ DOMAIN regions_by_host' = DOMAIN regions_by_host \cup {host}
      /\ \A h \in DOMAIN regions_by_host : regions_by_host'[h] = regions_by_host[h]
      /\ regions_by_host'[host] = view
      /\ regions_by_host' = [h \in DOMAIN regions_by_host' |-> regions_by_host'[h]]
  BY DEF AddRegion, Emplace
<1>5. /\ \A k \in DOMAIN regions_by_mapped' :
           regions_by_mapped'[k] \in View /\ regions_by_mapped'[k].addr = k
      /\ \A h \in DOMAIN regions_by_host' :
           regions_by_host'[h] \in View /\ regions_by_host'[h].host = h
  BY <1>2, <1>3, <1>4 DEF IInv, TypeOK
<1>6. total_bytes' \in Nat
  BY <1>1 DEF AddRegion, IInv, TypeOK
<1>7. OfRecords'
  <2>1. \A k \in DOMAIN regions_by_mapped' : \E j \in Regions \cup {i} :
          /\ source.records[j].start = k
          /\ source.records[j].size = regions_by_mapped'[k].size
    BY <1>2, <1>3 DEF IInv, OfRecords
  <2>2. \A j \in Regions \cup {i} : source.records[j].start \in DOMAIN regions_by_mapped'
    BY <1>3 DEF IInv, OfRecords
  <2> QED
    BY <2>1, <2>2 DEF OfRecords
<1>8. SameViews'
  <2>1. \A k \in DOMAIN regions_by_mapped' :
          /\ regions_by_mapped'[k].host \in DOMAIN regions_by_host'
          /\ regions_by_host'[regions_by_mapped'[k].host] = regions_by_mapped'[k]
    BY <1>2, <1>3, <1>4 DEF IInv, SameViews
  <2>2. source.form = "directory" =>
          \A h \in DOMAIN regions_by_host' : regions_by_host'[h].size > 0
    BY <1>2, <1>4 DEF IInv, SameViews
  <2> QED
    BY <2>1, <2>2 DEF SameViews
<1>9. \A g, h \in DOMAIN regions_by_host' :
        \/ g = h
        \/ g + regions_by_host'[g].size <= h
        \/ h + regions_by_host'[h].size <= g
  BY <1>2, <1>4 DEF IInv, HostsApart
<1> QED
  BY <1>2, <1>3, <1>4, <1>5, <1>6, <1>7, <1>8, <1>9

LEMMA InvNext == IInv /\ [Next]_vars => IInv'
<1> SUFFICES ASSUME IInv, [Next]_vars PROVE IInv'
  OBVIOUS
<1> USE DEF IInv
<1>r. /\ source.form \in {"directory", "stream"}
      /\ DOMAIN source.records = 1 .. Len(source.records)
      /\ \A i \in DOMAIN source.records :
           i \in Nat /\ source.records[i].start \in Nat /\ source.records[i].size \in Nat
  BY Records DEF TypeOK
<1>1. ASSUME NEW i \in left, LoadFile(i) PROVE IInv'
  <2> DEFINE rec == source.records[i]
  <2>o. ReadInOrder'
    BY <1>1 DEF LoadFile, ReadInOrder
  <2>0. i \in DOMAIN source.records
    BY DEF TypeOK
  <2>1. CASE rec.named /\ rec.size > 0
    <3>1. PICK host \in Hosts : Unused(host, rec.size) /\ AddRegion(rec, host)
      BY <1>1, <2>1 DEF LoadFile
    <3>2. host \in Nat
      BY HostsAssumption
    <3>3. \A h \in DOMAIN regions_by_host :
            /\ h # host
            /\ host + rec.size <= h \/ h + regions_by_host[h].size <= host
      <4>1. \A h \in DOMAIN regions_by_host : h \in Nat /\ regions_by_host[h].size > 0
                                             /\ regions_by_host[h].size \in Nat
        BY <1>1 DEF LoadFile, SameViews, TypeOK, View
      <4> QED
        BY <2>0, <2>1, <3>1, <3>2, <4>1, <1>r DEF Unused
    <3>4. Regions' = Regions \cup {i}
      BY <1>1, <2>0, <2>1 DEF LoadFile, Regions
    <3>5. source' = source
      BY <1>1 DEF LoadFile
    <3> HIDE DEF IInv
    <3>6. /\ regions_by_mapped' \in [DOMAIN regions_by_mapped' -> View]
          /\ regions_by_host' \in [DOMAIN regions_by_host' -> View]
          /\ \A k \in DOMAIN regions_by_mapped' : regions_by_mapped'[k].addr = k
          /\ \A h \in DOMAIN regions_by_host' : regions_by_host'[h].host = h
          /\ total_bytes' \in Nat
          /\ OfRecords'
          /\ SameViews'
          /\ \A g, h \in DOMAIN regions_by_host' :
               \/ g = h
               \/ g + regions_by_host'[g].size <= h
               \/ h + regions_by_host'[h].size <= g
      BY <2>1, <3>1, <3>2, <3>3, <3>4, <3>5, Enters
    <3> USE DEF IInv
    <3>7. TypeOK'
      BY <1>1, <3>6 DEF LoadFile, TypeOK
    <3>8. HostsApart'
      BY <1>1, <3>6 DEF LoadFile, HostsApart
    <3> QED
      BY <3>6, <3>7, <3>8, <2>o
  <2>2. CASE ~(rec.named /\ rec.size > 0)
    <3>1. UNCHANGED <<source, where, tables, phase>> /\ left' = left \ {i}
      BY <1>1, <2>2 DEF LoadFile
    <3>2. Regions' = Regions
      BY <1>1, <2>2, <2>0, <3>1, <1>r DEF Regions, LoadFile
    <3>3. TypeOK'
      BY <3>1 DEF TypeOK, tables
    <3>4. OfRecords' /\ SameViews' /\ HostsApart'
      BY <3>1, <3>2 DEF OfRecords, SameViews, HostsApart, tables
    <3> QED
      BY <3>3, <3>4, <2>o
  <2> QED
    BY <2>1, <2>2
<1>2. ASSUME NEW i \in left, LoadRecord(i) PROVE IInv'
  <2> DEFINE rec == source.records[i]
  <2>o. ReadInOrder'
    BY <1>2, <1>r DEF LoadRecord, ReadInOrder, TypeOK
  <2>0. i \in DOMAIN source.records /\ where \in Nat
    BY DEF TypeOK
  <2>1. CASE source.cut /\ left' = {}
    <3>1. UNCHANGED <<source, where, tables>> /\ left' = left \ {i} /\ phase' = "threw"
      BY <1>2, <2>1 DEF LoadRecord
    <3>2. i = Len(source.records) /\ source.form = "stream"
      BY <1>2, <2>0, <2>1, <3>1, <1>r DEF LoadRecord, ReadInOrder, TypeOK
    <3>2a. Regions' = Regions
      BY <2>0, <2>1, <3>1, <3>2, <1>r DEF Regions
    <3>3. TypeOK'
      BY <3>1 DEF TypeOK, tables
    <3>4. OfRecords' /\ SameViews' /\ HostsApart'
      BY <3>1, <3>2a DEF OfRecords, SameViews, HostsApart, tables
    <3> QED
      BY <3>3, <3>4, <2>o
  <2>2. CASE ~(source.cut /\ left' = {})
    <3> DEFINE host == where + Header
    <3>1. /\ AddRegion(rec, host)
          /\ where' = host + rec.size
          /\ left' = left \ {i}
          /\ UNCHANGED <<source, phase>>
          /\ source.form = "stream"
          /\ \A j \in left : i <= j
      BY <1>2, <2>2 DEF LoadRecord
    <3>2. host \in Nat /\ host > where
      BY <2>0, HeaderAssumption
    <3>3. \A h \in DOMAIN regions_by_host :
            /\ h \in Nat /\ regions_by_host[h].size \in Nat
            /\ h # host
            /\ h + regions_by_host[h].size <= host
      <4>1. \A h \in DOMAIN regions_by_host : h \in Nat /\ regions_by_host[h].size \in Nat
        BY DEF TypeOK, View
      <4>2. \A h \in DOMAIN regions_by_host : h + regions_by_host[h].size <= where
        BY <3>1 DEF HostsApart
      <4> QED
        BY <4>1, <4>2, <3>2, <2>0
    <3>4. Regions' = Regions \cup {i}
      <4>1. source.cut => i < Len(source.records)
        BY <2>2, <2>0, <3>1, <1>r DEF TypeOK
      <4> QED
        BY <2>0, <3>1, <4>1 DEF Regions
    <3>5. \A h \in DOMAIN regions_by_host :
            /\ h # host
            /\ host + rec.size <= h \/ h + regions_by_host[h].size <= host
      BY <3>3
    <3>6. source' = source /\ (source.form = "directory" => rec.size > 0)
      BY <3>1
    <3> HIDE DEF IInv, host
    <3>7. /\ regions_by_mapped' \in [DOMAIN regions_by_mapped' -> View]
          /\ regions_by_host' \in [DOMAIN regions_by_host' -> View]
          /\ \A k \in DOMAIN regions_by_mapped' : regions_by_mapped'[k].addr = k
          /\ \A h \in DOMAIN regions_by_host' : regions_by_host'[h].host = h
          /\ total_bytes' \in Nat
          /\ OfRecords'
          /\ SameViews'
          /\ \A g, h \in DOMAIN regions_by_host' :
               \/ g = h
               \/ g + regions_by_host'[g].size <= h
               \/ h + regions_by_host'[h].size <= g
          /\ DOMAIN regions_by_host' = DOMAIN regions_by_host \cup {host}
          /\ regions_by_host'[host].size = rec.size
          /\ \A h \in DOMAIN regions_by_host : regions_by_host'[h] = regions_by_host[h]
      BY <3>1, <3>2, <3>4, <3>5, <3>6, Enters
    <3> USE DEF IInv
    <3>8. where' \in Nat /\ rec.size \in Nat
      BY <2>0, <3>1, <3>2, <1>r
    <3>9. TypeOK'
      BY <3>1, <3>7, <3>8 DEF TypeOK
    <3>10. \A h \in DOMAIN regions_by_host' : h + regions_by_host'[h].size <= where'
      BY <3>1, <3>2, <3>3, <3>7, <3>8
    <3>11. HostsApart'
      BY <3>7, <3>10 DEF HostsApart
    <3> QED
      BY <3>7, <3>9, <3>11, <2>o
  <2> QED
    BY <2>1, <2>2
<1>3. CASE LoadThrows \/ Loaded \/ Over \/ UNCHANGED vars
  <2>1. UNCHANGED <<source, left, where, tables>> /\ phase' \in {"loading", "ready", "threw"}
    BY <1>3 DEF LoadThrows, Loaded, Over, vars, TypeOK
  <2>2. Regions' = Regions
    BY <2>1 DEF Regions
  <2>3. TypeOK'
    BY <2>1 DEF TypeOK, tables
  <2>4. OfRecords' /\ SameViews' /\ HostsApart' /\ ReadInOrder'
    BY <2>1, <2>2 DEF OfRecords, SameViews, HostsApart, ReadInOrder, tables
  <2> QED
    BY <2>3, <2>4
<1> QED
  BY <1>1, <1>2, <1>3 DEF Next

LEMMA Invariance == Spec => []IInv
  BY InvInit, InvNext, PTL DEF Spec

----------------------------------------------------------------------------
(* What the invariant says of lookups. *)

\* The regions are of their types, and none reaches the end of the addresses.
LEMMA RegionTypes ==
  ASSUME IInv, NEW k \in DOMAIN regions_by_mapped
  PROVE  /\ k \in Nat
         /\ regions_by_mapped[k].addr = k
         /\ regions_by_mapped[k].host \in Nat
         /\ regions_by_mapped[k].size \in Nat
         /\ k + regions_by_mapped[k].size < Word
<1>1. /\ regions_by_mapped[k] \in View
      /\ regions_by_mapped[k].addr = k
  BY DEF IInv, TypeOK
<1>2. PICK i \in Regions : /\ source.records[i].start = k
                          /\ source.records[i].size = regions_by_mapped[k].size
  BY DEF IInv, OfRecords
<1>3. i \in DOMAIN source.records
  BY DEF Regions
<1>4. k + regions_by_mapped[k].size < Word
  BY <1>2, <1>3, Records DEF IInv, TypeOK
<1> QED
  BY <1>1, <1>4 DEF View

\* A region is found at the addresses it holds, unless another starts between.
LEMMA Found ==
  ASSUME IInv, NEW a \in Nat
  PROVE  FindByMapped(a) =
           {regions_by_mapped[k] : k \in {k \in Before(regions_by_mapped, a) :
              a < k + regions_by_mapped[k].size}}
<1>1. ASSUME NEW k \in Before(regions_by_mapped, a)
      PROVE  (regions_by_mapped[k].addr + regions_by_mapped[k].size) % Word
               = k + regions_by_mapped[k].size
  <2>1. k \in DOMAIN regions_by_mapped
    BY DEF Before
  <2>2. k + regions_by_mapped[k].size \in 0 .. (Word - 1)
    BY <2>1, RegionTypes, WordAssumption
  <2> QED
    BY <2>1, <2>2, RegionTypes, WordAssumption, ModSmall
<1> QED
  <2>1. \A k \in Before(regions_by_mapped, a) :
          /\ k + regions_by_mapped[k].size \in Nat
          /\ ((regions_by_mapped[k].addr + regions_by_mapped[k].size) % Word > a)
               <=> (a < k + regions_by_mapped[k].size)
    <3> TAKE k \in Before(regions_by_mapped, a)
    <3>1. k \in DOMAIN regions_by_mapped
      BY DEF Before
    <3> QED
      BY <1>1, <3>1, RegionTypes
  <2> QED
    BY <2>1 DEF FindByMapped

\* A read that succeeds stays inside its region.
LEMMA ReadInside ==
  ASSUME IInv, NEW a \in Nat, NEW n \in 0 .. (Word - 1), NEW h \in Read(a, n)
  PROVE  \E k \in DOMAIN regions_by_mapped :
           /\ k <= a
           /\ a + n <= k + regions_by_mapped[k].size
           /\ a < k + regions_by_mapped[k].size
           /\ h = regions_by_mapped[k].host + (a - k)
<1>1. PICK k \in Before(regions_by_mapped, a) :
        /\ a < k + regions_by_mapped[k].size
        /\ h = regions_by_mapped[k].host + (a - regions_by_mapped[k].addr)
        /\ (a - regions_by_mapped[k].addr + n) % Word <= regions_by_mapped[k].size
        /\ (a - regions_by_mapped[k].addr + n) % Word >= a - regions_by_mapped[k].addr
  BY Found DEF Read
<1>2. k \in DOMAIN regions_by_mapped /\ k <= a
  BY DEF Before
<1> DEFINE off == a - k
           size == regions_by_mapped[k].size
<1>3. /\ k \in Nat /\ size \in Nat /\ regions_by_mapped[k].addr = k
      /\ off \in Nat /\ off < size /\ size < Word
  <2>1. /\ k \in Nat /\ size \in Nat /\ regions_by_mapped[k].addr = k
        /\ k + size < Word
    BY <1>2, RegionTypes
  <2>2. k <= a /\ a < k + size
    BY <1>1, <1>2
  <2> HIDE DEF size
  <2> QED
    BY <2>1, <2>2, WordAssumption
<1>4. off + n < Word
  <2> SUFFICES ASSUME off + n >= Word PROVE FALSE
    BY <1>3, WordAssumption
  <2>1. off + n \in Word .. (2 * Word - 1)
    BY <1>3, WordAssumption
  <2>2. \A x \in Word .. (2 * Word - 1) : x % Word = x - Word
    BY ModOnceAround, WordAssumption
  <2>3. (off + n) % Word >= off
    BY <1>1, <1>3
  <2> HIDE DEF off
  <2> QED
    BY <1>3, <2>1, <2>2, <2>3, WordAssumption
<1>5. (off + n) % Word = off + n
  <2>1. off + n \in 0 .. (Word - 1)
    BY <1>3, <1>4, WordAssumption
  <2> QED
    BY <2>1, ModSmall, WordAssumption
<1> QED
  BY <1>1, <1>2, <1>3, <1>5

----------------------------------------------------------------------------
\* The tables are well typed, and each view is under its own addresses.
THEOREM TypeCorrect == Spec => []TypeOK
  BY Invariance, PTL DEF IInv

\* A pointer into the host's memory that a read returned is translated back to
\* the address that was read (host_to_mapped).
THEOREM RoundTrip == Spec => []HostRoundTrip
<1>1. IInv => HostRoundTrip
  <2> SUFFICES ASSUME IInv, NEW a \in Addresses, NEW n \in 1 .. (Word - 1), NEW h \in Read(a, n)
               PROVE  HostToMapped(h, n) = {a}
    BY DEF HostRoundTrip
  <2>1. a \in Nat /\ n \in Nat /\ n > 0 /\ n \in 0 .. (Word - 1)
    BY WordAssumption DEF Addresses
  <2>2. PICK k \in DOMAIN regions_by_mapped :
          /\ k <= a
          /\ a + n <= k + regions_by_mapped[k].size
          /\ a < k + regions_by_mapped[k].size
          /\ h = regions_by_mapped[k].host + (a - k)
    BY <2>1, ReadInside
  <2> DEFINE r == regions_by_mapped[k]
             g == r.host
  <2>3. /\ k \in Nat /\ r.addr = k /\ g \in Nat /\ r.size \in Nat
        /\ g \in DOMAIN regions_by_host /\ regions_by_host[g] = r
    BY RegionTypes DEF IInv, SameViews
  <2>4. g <= h /\ h < g + r.size /\ h - g = a - k /\ h - g + n <= r.size /\ h \in Nat
    BY <2>1, <2>2, <2>3
  <2>5. \A j \in DOMAIN regions_by_host : j <= h => j <= g
    <3>1. \A j \in DOMAIN regions_by_host : j \in Nat /\ regions_by_host[j].size \in Nat
      BY DEF IInv, TypeOK, View
    <3>2. \A j \in DOMAIN regions_by_host :
            j = g \/ g + r.size <= j \/ j + regions_by_host[j].size <= g
      BY <2>3 DEF IInv, HostsApart
    <3> HIDE DEF r, g
    <3> QED
      BY <2>3, <2>4, <3>1, <3>2
  <2>6. \A j \in DOMAIN regions_by_host : j \in Nat
    BY DEF IInv, TypeOK, View
  <2>7. Before(regions_by_host, h) = {g}
    <3>1. g \in Before(regions_by_host, h)
      BY <2>3, <2>4, <2>5 DEF Before
    <3>2. ASSUME NEW j \in Before(regions_by_host, h) PROVE j = g
      BY <2>3, <2>4, <2>5, <2>6 DEF Before
    <3> QED
      BY <3>1, <3>2
  <2>8. FindByHost(h) = {r}
    BY <2>3, <2>4, <2>7 DEF FindByHost
  <2> HIDE DEF r
  <2> QED
    BY <2>1, <2>2, <2>3, <2>4, <2>8 DEF HostToMapped
<1> QED
  BY <1>1, Invariance, PTL

\* In a snapshot of one dump a lookup finds exactly the region that holds the
\* address, whatever the order in which the directory lists the files.
THEOREM LookupFinds == Spec => []LookupRight
<1>1. IInv => LookupRight
  <2> SUFFICES ASSUME IInv, OneDump, NEW a \in Addresses
               PROVE  {r.addr : r \in FindByMapped(a)} =
                        {source.records[i].start : i \in {i \in Regions :
                           /\ source.records[i].start <= a
                           /\ a < source.records[i].start + source.records[i].size}}
    BY DEF LookupRight
  <2>1. a \in Nat
    BY DEF Addresses
  <2>2. \A i \in Regions : /\ i \in DOMAIN source.records
                           /\ source.records[i].start \in Nat
                           /\ source.records[i].size \in Nat
    BY Records DEF IInv, TypeOK, Regions
  <2>3. ASSUME NEW r \in FindByMapped(a)
        PROVE  \E i \in Regions : /\ source.records[i].start = r.addr
                                  /\ source.records[i].start <= a
                                  /\ a < source.records[i].start + source.records[i].size
    <3>1. PICK k \in Before(regions_by_mapped, a) :
            r = regions_by_mapped[k] /\ a < k + regions_by_mapped[k].size
      BY <2>1, Found
    <3>2. k \in DOMAIN regions_by_mapped /\ k <= a
      BY DEF Before
    <3> QED
      BY <3>1, <3>2, RegionTypes DEF IInv, OfRecords
  <2>4. ASSUME NEW i \in Regions,
               source.records[i].start <= a,
               a < source.records[i].start + source.records[i].size
        PROVE  \E r \in FindByMapped(a) : r.addr = source.records[i].start
    <3> DEFINE k == source.records[i].start
    <3>1. k \in DOMAIN regions_by_mapped /\ k \in Nat /\ regions_by_mapped[k].addr = k
      BY RegionTypes DEF IInv, OfRecords
    <3>2. regions_by_mapped[k].size = source.records[i].size
      BY <2>2, <3>1 DEF IInv, OfRecords, OneDump
    <3>3. ASSUME NEW j \in DOMAIN regions_by_mapped, j <= a PROVE j <= k
      <4>1. PICK m \in Regions : source.records[m].start = j
        BY DEF IInv, OfRecords
      <4>2. m # i => ~Overlap(source.records[i], source.records[m])
        BY <2>2 DEF OneDump
      <4> QED
        BY <2>1, <2>2, <2>4, <3>3, <4>1, <4>2 DEF Overlap
    <3>4. k \in Before(regions_by_mapped, a)
      BY <2>4, <3>1, <3>3 DEF Before
    <3> HIDE DEF k
    <3>5. regions_by_mapped[k] \in FindByMapped(a)
      BY <2>1, <2>4, <3>2, <3>4, Found DEF k
    <3> QED
      BY <3>1, <3>5 DEF k
  <2> QED
    BY <2>3, <2>4
<1> QED
  BY <1>1, Invariance, PTL

\* Every region of a directory can be read whole, even if the files are of two
\* dumps: map_all_addresses does not throw over a directory.
LEMMA ReadsRegions == IInv => RegionsReadable
<1> SUFFICES ASSUME IInv, source.form = "directory" PROVE RegionsReadable
  BY DEF RegionsReadable
<1> SUFFICES ASSUME NEW k \in DOMAIN regions_by_mapped
             PROVE  Read(k, regions_by_mapped[k].size) = {regions_by_mapped[k].host}
  <2>1. \A j \in DOMAIN regions_by_mapped : regions_by_mapped[j].addr = j
    BY RegionTypes
  <2> QED
    BY <2>1 DEF AllRegions, RegionsReadable
<1> DEFINE r == regions_by_mapped[k]
<1>1. /\ k \in Nat /\ r.addr = k /\ r.host \in Nat /\ r.size \in Nat
      /\ k + r.size < Word
  BY RegionTypes
<1>2. r.size > 0
  BY DEF IInv, SameViews
<1>3. Before(regions_by_mapped, k) = {k}
  BY RegionTypes DEF Before
<1>4. FindByMapped(k) = {r}
  BY <1>1, <1>2, <1>3, Found
<1>5. (k - r.addr + r.size) % Word = r.size
  <2>1. r.size \in 0 .. (Word - 1)
    BY <1>1, WordAssumption
  <2>2. r.size % Word = r.size
    BY <2>1, ModSmall, WordAssumption
  <2>3. k - r.addr + r.size = r.size
    BY <1>1
  <2> HIDE DEF r
  <2> QED
    BY <2>2, <2>3
<1> HIDE DEF r
<1>6. r.size >= k - r.addr /\ r.size <= r.size /\ r.host + (k - r.addr) = r.host
  BY <1>1
<1>7. Read(k, r.size) = {r.host}
  BY <1>4, <1>5, <1>6 DEF Read
<1> QED
  BY <1>7 DEF r

\* What obj_valid accepts can be read, and what all_regions lists.
THEOREM ValidReads == Spec => []ValidMeansReadable
<1>1. IInv => ValidMeansReadable
  <2>0. IInv => RegionsReadable
    BY ReadsRegions
  <2> SUFFICES ASSUME IInv, NEW a \in Addresses, NEW r \in FindByMapped(a),
                      NEW n \in 1 .. (Word - 1 - r.size), ExistsRange(a, n)
               PROVE  Read(a, n) # {}
    BY <2>0 DEF ValidMeansReadable, ObjValid
  <2>1. a \in Nat
    BY DEF Addresses
  <2>2. PICK k \in Before(regions_by_mapped, a) :
          r = regions_by_mapped[k] /\ a < k + regions_by_mapped[k].size
    BY <2>1, Found
  <2>3. k \in DOMAIN regions_by_mapped /\ k <= a
    BY DEF Before
  <2>4. k \in Nat /\ r.addr = k /\ r.size \in Nat /\ k + r.size < Word
    BY <2>2, <2>3, RegionTypes
  <2>5. FindByMapped(a) = {r}
    <3>1. \A j \in Before(regions_by_mapped, a) : j = k
      BY <2>1, <2>3, RegionTypes DEF Before
    <3> QED
      BY <2>1, <2>2, <3>1, Found
  <2>6. (a + n - r.addr) % Word <= r.size
    BY <2>5 DEF ExistsRange
  <2>7. a - k + n \in 0 .. (Word - 1) /\ a - r.addr = a - k /\ a + n - r.addr = a - k + n
    BY <2>1, <2>2, <2>3, <2>4, WordAssumption
  <2>8. (a - r.addr + n) % Word = a - k + n
    BY <2>7, ModSmall, WordAssumption
  <2>9. a - k + n <= r.size
    BY <2>6, <2>7, <2>8
  <2> QED
    BY <2>1, <2>3, <2>4, <2>5, <2>7, <2>8, <2>9 DEF Read
<1> QED
  BY <1>1, Invariance, PTL

----------------------------------------------------------------------------
(* Induction up to a number, and sums. *)

LEMMA LeastNat ==
  ASSUME NEW T \in SUBSET Nat, T # {}
  PROVE  \E n \in T : \A m \in T : n <= m
<1> DEFINE R == OpToRel(<, Nat)
<1>1. IsWellFoundedOn(R, Nat)  BY NatLessThanWellFounded
<1>2. \A m, n \in Nat : <<m, n>> \in R <=> m < n  BY DEF OpToRel
<1> HIDE DEF R
<1>3. PICK n \in T : \A m \in T : ~(<<m, n>> \in R)  BY <1>1, WFMin
<1>4. ASSUME NEW m \in T PROVE n <= m
  <2>1. m \in Nat /\ n \in Nat /\ ~(m < n)  BY <1>2, <1>3
  <2>. QED BY <2>1
<1>. QED BY <1>4

LEMMA UpTo ==
  ASSUME NEW n \in Nat, NEW P,
         0 \in P,
         \A k \in 1 .. n : k - 1 \in P => k \in P
  PROVE  \A k \in 0 .. n : k \in P
<1> DEFINE T == {k \in 0 .. n : k \notin P}
<1>1. SUFFICES ASSUME T # {} PROVE FALSE  OBVIOUS
<1>2. T \in SUBSET Nat  OBVIOUS
<1>3. PICK k \in T : \A m \in T : k <= m
  <2>. HIDE DEF T
  <2>. QED BY <1>1, <1>2, LeastNat
<1>4. k \in 1 .. n  OBVIOUS
<1>5. k - 1 \in 0 .. n /\ ~(k <= k - 1)  BY <1>4
<1>6. k - 1 \in P  BY <1>3, <1>5
<1>. QED BY <1>4, <1>6

\* A sum adds one number after another.
SumStep(s, f, k) == IF k = 0 THEN 0 ELSE f[k - 1] + s[k]

LEMMA SumSolution ==
  ASSUME NEW n \in Nat, NEW s
  PROVE  \E f : f = [k \in 0 .. n |-> SumStep(s, f, k)]
<1> DEFINE Solves(f, m) == f = [k \in 0 .. m |-> SumStep(s, f, k)]
           P == {m \in 0 .. n : \E f : Solves(f, m)}
<1>1. 0 \in P
  <2> DEFINE f == [k \in 0 .. 0 |-> 0]
  <2>1. Solves(f, 0)  BY DEF SumStep
  <2>. QED BY <2>1
<1>2. ASSUME NEW m \in 1 .. n, m - 1 \in P PROVE m \in P
  <2>1. PICK g : Solves(g, m - 1)  BY <1>2
  <2> DEFINE h == [k \in 0 .. m |-> SumStep(s, g, k)]
  <2>2. \A k \in 0 .. (m - 1) : k \in 0 .. m /\ g[k] = SumStep(s, g, k)  BY <2>1
  <2>3. \A k \in 0 .. (m - 1) : h[k] = g[k]  BY <2>2
  <2>. HIDE DEF h
  <2>4. ASSUME NEW k \in 0 .. m PROVE SumStep(s, h, k) = SumStep(s, g, k)
    <3>1. k = 0 \/ k - 1 \in 0 .. (m - 1)  OBVIOUS
    <3>. QED BY <2>3, <3>1 DEF SumStep
  <2>5. Solves(h, m)  BY <2>4 DEF h
  <2>. QED BY <2>5
<1>3. \A k \in 0 .. n : k \in P
  <2>. HIDE DEF P
  <2>. QED BY <1>1, <1>2, UpTo
<1>. QED BY <1>3

LEMMA SumTotals ==
  ASSUME NEW n \in Nat, NEW s, \A k \in 1 .. n : s[k] \in Int
  PROVE  /\ Sum(s, 0) = 0
         /\ \A k \in 1 .. n : Sum(s, k) = Sum(s, k - 1) + s[k]
         /\ \A k \in 0 .. n : Sum(s, k) \in Int
<1> DEFINE total(m) == CHOOSE f : f = [k \in 0 .. m |-> SumStep(s, f, k)]
<1>1. ASSUME NEW m \in Nat PROVE total(m) = [k \in 0 .. m |-> SumStep(s, total(m), k)]
  BY SumSolution
<1>2. ASSUME NEW m PROVE Sum(s, m) = total(m)[m]  BY Zenon DEF Sum, SumStep
<1>. HIDE DEF total
<1>3. ASSUME NEW m \in Nat, NEW k \in 0 .. m PROVE total(m)[k] = SumStep(s, total(m), k)
  BY <1>1
<1>4. \A m \in Nat : total(m)[0] = 0  BY <1>3 DEF SumStep
<1>5. \A m \in Nat : \A k \in 1 .. m : total(m)[k] = total(m)[k - 1] + s[k]
  <2>1. TAKE m \in Nat
  <2>2. TAKE k \in 1 .. m
  <2>3. k \in 0 .. m /\ k # 0  OBVIOUS
  <2>. QED BY <1>3, <2>3 DEF SumStep
<1>6. ASSUME NEW m \in 1 .. n PROVE \A k \in 0 .. (m - 1) : total(m)[k] = total(m - 1)[k]
  <2> DEFINE P == {k \in 0 .. (m - 1) : total(m)[k] = total(m - 1)[k]}
  <2>1. m - 1 \in Nat /\ m \in Nat  OBVIOUS
  <2>2. 0 \in P  BY <1>4, <2>1
  <2>3. ASSUME NEW k \in 1 .. (m - 1), k - 1 \in P PROVE k \in P
    <3>1. total(m)[k] = total(m)[k - 1] + s[k]  BY <1>5, <2>1
    <3>2. total(m - 1)[k] = total(m - 1)[k - 1] + s[k]  BY <1>5, <2>1
    <3>. QED BY <2>3, <3>1, <3>2
  <2>4. \A k \in 0 .. (m - 1) : k \in P
    <3>. HIDE DEF P
    <3>. QED BY <2>1, <2>2, <2>3, UpTo
  <2>. QED BY <2>4
<1>7. \A k \in 1 .. n : Sum(s, k) = Sum(s, k - 1) + s[k]
  <2>1. TAKE k \in 1 .. n
  <2>2. total(k)[k] = total(k)[k - 1] + s[k]  BY <1>5
  <2>3. total(k)[k - 1] = total(k - 1)[k - 1]  BY <1>6
  <2>. QED BY <1>2, <2>2, <2>3
<1>8. Sum(s, 0) = 0  BY <1>2, <1>4
<1>9. \A k \in 0 .. n : Sum(s, k) \in Int
  <2> DEFINE P == {k \in 0 .. n : Sum(s, k) \in Int}
  <2>1. 0 \in P  BY <1>8
  <2>2. ASSUME NEW k \in 1 .. n, k - 1 \in P PROVE k \in P
    <3>1. Sum(s, k - 1) \in Int /\ s[k] \in Int  BY <2>2
    <3>. QED BY <1>7, <3>1
  <2>3. \A k \in 0 .. n : k \in P
    <3>. HIDE DEF P
    <3>. QED BY <2>1, <2>2, UpTo
  <2>. QED BY <2>3
<1>. QED BY <1>7, <1>8, <1>9

----------------------------------------------------------------------------
(* Line tables. *)

\* What Python's search makes of one more range.
LineStep(o, offset, S, i) ==
  IF i = 0 THEN [end |-> 0, line |-> o.co_firstlineno, found |-> 0, moved |-> TRUE]
  ELSE LET r == o.table[i]
           line == S[i - 1].line + (IF r.ldelta = NoLine THEN 0 ELSE r.ldelta)
           here == S[i - 1].end <= offset /\ offset < S[i - 1].end + r.sdelta
       IN [end   |-> S[i - 1].end + r.sdelta,
           line  |-> line,
           found |-> IF here /\ r.ldelta # NoLine THEN line ELSE S[i - 1].found,
           moved |-> IF here THEN r.ldelta # 0 ELSE S[i - 1].moved]

LEMMA LineSolution ==
  ASSUME NEW n \in Nat, NEW o, NEW offset
  PROVE  \E f : f = [i \in 0 .. n |-> LineStep(o, offset, f, i)]
<1> DEFINE Solves(f, m) == f = [i \in 0 .. m |-> LineStep(o, offset, f, i)]
           P == {m \in 0 .. n : \E f : Solves(f, m)}
<1>1. 0 \in P
  <2> DEFINE f == [i \in 0 .. 0 |-> LineStep(o, offset, <<>>, 0)]
  <2>1. Solves(f, 0)  BY DEF LineStep
  <2>. QED BY <2>1
<1>2. ASSUME NEW m \in 1 .. n, m - 1 \in P PROVE m \in P
  <2>1. PICK g : Solves(g, m - 1)  BY <1>2
  <2> DEFINE h == [i \in 0 .. m |-> LineStep(o, offset, g, i)]
  <2>2. \A i \in 0 .. (m - 1) : i \in 0 .. m /\ g[i] = LineStep(o, offset, g, i)  BY <2>1
  <2>3. \A i \in 0 .. (m - 1) : h[i] = g[i]  BY <2>2
  <2>. HIDE DEF h
  <2>4. ASSUME NEW i \in 0 .. m PROVE LineStep(o, offset, h, i) = LineStep(o, offset, g, i)
    <3>1. i = 0 \/ i - 1 \in 0 .. (m - 1)  OBVIOUS
    <3>2. i = 0 \/ h[i - 1] = g[i - 1]  BY <2>3, <3>1
    <3>. QED BY <3>2 DEF LineStep
  <2>5. Solves(h, m)  BY <2>4 DEF h
  <2>. QED BY <2>5
<1>3. \A k \in 0 .. n : k \in P
  <2>. HIDE DEF P
  <2>. QED BY <1>1, <1>2, UpTo
<1>. QED BY <1>3

\* The ranges lie one after another, and a line is that of the range before and
\* what the range adds to it.
LEMMA RangeEnds ==
  ASSUME NEW o, LinesLaidOut(o)
  PROVE  /\ Len(o.table) \in Nat /\ DOMAIN o.table = 1 .. Len(o.table)
         /\ \A i \in 1 .. Len(o.table) : o.table[i].sdelta \in Nat /\ o.table[i].ldelta \in Int
         /\ End(o, 0) = 0 /\ Line(o, 0) = o.co_firstlineno
         /\ \A i \in 0 .. Len(o.table) : End(o, i) \in Int /\ Line(o, i) \in Int
         /\ \A i \in 1 .. Len(o.table) :
              /\ End(o, i) = End(o, i - 1) + o.table[i].sdelta
              /\ Line(o, i) = Line(o, i - 1)
                                + (IF o.table[i].ldelta = NoLine THEN 0 ELSE o.table[i].ldelta)
<1> DEFINE n == Len(o.table)
           ends == [j \in DOMAIN o.table |-> o.table[j].sdelta]
           lines == [j \in DOMAIN o.table |-> IF o.table[j].ldelta = NoLine THEN 0
                                              ELSE o.table[j].ldelta]
<1>1. o.table \in Seq([sdelta : Nat, ldelta : Int]) /\ o.co_firstlineno \in Int
  BY DEF LinesLaidOut
<1>2. n \in Nat /\ DOMAIN o.table = 1 .. n  BY <1>1, LenProperties
<1>3. \A i \in 1 .. n : o.table[i] \in [sdelta : Nat, ldelta : Int]  BY <1>1, ElementOfSeq
<1>4. \A i \in 1 .. n : o.table[i].sdelta \in Nat /\ o.table[i].ldelta \in Int  BY <1>3
<1>5. \A i \in 1 .. n : /\ ends[i] = o.table[i].sdelta
                        /\ lines[i] = IF o.table[i].ldelta = NoLine THEN 0 ELSE o.table[i].ldelta
  BY <1>2
<1>6. \A i \in 1 .. n : ends[i] \in Int /\ lines[i] \in Int  BY <1>4, <1>5
<1>7. \A i : End(o, i) = Sum(ends, i) /\ Line(o, i) = o.co_firstlineno + Sum(lines, i)
  BY DEF End, Line
<1>. HIDE DEF n, ends, lines
<1>8. /\ Sum(ends, 0) = 0
      /\ \A k \in 1 .. n : Sum(ends, k) = Sum(ends, k - 1) + ends[k]
      /\ \A k \in 0 .. n : Sum(ends, k) \in Int
  BY <1>2, <1>6, SumTotals
<1>9. /\ Sum(lines, 0) = 0
      /\ \A k \in 1 .. n : Sum(lines, k) = Sum(lines, k - 1) + lines[k]
      /\ \A k \in 0 .. n : Sum(lines, k) \in Int
  BY <1>2, <1>6, SumTotals
<1>10. End(o, 0) = 0 /\ Line(o, 0) = o.co_firstlineno  BY <1>1, <1>7, <1>8, <1>9
<1>11. \A i \in 0 .. n : End(o, i) \in Int /\ Line(o, i) \in Int  BY <1>1, <1>7, <1>8, <1>9
<1>12. ASSUME NEW i \in 1 .. n
       PROVE  /\ End(o, i) = End(o, i - 1) + o.table[i].sdelta
              /\ Line(o, i) = Line(o, i - 1)
                                + (IF o.table[i].ldelta = NoLine THEN 0 ELSE o.table[i].ldelta)
  <2>1. i - 1 \in 0 .. n  BY <1>2
  <2>2. Sum(lines, i - 1) \in Int /\ lines[i] \in Int  BY <1>6, <1>9, <2>1
  <2>3. Line(o, i) = Line(o, i - 1) + lines[i]  BY <1>1, <1>7, <1>9, <2>2
  <2>4. End(o, i) = End(o, i - 1) + ends[i]  BY <1>7, <1>8
  <2>. QED BY <1>5, <2>3, <2>4
<1>. QED BY <1>2, <1>4, <1>10, <1>11, <1>12 DEF n

\* A range that holds the offset ends after it, and so begins no later one before it.
Here(o, offset, i) == End(o, i - 1) <= offset /\ offset < End(o, i)

LEMMA LaterEnds ==
  ASSUME NEW o, LinesLaidOut(o), NEW i \in 0 .. Len(o.table)
  PROVE  \A k \in i .. Len(o.table) : End(o, i) <= End(o, k)
<1> DEFINE n == Len(o.table)
           P == {k \in 0 .. n : k >= i => End(o, i) <= End(o, k)}
<1>1. n \in Nat /\ End(o, i) \in Int  BY RangeEnds
<1>2. 0 \in P  BY <1>1
<1>3. ASSUME NEW k \in 1 .. n, k - 1 \in P PROVE k \in P
  <2>1. /\ End(o, k) = End(o, k - 1) + o.table[k].sdelta
        /\ o.table[k].sdelta \in Nat
    BY RangeEnds
  <2>2. k - 1 \in 0 .. n  BY <1>1
  <2>3. End(o, k - 1) \in Int  BY <2>2, RangeEnds
  <2>4. k = i \/ k < i \/ k - 1 >= i  BY <1>1
  <2>5. k - 1 >= i => End(o, i) <= End(o, k - 1)  BY <1>3
  <2>. QED BY <1>1, <2>1, <2>3, <2>4, <2>5
<1>4. \A k \in 0 .. n : k \in P
  <2>. HIDE DEF P, n
  <2>. QED BY <1>1, <1>2, <1>3, UpTo
<1>. QED BY <1>1, <1>4

LEMMA OneRange ==
  ASSUME NEW o, LinesLaidOut(o), NEW offset \in Int,
         NEW i \in 1 .. Len(o.table), NEW j \in 1 .. Len(o.table),
         Here(o, offset, i), Here(o, offset, j)
  PROVE  i = j
<1>1. ASSUME NEW a \in 1 .. Len(o.table), NEW b \in 1 .. Len(o.table), a < b,
             Here(o, offset, a), Here(o, offset, b)
      PROVE  FALSE
  <2>1. Len(o.table) \in Nat  BY RangeEnds
  <2>2. a \in 0 .. Len(o.table) /\ b - 1 \in a .. Len(o.table) /\ b - 1 \in 0 .. Len(o.table)
    BY <1>1, <2>1
  <2>3. End(o, a) <= End(o, b - 1)  BY <2>2, LaterEnds
  <2>4. End(o, a) \in Int /\ End(o, b - 1) \in Int  BY <2>2, RangeEnds
  <2>. QED BY <1>1, <2>3, <2>4 DEF Here
<1>. QED BY <1>1

\* What Python's search has after some ranges: the end and the line of the last,
\* and what it found in the one that holds the offset.
Searched(o, offset, S, k) ==
  /\ S.end = End(o, k) /\ S.line = Line(o, k)
  /\ (\A j \in 1 .. k : ~Here(o, offset, j)) => S.found = 0 /\ S.moved = TRUE
  /\ \A j \in 1 .. k : Here(o, offset, j) =>
       /\ S.moved = (o.table[j].ldelta # 0)
       /\ S.found = IF o.table[j].ldelta # NoLine THEN Line(o, j) ELSE 0

LEMMA PythonSearch ==
  ASSUME NEW o, LinesLaidOut(o), NEW offset \in Int
  PROVE  Searched(o, offset, PythonLine(o, offset), Len(o.table))
<1> DEFINE n == Len(o.table)
           S == CHOOSE f : f = [i \in 0 .. n |-> LineStep(o, offset, f, i)]
           P == {k \in 0 .. n : Searched(o, offset, S[k], k)}
<1>1. n \in Nat  BY RangeEnds
<1>2. PythonLine(o, offset) = S[n]  BY Zenon DEF PythonLine, LineStep
<1>3. S = [i \in 0 .. n |-> LineStep(o, offset, S, i)]  BY <1>1, LineSolution
<1>. HIDE DEF S
<1>4. \A k \in 0 .. n : S[k] = LineStep(o, offset, S, k)  BY <1>3
<1>5. 0 \in P
  <2>1. S[0] = [end |-> 0, line |-> o.co_firstlineno, found |-> 0, moved |-> TRUE]
    <3>1. 0 \in 0 .. n  BY <1>1
    <3>2. S[0] = LineStep(o, offset, S, 0)  BY <1>4, <3>1
    <3>. QED BY Zenon, <3>2 DEF LineStep
  <2>2. \A j \in 1 .. 0 : FALSE  OBVIOUS
  <2>3. S[0].end = End(o, 0) /\ S[0].line = Line(o, 0)  BY <2>1, RangeEnds
  <2>4. Searched(o, offset, S[0], 0)  BY <2>1, <2>2, <2>3 DEF Searched
  <2>. QED BY <1>1, <2>4
<1>6. ASSUME NEW k \in 1 .. n, k - 1 \in P PROVE k \in P
  <2> DEFINE r == o.table[k]
             here == S[k - 1].end <= offset /\ offset < S[k - 1].end + r.sdelta
  <2>1. k \in 0 .. n /\ k # 0 /\ k - 1 \in 0 .. n  BY <1>1
  <2>2. /\ S[k].end = S[k - 1].end + r.sdelta
        /\ S[k].line = S[k - 1].line + (IF r.ldelta = NoLine THEN 0 ELSE r.ldelta)
        /\ S[k].found = IF here /\ r.ldelta # NoLine THEN S[k].line ELSE S[k - 1].found
        /\ S[k].moved = IF here THEN r.ldelta # 0 ELSE S[k - 1].moved
    <3>1. S[k] = LineStep(o, offset, S, k)  BY <1>4, <2>1
    <3>. QED BY <2>1, <3>1 DEF LineStep
  <2>3. Searched(o, offset, S[k - 1], k - 1)  BY <1>6
  <2>4. S[k - 1].end = End(o, k - 1) /\ S[k - 1].line = Line(o, k - 1)
    BY <2>3 DEF Searched
  <2>5. S[k].end = End(o, k) /\ S[k].line = Line(o, k)  BY <2>2, <2>4, RangeEnds
  <2>6. here <=> Here(o, offset, k)  BY <2>2, <2>4, <2>5 DEF Here
  <2>. HIDE DEF here
  <2>7. CASE Here(o, offset, k)
    <3>1. \A j \in 1 .. (k - 1) : ~Here(o, offset, j)
      <4>1. SUFFICES ASSUME NEW j \in 1 .. (k - 1), Here(o, offset, j) PROVE FALSE  OBVIOUS
      <4>2. j \in 1 .. n /\ j # k  BY <1>1
      <4>. QED BY <2>7, <4>1, <4>2, OneRange
    <3>2. S[k - 1].found = 0  BY <2>3, <3>1 DEF Searched
    <3>3. /\ S[k].moved = (r.ldelta # 0)
          /\ S[k].found = IF r.ldelta # NoLine THEN Line(o, k) ELSE 0
      BY <2>2, <2>5, <2>6, <2>7, <3>2
    <3>4. \A j \in 1 .. k : Here(o, offset, j) => j = k
      <4>1. \A j \in 1 .. k : j = k \/ j \in 1 .. (k - 1)  OBVIOUS
      <4>. QED BY <3>1, <4>1
    <3>5. k \in 1 .. k  OBVIOUS
    <3>6. Searched(o, offset, S[k], k)  BY <2>5, <2>7, <3>3, <3>4, <3>5 DEF Searched
    <3>. QED BY <2>1, <3>6
  <2>8. CASE ~Here(o, offset, k)
    <3>1. S[k].found = S[k - 1].found /\ S[k].moved = S[k - 1].moved  BY <2>2, <2>6, <2>8
    <3>2. \A j \in 1 .. k : Here(o, offset, j) => j \in 1 .. (k - 1)
      <4>1. \A j \in 1 .. k : j = k \/ j \in 1 .. (k - 1)  OBVIOUS
      <4>. QED BY <2>8, <4>1
    <3>3. \A j \in 1 .. (k - 1) : j \in 1 .. k  OBVIOUS
    <3>4. (\A j \in 1 .. k : ~Here(o, offset, j)) => S[k].found = 0 /\ S[k].moved = TRUE
      BY <2>3, <3>1, <3>3 DEF Searched
    <3>5. \A j \in 1 .. k : Here(o, offset, j) =>
            /\ S[k].moved = (o.table[j].ldelta # 0)
            /\ S[k].found = IF o.table[j].ldelta # NoLine THEN Line(o, j) ELSE 0
      BY <2>3, <3>1, <3>2 DEF Searched
    <3>6. Searched(o, offset, S[k], k)  BY <2>5, <3>4, <3>5 DEF Searched
    <3>. QED BY <2>1, <3>6
  <2>. QED BY <2>7, <2>8
<1>7. \A k \in 0 .. n : k \in P
  <2>. HIDE DEF P, n
  <2>. QED BY <1>1, <1>5, <1>6, UpTo
<1>8. n \in 0 .. n  BY <1>1
<1>. QED BY <1>2, <1>7, <1>8

\* Of one line table: the search of the code finds what Python's finds.
LEMMA LineFound ==
  ASSUME NEW o, LinesLaidOut(o), NEW offset \in Int
  PROVE  LineForOffset(o, offset) =
           IF PythonLine(o, offset).moved THEN PythonLine(o, offset).found ELSE 0
<1> DEFINE S == PythonLine(o, offset)
           n == Len(o.table)
           H == Hits(o, offset)
<1>1. DOMAIN o.table = 1 .. n  BY RangeEnds
<1>2. Searched(o, offset, S, n)  BY PythonSearch
<1>3. H = {i \in 1 .. n : o.table[i].ldelta \notin {0, NoLine} /\ Here(o, offset, i)}
  BY <1>1 DEF Hits, Here
<1>4. LineForOffset(o, offset) = IF H = {} THEN 0 ELSE Line(o, CHOOSE i \in H : TRUE)
  BY DEF LineForOffset
<1>. HIDE DEF S, H, n
<1>5. CASE H = {}
  <2>1. LineForOffset(o, offset) = 0  BY <1>4, <1>5
  <2>2. CASE \A i \in 1 .. n : ~Here(o, offset, i)
    <3>1. S.found = 0  BY <1>2, <2>2 DEF Searched
    <3>. QED BY <2>1, <3>1 DEF S
  <2>3. CASE \E i \in 1 .. n : Here(o, offset, i)
    <3>1. PICK i \in 1 .. n : Here(o, offset, i)  BY <2>3
    <3>2. o.table[i].ldelta \in {0, NoLine}  BY <1>3, <1>5, <3>1
    <3>3. /\ S.moved = (o.table[i].ldelta # 0)
          /\ S.found = IF o.table[i].ldelta # NoLine THEN Line(o, i) ELSE 0
      BY <1>2, <3>1 DEF Searched
    <3>. QED BY <2>1, <3>2, <3>3 DEF S
  <2>. QED BY <2>2, <2>3
<1>6. CASE H # {}
  <2>1. PICK i \in H : i = CHOOSE j \in H : TRUE  BY <1>6
  <2>2. LineForOffset(o, offset) = Line(o, i)  BY <1>4, <1>6, <2>1
  <2>3. i \in 1 .. n /\ o.table[i].ldelta \notin {0, NoLine} /\ Here(o, offset, i)
    BY <1>3
  <2>4. S.moved = TRUE /\ S.found = Line(o, i)  BY <1>2, <2>3 DEF Searched
  <2>. QED BY <2>2, <2>4 DEF S
<1>. QED BY <1>5, <1>6

----------------------------------------------------------------------------
(* Integers. *)

LEMMA TimesNat ==
  ASSUME NEW a \in Nat, NEW b \in Nat
  PROVE  a * b \in Nat
  OBVIOUS

LEMMA TimesMonotone ==
  ASSUME NEW a \in Nat, NEW b \in Nat, NEW c \in Nat, b <= c
  PROVE  a * b <= a * c
<1>1. PICK d \in Nat : c = b + d
  <2>1. c - b \in Nat /\ c = b + (c - b)  OBVIOUS
  <2>. QED BY <2>1
<1>2. a * c = a * b + a * d  BY <1>1
<1>3. a * d \in Nat /\ a * b \in Nat  BY <1>1, TimesNat
<1>. QED BY <1>2, <1>3

LEMMA ThreeDigits ==
  ASSUME NEW b \in Nat, NEW x \in Nat, NEW y \in Nat, NEW z \in Nat
  PROVE  b * (b * z + y) + x = x + y * b + z * b * b
  OBVIOUS

LEMMA TimesAssoc ==
  ASSUME NEW a \in Nat, NEW b \in Nat, NEW c \in Nat
  PROVE  a * (b * c) = a * b * c
  OBVIOUS

NumberStep(s, base, f, k) == IF k = 0 THEN 0 ELSE base * f[k - 1] + s[Len(s) - k + 1]

LEMMA NumberSolution ==
  ASSUME NEW n \in Nat, NEW s, NEW base
  PROVE  \E f : f = [k \in 0 .. n |-> NumberStep(s, base, f, k)]
<1> DEFINE Solves(f, m) == f = [k \in 0 .. m |-> NumberStep(s, base, f, k)]
           P == {m \in 0 .. n : \E f : Solves(f, m)}
<1>1. 0 \in P
  <2> DEFINE f == [k \in 0 .. 0 |-> 0]
  <2>1. Solves(f, 0)  BY DEF NumberStep
  <2>. QED BY <2>1
<1>2. ASSUME NEW m \in 1 .. n, m - 1 \in P PROVE m \in P
  <2>1. PICK g : Solves(g, m - 1)  BY <1>2
  <2> DEFINE h == [k \in 0 .. m |-> NumberStep(s, base, g, k)]
  <2>2. \A k \in 0 .. (m - 1) : k \in 0 .. m /\ g[k] = NumberStep(s, base, g, k)  BY <2>1
  <2>3. \A k \in 0 .. (m - 1) : h[k] = g[k]  BY <2>2
  <2>. HIDE DEF h
  <2>4. ASSUME NEW k \in 0 .. m PROVE NumberStep(s, base, h, k) = NumberStep(s, base, g, k)
    <3>1. k = 0 \/ k - 1 \in 0 .. (m - 1)  OBVIOUS
    <3>2. k = 0 \/ h[k - 1] = g[k - 1]  BY <2>3, <3>1
    <3>. QED BY <3>2 DEF NumberStep
  <2>5. Solves(h, m)  BY <2>4 DEF h
  <2>. QED BY <2>5
<1>3. \A k \in 0 .. n : k \in P
  <2>. HIDE DEF P
  <2>. QED BY <1>1, <1>2, UpTo
<1>. QED BY <1>3

\* What the value of up to three digits is, and how large that of more.
LEMMA NumberOfDigits ==
  ASSUME NEW base \in Nat \ {0, 1}, NEW s \in Seq(0 .. (base - 1))
  PROVE  /\ Number(s, base) \in Nat
         /\ Len(s) = 0 => Number(s, base) = 0
         /\ Len(s) = 1 => Number(s, base) = s[1]
         /\ Len(s) = 2 => Number(s, base) = s[1] + s[2] * base
         /\ Len(s) = 3 => Number(s, base) = s[1] + s[2] * base + s[3] * base * base
         /\ Len(s) >= 4 /\ s[Len(s)] # 0 => Number(s, base) >= base * base * base
<1> DEFINE n == Len(s)
           f == CHOOSE g : g = [k \in 0 .. n |-> NumberStep(s, base, g, k)]
           P == {k \in 0 .. n : f[k] \in Nat}
           Q == {k \in 0 .. n : k >= 4 => f[k] >= base * base * base}
<1>1. n \in Nat /\ \A i \in 1 .. n : s[i] \in 0 .. (base - 1)
  <2>1. n \in Nat  BY LenProperties
  <2>2. \A i \in 1 .. n : s[i] \in 0 .. (base - 1)  BY ElementOfSeq
  <2>. QED BY <2>1, <2>2
<1>2. Number(s, base) = f[n]  BY Zenon DEF Number, NumberStep
<1>3. f = [k \in 0 .. n |-> NumberStep(s, base, f, k)]
  <2>1. \E g : g = [k \in 0 .. n |-> NumberStep(s, base, g, k)]  BY <1>1, NumberSolution
  <2>. QED BY Zenon, <2>1
<1>. HIDE DEF f
<1>4. \A k \in 0 .. n : f[k] = NumberStep(s, base, f, k)  BY <1>3
<1>5. f[0] = 0
  <2>1. 0 \in 0 .. n  BY <1>1
  <2>2. f[0] = NumberStep(s, base, f, 0)  BY <1>4, <2>1
  <2>. QED BY Zenon, <2>2 DEF NumberStep
<1>6. \A k \in 1 .. n : f[k] = base * f[k - 1] + s[n - k + 1]
  <2>1. TAKE k \in 1 .. n
  <2>2. k \in 0 .. n /\ k # 0  BY <1>1
  <2>3. f[k] = NumberStep(s, base, f, k)  BY <1>4, <2>2
  <2>. QED BY <2>2, <2>3 DEF NumberStep
<1>. HIDE DEF n
<1>7. \A k \in 1 .. n : s[n - k + 1] \in 0 .. (base - 1)
  <2>1. TAKE k \in 1 .. n
  <2>2. n - k + 1 \in 1 .. n  BY <1>1
  <2>. QED BY <1>1, <2>2
<1>8. \A k \in 0 .. n : f[k] \in Nat
  <2>1. 0 \in P  BY <1>1, <1>5
  <2>2. ASSUME NEW k \in 1 .. n, k - 1 \in P PROVE k \in P
    <3>1. f[k - 1] \in Nat /\ s[n - k + 1] \in Nat  BY <1>7, <2>2
    <3>2. base * f[k - 1] \in Nat  BY <3>1
    <3>. QED BY <1>1, <1>6, <3>1, <3>2
  <2>3. \A k \in 0 .. n : k \in P
    <3>. HIDE DEF P
    <3>. QED BY <1>1, <2>1, <2>2, UpTo
  <2>. QED BY <2>3
<1>9. ASSUME n >= 1 PROVE f[1] = s[n]
  <2>1. f[1] = base * f[1 - 1] + s[n - 1 + 1]  BY <1>1, <1>6, <1>9
  <2>2. n - 1 + 1 = n /\ base * 0 = 0 /\ s[n] \in Nat  BY <1>1, <1>9
  <2>. QED BY <1>5, <2>1, <2>2
<1>10. ASSUME n >= 2 PROVE f[2] = base * s[n] + s[n - 1]
  <2>1. f[2] = base * f[2 - 1] + s[n - 2 + 1]  BY <1>1, <1>6, <1>10
  <2>2. n - 2 + 1 = n - 1 /\ n >= 1  BY <1>1, <1>10
  <2>. QED BY <1>9, <2>1, <2>2
<1>11. ASSUME n >= 3 PROVE f[3] = base * (base * s[n] + s[n - 1]) + s[n - 2]
  <2>1. f[3] = base * f[3 - 1] + s[n - 3 + 1]  BY <1>1, <1>6, <1>11
  <2>2. n - 3 + 1 = n - 2 /\ n >= 2  BY <1>1, <1>11
  <2>. QED BY <1>10, <2>1, <2>2
<1>12. ASSUME n >= 4, s[n] # 0 PROVE f[n] >= base * base * base
  <2>1. s[n] \in Nat \ {0} /\ s[n - 1] \in Nat /\ s[n - 2] \in Nat
    <3>1. n \in 1 .. n /\ n - 1 \in 1 .. n /\ n - 2 \in 1 .. n  BY <1>1, <1>12
    <3>. QED BY <1>1, <1>12, <3>1
  <2>2. f[3] >= base * base
    <3>1. f[3] = base * (base * s[n] + s[n - 1]) + s[n - 2]  BY <1>1, <1>11, <1>12
    <3>2. base * s[n] >= base /\ base * s[n] \in Nat
      <4>1. 1 <= s[n] /\ s[n] \in Nat /\ 1 \in Nat /\ base \in Nat  BY <2>1
      <4>2. base * 1 <= base * s[n]  BY <4>1, TimesMonotone
      <4>3. base * s[n] \in Nat  BY <4>1, TimesNat
      <4>. QED BY <4>2, <4>3
    <3> DEFINE x == base * s[n] + s[n - 1]
    <3>3. x >= base /\ x \in Nat
      <4> DEFINE y == base * s[n]
      <4>1. y \in Nat /\ y >= base /\ s[n - 1] \in Nat  BY <2>1, <3>2
      <4>. HIDE DEF y
      <4>2. y + s[n - 1] >= base /\ y + s[n - 1] \in Nat  BY <4>1
      <4>. QED BY <4>2 DEF y
    <3>. HIDE DEF x
    <3>4. base * x >= base * base /\ base * x \in Nat /\ base * base \in Nat
      BY <3>3, TimesMonotone, TimesNat
    <3>5. f[3] = base * x + s[n - 2]  BY <3>1 DEF x
    <3>. QED BY <2>1, <3>4, <3>5
  <2>3. ASSUME NEW k \in 4 .. n, f[k - 1] >= base * base
        PROVE  f[k] >= base * base * base
    <3>1. k \in 1 .. n /\ k - 1 \in 0 .. n  BY <1>1
    <3>2. f[k] = base * f[k - 1] + s[n - k + 1]  BY <1>6, <3>1
    <3>3. f[k - 1] \in Nat /\ s[n - k + 1] \in Nat  BY <1>7, <1>8, <3>1
    <3>4. base * f[k - 1] >= base * (base * base)
      <4>. DEFINE x == base * base  y == f[k - 1]
      <4>1. x \in Nat /\ y \in Nat /\ y >= x  BY <2>3, <3>3
      <4>. HIDE DEF x, y
      <4>2. base * y >= base * x  BY <4>1
      <4>. QED BY <4>2 DEF x, y
    <3>5. base * (base * base) = base * base * base /\ base * f[k - 1] \in Nat  BY <3>3
    <3>6. base * base * base \in Nat  OBVIOUS
    <3>. QED BY <3>2, <3>3, <3>4, <3>5, <3>6
  <2>4. base * base * base >= base * base
    <3>. DEFINE x == base * base
    <3>1. x \in Nat  OBVIOUS
    <3>. HIDE DEF x
    <3>2. x * base >= x  BY <3>1
    <3>. QED BY <3>2 DEF x
  <2>5. 0 \in Q  BY <1>1
  <2>6. ASSUME NEW k \in 1 .. n, k - 1 \in Q PROVE k \in Q
    <3>1. k < 4 \/ k = 4 \/ k - 1 >= 4  OBVIOUS
    <3>2. CASE k < 4  BY <1>1, <3>2
    <3>3. CASE k = 4
      <4>1. k \in 4 .. n /\ k - 1 = 3  BY <1>1, <3>3
      <4>. QED BY <1>1, <2>2, <2>3, <4>1
    <3>4. CASE k - 1 >= 4
      <4>1. k \in 4 .. n /\ k - 1 \in 0 .. n  BY <1>1, <3>4
      <4>2. f[k - 1] >= base * base * base /\ f[k - 1] \in Nat  BY <1>8, <2>6, <3>4, <4>1
      <4>3. base * base \in Nat /\ base * base * base \in Nat  BY TimesNat
      <4>4. f[k - 1] >= base * base
        <5>. DEFINE x == base * base  y == base * base * base
        <5>1. x \in Nat /\ y \in Nat /\ y >= x /\ f[k - 1] >= y  BY <2>4, <4>2, <4>3
        <5>. HIDE DEF x, y
        <5>2. f[k - 1] >= x  BY <4>2, <5>1
        <5>. QED BY <5>2 DEF x
      <4>. QED BY <1>1, <2>3, <4>1, <4>4
    <3>. QED BY <3>1, <3>2, <3>3, <3>4
  <2>7. \A k \in 0 .. n : k \in Q
    <3>. HIDE DEF Q
    <3>. QED BY <1>1, <2>5, <2>6, UpTo
  <2>. QED BY <1>1, <1>12, <2>7
<1>13. n = 2 => f[n] = s[1] + s[2] * base
  <2>1. SUFFICES ASSUME n = 2 PROVE f[n] = s[1] + s[2] * base  OBVIOUS
  <2>2. s[1] \in Nat /\ s[2] \in Nat  BY <1>1, <2>1
  <2>. QED BY <1>10, <2>1, <2>2
<1>14. n = 3 => f[n] = s[1] + s[2] * base + s[3] * base * base
  <2>1. SUFFICES ASSUME n = 3 PROVE f[n] = s[1] + s[2] * base + s[3] * base * base  OBVIOUS
  <2>2. s[1] \in Nat /\ s[2] \in Nat /\ s[3] \in Nat  BY <1>1, <2>1
  <2>3. f[3] = base * (base * s[3] + s[2]) + s[1]  BY <1>11, <2>1
  <2>4. base * (base * s[3] + s[2]) + s[1] = s[1] + s[2] * base + s[3] * base * base
    <3>1. base \in Nat  OBVIOUS
    <3>. QED BY Zenon, <2>2, <3>1, ThreeDigits
  <2>. QED BY <2>1, <2>3, <2>4
<1>15. n \in 0 .. n  BY <1>1
<1>. QED BY <1>1, <1>2, <1>5, <1>8, <1>9, <1>12, <1>13, <1>14, <1>15 DEF n

LEMMA WordParts ==
  /\ WordSize \in Nat /\ WordSize \div 2 \in Nat /\ WordSize = 2 * (WordSize \div 2)
  /\ DigitBase \in Nat \ {0, 1} /\ SignedHigh \in Nat \ {0}
  /\ WordSize \div 2 = SignedHigh * (DigitBase * DigitBase)
  /\ DigitBase * DigitBase \in Nat /\ DigitBase * DigitBase <= WordSize \div 2
  /\ DigitBase * DigitBase * DigitBase >= WordSize
<1> DEFINE q == DigitBase * DigitBase
           h == SignedHigh * q
<1>1. /\ DigitBase \in Nat \ {0, 1} /\ SignedHigh \in Nat \ {0} /\ 2 * SignedHigh <= DigitBase
      /\ WordSize = 2 * SignedHigh * DigitBase * DigitBase
  BY SizesAssumption
<1>2. q \in Nat  BY <1>1, TimesNat
<1>3. h \in Nat  BY <1>1, <1>2, TimesNat
<1>4. WordSize = 2 * h
  <2>1. 2 * SignedHigh * DigitBase * DigitBase = 2 * (SignedHigh * (DigitBase * DigitBase))
    BY <1>1
  <2>. QED BY <1>1, <2>1
<1>5. q <= h
  <2>1. q * 1 <= q * SignedHigh  BY <1>1, <1>2, TimesMonotone
  <2>2. q * 1 = q /\ q * SignedHigh = SignedHigh * q  BY <1>1, <1>2
  <2>. QED BY <2>1, <2>2
<1>6. q * DigitBase >= WordSize
  <2>1. 2 * SignedHigh \in Nat  BY <1>1
  <2>2. q * (2 * SignedHigh) <= q * DigitBase  BY <1>1, <1>2, <2>1, TimesMonotone
  <2>3. q * (2 * SignedHigh) = 2 * (SignedHigh * q)  BY <1>1, <1>2
  <2>. QED BY <1>4, <2>2, <2>3
<1>. HIDE DEF h
<1>7. WordSize \in Nat /\ WordSize \div 2 = h  BY <1>3, <1>4
<1>8. h = SignedHigh * (DigitBase * DigitBase)  BY DEF h
<1>9. DigitBase * DigitBase \in Nat /\ DigitBase * DigitBase <= h  BY <1>2, <1>5
<1>10. DigitBase * DigitBase * DigitBase >= WordSize  BY <1>6
<1>. QED BY <1>1, <1>3, <1>4, <1>7, <1>8, <1>9, <1>10

LEMMA SignedIsItself ==
  ASSUME NEW v \in Int, -(WordSize \div 2) < v, v < WordSize \div 2
  PROVE  Signed(v) = v /\ FitsWord(v)
<1> DEFINE h == WordSize \div 2
<1>1. h \in Nat /\ WordSize = 2 * h /\ -h < v /\ v < h  BY WordParts
<1>. HIDE DEF h
<1>2. h \in Nat \ {0}  BY <1>1
<1>3. CASE v >= 0
  <2>1. v % (2 * h) = v  BY <1>1, <1>2, <1>3
  <2>2. v % WordSize = v /\ ~(v % WordSize >= h)  BY <1>1, <2>1
  <2>. QED BY <1>1, <1>3, <2>2 DEF Signed, FitsWord, h
<1>4. CASE v < 0
  <2>1. v % (2 * h) = v + 2 * h  BY <1>1, <1>2, <1>4
  <2>2. v % WordSize = v + WordSize /\ v % WordSize >= h  BY <1>1, <1>4, <2>1
  <2>. QED BY <1>1, <1>4, <2>2 DEF Signed, FitsWord, h
<1>. QED BY <1>3, <1>4

LEMMA FirstPart ==
  ASSUME NEW S, NEW s \in Seq(S), NEW n \in 0 .. Len(s)
  PROVE  /\ SubSeq(s, 1, n) \in Seq(S) /\ Len(SubSeq(s, 1, n)) = n
         /\ \A i \in 1 .. n : SubSeq(s, 1, n)[i] = s[i] /\ s[i] \in S
<1>1. Len(s) \in Nat  BY LenProperties
<1>2. \A i \in 1 .. n : i \in 1 .. Len(s)  BY <1>1
<1>3. \A i \in 1 .. n : s[i] \in S  BY <1>2, ElementOfSeq
<1>4. SubSeq(s, 1, n) = [i \in 1 .. n |-> s[i]]
  BY <1>1
<1>. QED BY <1>1, <1>3, <1>4

LEMMA TwoDigits ==
  ASSUME NEW b \in Nat \ {0}, NEW x \in 0 .. (b - 1), NEW y \in 0 .. (b - 1)
  PROVE  x + y * b \in Nat /\ x + y * b < b * b
<1>1. b * y <= b * (b - 1) /\ b * y \in Nat  BY TimesMonotone, TimesNat
<1>2. b * (b - 1) = b * b - b /\ y * b = b * y /\ b * b \in Nat  BY TimesNat
<1>. QED BY <1>1, <1>2

LEMMA TimesThree ==
  ASSUME NEW a \in Nat, NEW b \in Nat
  PROVE  a * b * b = b * b * a
  OBVIOUS

\* The sign and the digits left.
DigitsForm(o) == Form("digits", <<IF o.ob_size < 0 THEN -1 ELSE 1, DigitsLeft(o)>>)

\* A size whose bytes fit a word is read as it is.
LEMMA SizeRead ==
  ASSUME NEW o, IntLaidOut(o), SizeFits(Magnitude(o.ob_size), 8)
  PROVE  /\ DigitSpace \in Nat /\ Magnitude(o.ob_size) \in 0 .. (DigitSpace - 1)
         /\ DigitsRead(o) = Magnitude(o.ob_size)
<1> DEFINE n == Magnitude(o.ob_size)
<1>1. n \in Nat /\ WordSize \in Nat  BY WordParts DEF IntLaidOut, Magnitude
<1>2. n * 8 < WordSize  BY DEF SizeFits
<1>. HIDE DEF n
<1>3. DigitSpace \in Nat /\ n < DigitSpace
  <2>1. n + 1 <= WordSize \div 4
    <3>1. 4 * (n + 1) <= WordSize \/ n = 0
      BY <1>1, <1>2
    <3>2. WordSize >= 4
      <4>1. /\ SignedHigh \in Nat \ {0} /\ DigitBase \in Nat \ {0, 1}
            /\ WordSize \div 2 = SignedHigh * (DigitBase * DigitBase)
            /\ DigitBase * DigitBase <= WordSize \div 2
            /\ WordSize = 2 * (WordSize \div 2)
        BY WordParts
      <4>2. DigitBase * 1 <= DigitBase * DigitBase  BY <4>1, TimesMonotone
      <4>3. 2 <= WordSize \div 2
        <5>1. DigitBase >= 2 /\ DigitBase * 1 = DigitBase /\ DigitBase * DigitBase \in Nat
          BY <4>1, TimesNat
        <5>. QED BY <1>1, <4>1, <4>2, <5>1
      <4>. QED BY <1>1, <4>1, <4>3
    <3>. QED BY <1>1, <3>1, <3>2
  <2>. QED BY <1>1, <2>1 DEF DigitSpace
<1>4. n % DigitSpace = n  BY <1>1, <1>3
<1>. QED BY <1>1, <1>3, <1>4 DEF DigitsRead, n

LEMMA FewDigits ==
  ASSUME NEW o, IntLaidOut(o), Magnitude(o.ob_size) <= Len(o.digits), Magnitude(o.ob_size) <= 2
  PROVE  IntText(o) = Form("number", <<IntIs(o)>>) /\ FitsWord(IntIs(o))
<1> DEFINE n == Magnitude(o.ob_size)
           s == SubSeq(o.digits, 1, n)
           low == Low(o, n)
           sign == IF o.ob_size < 0 THEN -1 ELSE 1
           h == WordSize \div 2
<1>1. /\ o.ob_size \in Int /\ o.digits \in Seq(0 .. (DigitBase - 1))
      /\ n \in Nat /\ Len(o.digits) \in Nat /\ n \in 0 .. Len(o.digits)
  <2>1. o.ob_size \in Int /\ o.digits \in Seq(0 .. (DigitBase - 1))  BY DEF IntLaidOut
  <2>2. n \in Nat  BY <2>1 DEF Magnitude
  <2>3. Len(o.digits) \in Nat  BY <2>1, LenProperties
  <2>. QED BY <2>1, <2>2, <2>3
<1>2. /\ s \in Seq(0 .. (DigitBase - 1)) /\ Len(s) = n
      /\ \A i \in 1 .. n : s[i] = o.digits[i] /\ o.digits[i] \in 0 .. (DigitBase - 1)
  BY <1>1, FirstPart
<1>3. DigitBase \in Nat \ {0, 1} /\ DigitBase * DigitBase <= h /\ h \in Nat
      /\ DigitBase * DigitBase \in Nat
  BY WordParts
<1>4. \A d \in 0 .. (DigitBase - 1) : d % DigitBase = d  BY <1>3
<1>. HIDE DEF s
<1>5. low = Number(s, DigitBase)
  <2>1. n = 0 \/ n = 1 \/ n = 2  BY <1>1
  <2>2. CASE n = 0
    <3>1. low = 0 + 0 * DigitBase  BY <2>2 DEF Low
    <3>2. 0 + 0 * DigitBase = 0  BY <1>3
    <3>. QED BY <1>2, <1>3, <2>2, <3>1, <3>2, NumberOfDigits
  <2>3. CASE n = 1
    <3>1. 1 \in 1 .. n  BY <2>3
    <3>2. o.digits[1] % DigitBase = o.digits[1] /\ s[1] = o.digits[1] /\ s[1] \in Nat
      BY <1>2, <1>3, <1>4, <3>1
    <3>3. low = (o.digits[1] % DigitBase) + 0 * DigitBase  BY <2>3 DEF Low
    <3>4. low = s[1]  BY <1>3, <3>2, <3>3
    <3>. QED BY <1>2, <1>3, <2>3, <3>4, NumberOfDigits
  <2>4. CASE n = 2
    <3>1. 1 \in 1 .. n /\ 2 \in 1 .. n  BY <2>4
    <3>2. /\ o.digits[1] % DigitBase = o.digits[1] /\ s[1] = o.digits[1]
          /\ o.digits[2] % DigitBase = o.digits[2] /\ s[2] = o.digits[2]
      BY <1>2, <1>3, <1>4, <3>1
    <3>3. low = (o.digits[1] % DigitBase) + (o.digits[2] % DigitBase) * DigitBase
      BY <2>4 DEF Low
    <3>4. low = s[1] + s[2] * DigitBase  BY <3>2, <3>3
    <3>. QED BY <1>2, <1>3, <2>4, <3>4, NumberOfDigits
  <2>. QED BY <2>1, <2>2, <2>3, <2>4
<1>6. low \in Nat /\ low < h
  <2>1. low \in Nat  BY <1>2, <1>3, <1>5, NumberOfDigits
  <2>2. low < DigitBase * DigitBase
    <3>1. n = 0 \/ n = 1 \/ n = 2  BY <1>1
    <3>2. DigitBase <= DigitBase * DigitBase
      <4>1. DigitBase * 1 <= DigitBase * DigitBase  BY <1>3, TimesMonotone
      <4>. QED BY <1>3, <4>1
    <3>3. CASE n = 0
      <4>1. low = 0  BY <1>2, <1>3, <1>5, <3>3, NumberOfDigits
      <4>. QED BY <1>3, <3>2, <4>1
    <3>4. CASE n = 1
      <4>1. low = s[1]  BY <1>2, <1>3, <1>5, <3>4, NumberOfDigits
      <4>2. s[1] \in 0 .. (DigitBase - 1)  BY <1>2, <3>4
      <4>. QED BY <1>3, <3>2, <4>1, <4>2
    <3>5. CASE n = 2
      <4>1. low = s[1] + s[2] * DigitBase  BY <1>2, <1>3, <1>5, <3>5, NumberOfDigits
      <4>2. s[1] \in 0 .. (DigitBase - 1) /\ s[2] \in 0 .. (DigitBase - 1)  BY <1>2, <3>5
      <4>3. s[1] + s[2] * DigitBase < DigitBase * DigitBase  BY <1>3, <4>2, TwoDigits
      <4>. QED BY <4>1, <4>3
    <3>. QED BY <3>1, <3>3, <3>4, <3>5
  <2>. QED BY <1>3, <2>1, <2>2
<1>7. IntText(o) = Form("number", <<Signed(sign * low)>>)  BY DEF IntText
<1>8. IntIs(o) = IF o.ob_size < 0 THEN -low ELSE low  BY <1>5 DEF IntIs, s
<1>. HIDE DEF low, n, h
<1>9. sign * low = IntIs(o) /\ IntIs(o) \in Int /\ -h < IntIs(o) /\ IntIs(o) < h
  <2>1. CASE o.ob_size < 0
    <3>1. sign = -1 /\ IntIs(o) = -low  BY <1>8, <2>1
    <3>2. (-1) * low = -low  BY <1>6
    <3>. QED BY <1>3, <1>6, <3>1, <3>2
  <2>2. CASE ~(o.ob_size < 0)
    <3>1. sign = 1 /\ IntIs(o) = low  BY <1>8, <2>2
    <3>2. 1 * low = low  BY <1>6
    <3>. QED BY <1>3, <1>6, <3>1, <3>2
  <2>. QED BY <2>1, <2>2
<1>10. Signed(IntIs(o)) = IntIs(o) /\ FitsWord(IntIs(o))  BY <1>9, SignedIsItself DEF h
<1>. QED BY <1>7, <1>9, <1>10

LEMMA ThirdDigit ==
  ASSUME NEW o, IntLaidOut(o), Magnitude(o.ob_size) <= Len(o.digits), Magnitude(o.ob_size) = 3
  PROVE  IntText(o) = IF FitsWord(IntIs(o)) THEN Form("number", <<IntIs(o)>>) ELSE DigitsForm(o)
<1> DEFINE n == Magnitude(o.ob_size)
           s == SubSeq(o.digits, 1, 3)
           low == Low(o, 3)
           sign == IF o.ob_size < 0 THEN -1 ELSE 1
           third == o.digits[3]
           q == DigitBase * DigitBase
           h == WordSize \div 2
           value == low + third * DigitBase * DigitBase
<1>1. /\ o.digits \in Seq(0 .. (DigitBase - 1)) /\ 3 \in 0 .. Len(o.digits)
      /\ o.ob_size \in Int
  <2>1. o.digits \in Seq(0 .. (DigitBase - 1)) /\ o.ob_size \in Int  BY DEF IntLaidOut
  <2>2. Len(o.digits) \in Nat  BY <2>1, LenProperties
  <2>. QED BY <2>1, <2>2
<1>2. /\ s \in Seq(0 .. (DigitBase - 1)) /\ Len(s) = 3
      /\ \A i \in 1 .. 3 : s[i] = o.digits[i] /\ o.digits[i] \in 0 .. (DigitBase - 1)
  BY <1>1, FirstPart
<1>3. /\ DigitBase \in Nat \ {0, 1} /\ SignedHigh \in Nat \ {0} /\ h \in Nat
      /\ q \in Nat /\ q <= h /\ WordSize = 2 * h /\ h = SignedHigh * q
  BY WordParts
<1>. HIDE DEF s
<1>4. /\ o.digits[1] = s[1] /\ o.digits[2] = s[2] /\ third = s[3]
      /\ s[1] \in 0 .. (DigitBase - 1) /\ s[2] \in 0 .. (DigitBase - 1)
      /\ s[3] \in 0 .. (DigitBase - 1)
  BY <1>2
<1>5. low = s[1] + s[2] * DigitBase
  <2>1. \A d \in 0 .. (DigitBase - 1) : d % DigitBase = d  BY <1>3
  <2>2. low = (o.digits[1] % DigitBase) + (o.digits[2] % DigitBase) * DigitBase  BY DEF Low
  <2>3. o.digits[1] % DigitBase = s[1] /\ o.digits[2] % DigitBase = s[2]  BY <1>4, <2>1
  <2>. QED BY <2>2, <2>3
<1>6. Number(s, DigitBase) = value
  <2>1. Number(s, DigitBase) = s[1] + s[2] * DigitBase + s[3] * DigitBase * DigitBase
    BY <1>2, <1>3, NumberOfDigits
  <2>. QED BY <1>4, <1>5, <2>1
<1>7. low \in Nat /\ low < q
  <2>1. s[1] + s[2] * DigitBase \in Nat /\ s[1] + s[2] * DigitBase < DigitBase * DigitBase
    BY <1>3, <1>4, TwoDigits
  <2>. QED BY <1>5, <2>1
<1>8. IntIs(o) = IF o.ob_size < 0 THEN -value ELSE value
  BY <1>6 DEF IntIs, s
<1>9. IntText(o) = IF third < SignedHigh THEN Form("number", <<Signed(sign * value)>>)
                   ELSE IF third < 2 * SignedHigh /\ sign = 1
                   THEN Form("number", <<value % WordSize>>)
                   ELSE DigitsForm(o)
  BY DEF IntText, DigitsForm
<1>10. value = low + q * third /\ third \in Nat /\ q * third \in Nat
  <2>1. third \in Nat /\ DigitBase \in Nat  BY <1>3, <1>4
  <2>2. third * DigitBase * DigitBase = DigitBase * DigitBase * third  BY <2>1, TimesThree
  <2>3. value = low + q * third  BY <2>2
  <2>4. q * third \in Nat
    <3>. HIDE DEF q, third
    <3>. QED BY <1>3, <2>1, TimesNat
  <2>. QED BY <2>1, <2>3, <2>4
<1>. HIDE DEF low, value, third, q, h, sign
<1>11. value \in Nat  BY <1>7, <1>10
<1>12. CASE third < SignedHigh
  <2>1. q * third <= q * (SignedHigh - 1)  BY <1>3, <1>10, <1>12, TimesMonotone
  <2>2. q * (SignedHigh - 1) = h - q  BY <1>3
  <2>3. value < h  BY <1>3, <1>7, <1>10, <2>1, <2>2
  <2>4. sign * value = IntIs(o) /\ IntIs(o) \in Int /\ -h < IntIs(o) /\ IntIs(o) < h
    <3>1. CASE o.ob_size < 0
      <4>1. sign = -1 /\ IntIs(o) = -value  BY <1>8, <3>1 DEF sign
      <4>2. (-1) * value = -value  BY <1>11
      <4>. QED BY <1>3, <1>11, <2>3, <4>1, <4>2
    <3>2. CASE ~(o.ob_size < 0)
      <4>1. sign = 1 /\ IntIs(o) = value  BY <1>8, <3>2 DEF sign
      <4>2. 1 * value = value  BY <1>11
      <4>. QED BY <1>3, <1>11, <2>3, <4>1, <4>2
    <3>. QED BY <3>1, <3>2
  <2>5. Signed(IntIs(o)) = IntIs(o) /\ FitsWord(IntIs(o))  BY <2>4, SignedIsItself DEF h
  <2>. QED BY <1>9, <1>12, <2>4, <2>5
<1>13. CASE ~(third < SignedHigh)
  <2>1. q * SignedHigh <= q * third  BY <1>3, <1>10, <1>13, TimesMonotone
  <2>2. q * SignedHigh = h  BY <1>3
  <2>3. value >= h  BY <1>3, <1>7, <1>10, <2>1, <2>2
  <2>4. CASE third < 2 * SignedHigh
    <3>1. q * third <= q * (2 * SignedHigh - 1)  BY <1>3, <1>10, <2>4, TimesMonotone
    <3>2. q * (2 * SignedHigh - 1) = 2 * h - q  BY <1>3
    <3>3. value < WordSize  BY <1>3, <1>7, <1>10, <3>1, <3>2
    <3>4. value % WordSize = value  BY <1>3, <1>11, <3>3
    <3>5. CASE o.ob_size < 0
      <4>1. sign = -1 /\ IntIs(o) = -value  BY <1>8, <3>5 DEF sign
      <4>2. ~FitsWord(IntIs(o))  BY <1>3, <1>11, <2>3, <4>1 DEF FitsWord, h
      <4>3. sign # 1  BY <4>1
      <4>. QED BY <1>9, <1>13, <4>2, <4>3
    <3>6. CASE ~(o.ob_size < 0)
      <4>1. sign = 1 /\ IntIs(o) = value  BY <1>8, <3>6 DEF sign
      <4>2. FitsWord(IntIs(o))  BY <1>3, <1>11, <3>3, <4>1 DEF FitsWord, h
      <4>. QED BY <1>9, <1>13, <2>4, <3>4, <4>1, <4>2
    <3>. QED BY <3>5, <3>6
  <2>5. CASE ~(third < 2 * SignedHigh)
    <3>1. q * (2 * SignedHigh) <= q * third  BY <1>3, <1>10, <2>5, TimesMonotone
    <3>2. q * (2 * SignedHigh) = 2 * h  BY <1>3
    <3>3. value >= WordSize  BY <1>3, <1>7, <1>10, <3>1, <3>2
    <3>4. IntIs(o) = value \/ IntIs(o) = -value  BY <1>8
    <3>5. ~FitsWord(IntIs(o))  BY <1>3, <1>11, <3>3, <3>4 DEF FitsWord, h
    <3>. QED BY <1>9, <1>13, <2>5, <3>5
  <2>. QED BY <2>4, <2>5
<1>. QED BY <1>12, <1>13

LEMMA ManyDigits ==
  ASSUME NEW o, IntLaidOut(o), Magnitude(o.ob_size) <= Len(o.digits), Magnitude(o.ob_size) > 3
  PROVE  /\ IntText(o) = DigitsForm(o) /\ ~FitsWord(IntIs(o))
         /\ Number(SubSeq(o.digits, 1, Magnitude(o.ob_size)), DigitBase) = Magnitude(IntIs(o))
<1> DEFINE n == Magnitude(o.ob_size)
           s == SubSeq(o.digits, 1, n)
           v == Number(s, DigitBase)
           h == WordSize \div 2
<1>1. /\ o.ob_size \in Int /\ o.digits \in Seq(0 .. (DigitBase - 1)) /\ n \in 0 .. Len(o.digits)
      /\ DOMAIN o.digits = 1 .. Len(o.digits) /\ n > 3
  <2>1. o.ob_size \in Int /\ o.digits \in Seq(0 .. (DigitBase - 1))  BY DEF IntLaidOut
  <2>2. n \in Nat  BY <2>1 DEF Magnitude
  <2>3. Len(o.digits) \in Nat /\ DOMAIN o.digits = 1 .. Len(o.digits)  BY <2>1, LenProperties
  <2>. QED BY <2>1, <2>2, <2>3
<1>2. /\ s \in Seq(0 .. (DigitBase - 1)) /\ Len(s) = n
      /\ \A i \in 1 .. n : s[i] = o.digits[i] /\ o.digits[i] \in 0 .. (DigitBase - 1)
  <2>1. n \in 0 .. Len(o.digits) /\ o.digits \in Seq(0 .. (DigitBase - 1))  BY <1>1
  <2>. HIDE DEF n
  <2>. QED BY <2>1, FirstPart
<1>3. o.digits[n] # 0
  <2>1. n \in DOMAIN o.digits  BY <1>1
  <2>. QED BY <2>1 DEF IntLaidOut
<1>. HIDE DEF n, s
<1>4. s[n] # 0  BY <1>1, <1>2, <1>3
<1>5. /\ DigitBase \in Nat \ {0, 1} /\ h \in Nat /\ WordSize = 2 * h
      /\ DigitBase * DigitBase * DigitBase >= WordSize
  BY WordParts
<1>6. v \in Nat /\ v >= DigitBase * DigitBase * DigitBase
  <2>1. Len(s) >= 4 /\ s[Len(s)] # 0  BY <1>1, <1>2, <1>4
  <2>. QED BY <1>2, <1>5, <2>1, NumberOfDigits
<1>7. v >= WordSize
  <2> DEFINE c == DigitBase * DigitBase * DigitBase
  <2>1. c \in Nat  BY <1>5, TimesNat
  <2>2. c >= WordSize /\ v >= c  BY <1>5, <1>6
  <2>. HIDE DEF c, v
  <2>. QED BY <1>5, <1>6, <2>1, <2>2
<1>8. IntIs(o) = v \/ IntIs(o) = -v  BY DEF IntIs, s, n
<1>. HIDE DEF v
<1>9. ~FitsWord(IntIs(o))  BY <1>5, <1>6, <1>7, <1>8 DEF FitsWord
<1>10. IntText(o) = DigitsForm(o)  BY <1>1 DEF IntText, DigitsForm, n
<1>11. v \in Nat
  <2>1. Len(s) >= 4 /\ s[Len(s)] # 0  BY <1>1, <1>2, <1>4
  <2>. QED BY <1>2, <1>5, <2>1, NumberOfDigits DEF v
<1>12. v = Magnitude(IntIs(o))  BY <1>8, <1>11 DEF Magnitude
<1>. QED BY <1>9, <1>10, <1>12 DEF v, s, n

\* What is made of an integer.
LEMMA IntDecoded ==
  ASSUME NEW o, IntLaidOut(o), SizeFits(Magnitude(o.ob_size), 8)
  PROVE  LET made == IF ~DigitsExist(o) THEN Invalid
                     ELSE IF DigitsRead(o) > Len(o.digits) THEN Unreadable ELSE IntText(o)
         IN IF IntReadable(o)
            THEN made = IF FitsWord(IntIs(o)) THEN Form("number", <<IntIs(o)>>) ELSE DigitsForm(o)
            ELSE made \in {Invalid, Unreadable}
<1> DEFINE n == Magnitude(o.ob_size)
           len == Len(o.digits)
<1>1. /\ o.ob_size \in Int /\ o.before \in Nat /\ o.digits \in Seq(0 .. (DigitBase - 1))
      /\ o.before + len < DigitSpace /\ 2 * len < DigitSpace
  BY DEF IntLaidOut
<1>2. len \in Nat /\ DigitSpace \in Nat /\ DigitsRead(o) = n
  BY <1>1, LenProperties, SizeRead
<1>3. /\ n = (IF o.ob_size < 0 THEN -o.ob_size ELSE o.ob_size) /\ n \in Nat
  BY <1>1 DEF Magnitude
<1>4. ~(n > len) <=> n <= len  BY <1>2, <1>3
<1>5. DigitsExist(o) <=> /\ o.digits # <<>>
                         /\ (o.before + o.ob_size) % DigitSpace <= o.before + len
  BY DEF DigitsExist
<1>6. IntReadable(o) <=> n <= len /\ o.digits # <<>> /\ (o.ob_size < 0 => n <= o.before)
  BY DEF IntReadable
<1>7. n <= len => IntText(o) = IF FitsWord(IntIs(o)) THEN Form("number", <<IntIs(o)>>)
                               ELSE DigitsForm(o)
  <2>1. n <= 2 \/ n = 3 \/ n > 3  BY <1>3
  <2>. QED BY <2>1, FewDigits, ThirdDigit, ManyDigits
<1>. HIDE DEF n, len
<1>8. CASE IntReadable(o)
  <2>1. n <= len  BY <1>6, <1>8
  <2>2. o.before + o.ob_size \in 0 .. (DigitSpace - 1) /\ o.before + o.ob_size <= o.before + len
    <3>1. o.ob_size < 0 => n = -o.ob_size /\ n <= o.before  BY <1>3, <1>6, <1>8
    <3>2. ~(o.ob_size < 0) => n = o.ob_size  BY <1>3
    <3>. QED BY <1>1, <1>2, <2>1, <3>1, <3>2
  <2>3. DigitsExist(o)
    <3>1. (o.before + o.ob_size) % DigitSpace = o.before + o.ob_size  BY <1>2, <2>2
    <3>. QED BY <1>5, <1>6, <1>8, <2>2, <3>1
  <2>. QED BY <1>2, <1>4, <1>7, <1>8, <2>1, <2>3 DEF len
<1>9. CASE ~IntReadable(o)
  <2>1. CASE ~(n <= len)
    <3>1. n > len  BY <1>4, <2>1
    <3>. QED BY <1>2, <1>9, <3>1 DEF len
  <2>2. CASE n <= len /\ o.digits = <<>>
    <3>1. ~DigitsExist(o)  BY <2>2 DEF DigitsExist
    <3>. QED BY <1>9, <3>1
  <2>3. CASE n <= len /\ o.digits # <<>>
    <3>1. o.ob_size < 0 /\ n > o.before  BY <1>1, <1>3, <1>6, <1>9, <2>3
    <3> DEFINE x == o.before + o.ob_size
    <3>2. x \in Int /\ x < 0 /\ x >= -len /\ -len > -DigitSpace
      BY <1>1, <1>2, <1>3, <2>3, <3>1
    <3>3. x % DigitSpace = x + DigitSpace
      <4>. HIDE DEF x
      <4>. QED BY <1>2, <3>2
    <3>4. x + DigitSpace > o.before + len  BY <1>1, <1>2, <1>3, <2>3, <3>1
    <3>5. ~DigitsExist(o)  BY <1>1, <1>2, <1>5, <3>2, <3>3, <3>4
    <3>. QED BY <1>9, <3>5
  <2>. QED BY <2>1, <2>2, <2>3
<1>. QED BY <1>8, <1>9

----------------------------------------------------------------------------
(* Strings. *)

\* One to four bytes stand for a character.
LEMMA Encoded ==
  ASSUME NEW ch \in Nat
  PROVE  /\ Len(Encode(ch)) \in Nat
         /\ ch < 128 => Len(Encode(ch)) = 1
         /\ Character(Encode(ch)) = ch
<1>1. CASE ch < 128
  <2>1. Encode(ch) = <<ch>>  BY <1>1 DEF Encode
  <2>2. Len(Encode(ch)) = 1 /\ Encode(ch)[1] = ch  BY <2>1
  <2>. QED BY <2>2 DEF Character
<1>2. CASE ch >= 128 /\ ch < 2048
  <2> DEFINE a == ch \div 64  b == ch % 64
  <2>1. Encode(ch) = <<192 + a, 128 + b>>  BY <1>2 DEF Encode
  <2>2. a \in Int /\ b \in Int /\ ch = 64 * a + b  OBVIOUS
  <2>. HIDE DEF a, b
  <2>3. Len(Encode(ch)) = 2 /\ Encode(ch)[1] = 192 + a /\ Encode(ch)[2] = 128 + b  BY <2>1
  <2>4. Character(Encode(ch)) = 64 * ((192 + a) - 192) + ((128 + b) - 128)
    BY <2>3 DEF Character
  <2>. QED BY <1>2, <2>2, <2>3, <2>4
<1>3. CASE ch >= 2048 /\ ch < 65536
  <2> DEFINE a == ch \div 4096  b == (ch \div 64) % 64  c == ch % 64
  <2>1. Encode(ch) = <<224 + a, 128 + b, 128 + c>>  BY <1>3 DEF Encode
  <2>2. a \in Int /\ b \in Int /\ c \in Int /\ ch = 4096 * a + 64 * b + c  OBVIOUS
  <2>. HIDE DEF a, b, c
  <2>3. /\ Len(Encode(ch)) = 3
        /\ Encode(ch)[1] = 224 + a /\ Encode(ch)[2] = 128 + b /\ Encode(ch)[3] = 128 + c
    BY <2>1
  <2>4. Character(Encode(ch)) = 4096 * ((224 + a) - 224) + 64 * ((128 + b) - 128)
                                + ((128 + c) - 128)
    BY <2>3 DEF Character
  <2>. QED BY <1>3, <2>2, <2>3, <2>4
<1>4. CASE ch >= 65536
  <2> DEFINE a == ch \div 262144  b == (ch \div 4096) % 64  c == (ch \div 64) % 64
             d == ch % 64
  <2>1. Encode(ch) = <<240 + a, 128 + b, 128 + c, 128 + d>>  BY <1>4 DEF Encode
  <2>2. /\ a \in Int /\ b \in Int /\ c \in Int /\ d \in Int
        /\ ch = 262144 * a + 4096 * b + 64 * c + d
    OBVIOUS
  <2>. HIDE DEF a, b, c, d
  <2>3. /\ Len(Encode(ch)) = 4
        /\ Encode(ch)[1] = 240 + a /\ Encode(ch)[2] = 128 + b
        /\ Encode(ch)[3] = 128 + c /\ Encode(ch)[4] = 128 + d
    BY <2>1
  <2>4. Character(Encode(ch)) = 262144 * ((240 + a) - 240) + 4096 * ((128 + b) - 128)
                                + 64 * ((128 + c) - 128) + ((128 + d) - 128)
    BY <2>3 DEF Character
  <2>. QED BY <1>4, <2>2, <2>3, <2>4
<1>. QED BY <1>1, <1>2, <1>3, <1>4

\* The text of the first characters, and its bytes: one for each, if all are ASCII.
LEMMA TextBytes ==
  ASSUME NEW o, StringLaidOut(o), NEW n \in 0 .. Len(o.chars)
  PROVE  /\ Len(Text(o, n)) = n /\ DOMAIN Text(o, n) = 1 .. n
         /\ \A i \in 1 .. n : o.chars[i] \in Nat /\ Text(o, n)[i] = Encode(o.chars[i])
         /\ Bytes(Text(o, n)) \in Int
         /\ (\A i \in 1 .. n : o.chars[i] < 128) => Bytes(Text(o, n)) = n
<1> DEFINE t == Text(o, n)
           lens == [i \in DOMAIN t |-> Len(t[i])]
<1>1. o.chars \in Seq(Nat) /\ Len(o.chars) \in Nat  BY LenProperties DEF StringLaidOut
<1>2. \A i \in 1 .. n : o.chars[i] \in Nat
  <2>1. \A i \in 1 .. n : i \in 1 .. Len(o.chars)  BY <1>1
  <2>. QED BY <1>1, <2>1, ElementOfSeq
<1>3. t = [i \in 1 .. n |-> Encode(o.chars[i])]  BY DEF Text
<1>4. n \in Nat /\ DOMAIN t = 1 .. n /\ \A i \in 1 .. n : t[i] = Encode(o.chars[i])
  BY <1>1, <1>3
<1>5. Len(t) = n  BY <1>3, <1>4
<1>6. \A i \in 1 .. n : lens[i] = Len(t[i]) /\ lens[i] \in Nat
  BY <1>2, <1>4, Encoded
<1>7. Bytes(t) = Sum(lens, n)  BY <1>5 DEF Bytes
<1>. HIDE DEF t, lens
<1>8. /\ Sum(lens, 0) = 0
      /\ \A k \in 1 .. n : Sum(lens, k) = Sum(lens, k - 1) + lens[k]
      /\ \A k \in 0 .. n : Sum(lens, k) \in Int
  <2>1. \A k \in 1 .. n : lens[k] \in Int  BY <1>6
  <2>. QED BY <1>4, <2>1, SumTotals
<1>9. n \in 0 .. n  BY <1>4
<1>10. ASSUME \A i \in 1 .. n : o.chars[i] < 128 PROVE Sum(lens, n) = n
  <2> DEFINE P == {k \in 0 .. n : Sum(lens, k) = k}
  <2>1. 0 \in P  BY <1>4, <1>8
  <2>2. ASSUME NEW k \in 1 .. n, k - 1 \in P PROVE k \in P
    <3> DEFINE ch == o.chars[k]
    <3>0. ch \in Nat /\ ch < 128 /\ lens[k] = Len(Encode(ch))  BY <1>2, <1>4, <1>6, <1>10
    <3>. HIDE DEF ch
    <3>1. lens[k] = 1  BY <3>0, Encoded
    <3>2. Sum(lens, k) = (k - 1) + 1  BY <1>8, <2>2, <3>1
    <3>. QED BY <1>4, <3>2
  <2>3. \A k \in 0 .. n : k \in P
    <3>. HIDE DEF P
    <3>. QED BY <1>4, <2>1, <2>2, UpTo
  <2>. QED BY <1>9, <2>3
<1>. QED BY <1>2, <1>4, <1>5, <1>7, <1>8, <1>9, <1>10 DEF t

LEMMA FrontOfText ==
  ASSUME NEW o, StringLaidOut(o), NEW n \in 1 .. Len(o.chars)
  PROVE  Front(Text(o, n)) = Text(o, n - 1)
<1>1. Len(o.chars) \in Nat  BY LenProperties DEF StringLaidOut
<1>2. n \in 0 .. Len(o.chars) /\ n - 1 \in 0 .. Len(o.chars)  BY <1>1
<1>3. Len(Text(o, n)) = n  BY <1>2, TextBytes
<1>4. Front(Text(o, n)) = SubSeq(Text(o, n), 1, n - 1)  BY <1>3 DEF Front
<1>5. \A i \in 1 .. (n - 1) : i \in 1 .. n  BY <1>1
<1>6. \A i \in 1 .. (n - 1) : Text(o, n)[i] = Encode(o.chars[i])  BY <1>2, <1>5, TextBytes
<1>7. SubSeq(Text(o, n), 1, n - 1) = [i \in 1 .. (n - 1) |-> Text(o, n)[i]]  BY <1>1
<1>. QED BY <1>4, <1>6, <1>7 DEF Text

\* A length whose bytes fit a word is read as it is.
LEMMA LengthRead ==
  ASSUME NEW o, StringLaidOut(o), SizeFits(o.length, o.char_kind)
  PROVE  Length(o) = o.length
<1>1. o.length \in Nat /\ o.char_kind \in {1, 2, 4} /\ WordSize \in Nat
  BY WordParts DEF StringLaidOut
<1>2. o.length * o.char_kind \in Nat /\ o.length * o.char_kind < WordSize
  BY <1>1 DEF SizeFits
<1>3. (o.length * o.char_kind) % WordSize = o.length * o.char_kind  BY <1>1, <1>2
<1>4. (o.length * o.char_kind) \div o.char_kind = o.length
  <2>1. CASE o.char_kind = 1  BY <1>1, <2>1
  <2>2. CASE o.char_kind = 2  BY <1>1, <2>2
  <2>3. CASE o.char_kind = 4  BY <1>1, <2>3
  <2>. QED BY <1>1, <2>1, <2>2, <2>3
<1>. QED BY <1>3, <1>4 DEF Length

\* The loop takes characters until there are bytes enough, and no more.
LEMMA TakenAre ==
  ASSUME NEW o, StringLaidOut(o), o.length <= Len(o.chars), Length(o) = o.length
  PROVE  /\ Taken(o) \in 0 .. o.length
         /\ \/ Taken(o) = o.length
            \/ o.max_len # 0 /\ Bytes(Text(o, Taken(o))) >= o.max_len
         /\ \A m \in 0 .. (Taken(o) - 1) : o.max_len = 0 \/ Bytes(Text(o, m)) < o.max_len
<1> DEFINE Enough(n) == n = o.length \/ (o.max_len # 0 /\ Bytes(Text(o, n)) >= o.max_len)
           T == {n \in 0 .. o.length : Enough(n)}
           NotYet(n) == \A m \in 0 .. (n - 1) : o.max_len = 0 \/ Bytes(Text(o, m)) < o.max_len
<1>1. o.length \in Nat /\ o.max_len \in Nat /\ Len(o.chars) \in Nat
  BY LenProperties DEF StringLaidOut
<1>2. o.length \in T  BY <1>1
<1>3. PICK n \in T : \A m \in T : n <= m
  <2>1. T \in SUBSET Nat  BY <1>1
  <2>. HIDE DEF T
  <2>. QED BY <1>2, <2>1, LeastNat
<1>4. n \in 0 .. o.length /\ Enough(n)  BY <1>3
<1>5. NotYet(n)
  <2>1. SUFFICES ASSUME NEW m \in 0 .. (n - 1), o.max_len # 0
                 PROVE  Bytes(Text(o, m)) < o.max_len
    OBVIOUS
  <2>2. m \in 0 .. o.length /\ m \in 0 .. Len(o.chars) /\ ~(n <= m)  BY <1>1, <1>4
  <2>3. m \notin T  BY <1>3, <2>2
  <2>4. ~(Bytes(Text(o, m)) >= o.max_len)  BY <2>1, <2>2, <2>3
  <2>5. Bytes(Text(o, m)) \in Int  BY <2>2, TextBytes
  <2>. QED BY <1>1, <2>4, <2>5
<1>6. \E k \in 0 .. o.length :
        /\ k = o.length \/ (o.max_len # 0 /\ Bytes(Text(o, k)) >= o.max_len)
        /\ \A m \in 0 .. (k - 1) : o.max_len = 0 \/ Bytes(Text(o, m)) < o.max_len
  BY <1>4, <1>5
<1>. HIDE DEF Enough, NotYet, T
<1>. QED BY SMT, <1>6 DEF Taken

\* The text is the first characters, and excess the bytes of the others; it is as long
\* as the limit makes it, and no longer.
TextRight(o, text, excess) ==
  /\ \A i \in DOMAIN text : Character(text[i]) = o.chars[i]
  /\ excess = (o.length - Len(text)) * o.char_kind
  /\ o.max_len = 0 => excess = 0
  /\ o.max_len > 0 /\ text # <<>> => Bytes(Front(text)) < o.max_len
  /\ excess > 0 => Bytes(text) >= o.max_len

LEMMA UcsText ==
  ASSUME NEW o, StringLaidOut(o), o.length <= Len(o.chars), Length(o) = o.length
  PROVE  \/ /\ DecodeUcs(o) = Invalid
            /\ \E i \in 1 .. o.length : o.chars[i] >= CharLimit
         \/ \E text, excess : /\ DecodeUcs(o) = Form("text", <<text, excess>>)
                              /\ TextRight(o, text, excess)
<1> DEFINE t == Taken(o)
           text == Text(o, t)
           excess == (o.length - t) * o.char_kind
<1>1. o.length \in Nat /\ o.max_len \in Nat /\ Len(o.chars) \in Nat /\ o.char_kind \in {1, 2, 4}
  BY LenProperties DEF StringLaidOut
<1>2. /\ t \in 0 .. o.length
      /\ t = o.length \/ (o.max_len # 0 /\ Bytes(text) >= o.max_len)
      /\ \A m \in 0 .. (t - 1) : o.max_len = 0 \/ Bytes(Text(o, m)) < o.max_len
  BY TakenAre
<1>. Length(o) = o.length  OBVIOUS
<1>3. t \in 0 .. Len(o.chars)  BY <1>1, <1>2
<1>. HIDE DEF t
<1>4. /\ Len(text) = t /\ DOMAIN text = 1 .. t
      /\ \A i \in 1 .. t : o.chars[i] \in Nat /\ text[i] = Encode(o.chars[i])
  BY <1>3, TextBytes
<1>. HIDE DEF text
<1>5. CASE \E i \in 1 .. t : o.chars[i] >= CharLimit
  <2>1. DecodeUcs(o) = Invalid  BY <1>5 DEF DecodeUcs, t
  <2>2. \A i \in 1 .. t : i \in 1 .. o.length  BY <1>1, <1>2
  <2>. QED BY <1>5, <2>1, <2>2
<1>6. CASE ~ \E i \in 1 .. t : o.chars[i] >= CharLimit
  <2>1. DecodeUcs(o) = Form("text", <<text, excess>>)  BY <1>6 DEF DecodeUcs, t, text
  <2>2. ASSUME NEW i \in 1 .. t PROVE Character(text[i]) = o.chars[i]
    <3> DEFINE ch == o.chars[i]
    <3>1. ch \in Nat /\ text[i] = Encode(ch)  BY <1>4, <1>6
    <3>. HIDE DEF ch
    <3>2. Character(Encode(ch)) = ch  BY <3>1, Encoded
    <3>. QED BY <3>1, <3>2 DEF ch
  <2>3. \A i \in DOMAIN text : Character(text[i]) = o.chars[i]  BY <1>4, <2>2
  <2>4. excess = (o.length - Len(text)) * o.char_kind  BY <1>4
  <2>5. t = o.length => excess = 0
    <3>1. SUFFICES ASSUME t = o.length PROVE excess = 0  OBVIOUS
    <3>2. o.length - t = 0 /\ 0 * o.char_kind = 0  BY <1>1, <3>1
    <3>. QED BY <3>2
  <2>. HIDE DEF excess
  <2>6. o.max_len = 0 => excess = 0  BY <1>2, <2>5
  <2>7. excess > 0 => Bytes(text) >= o.max_len  BY <1>2, <2>5
  <2>8. ASSUME o.max_len > 0, text # <<>> PROVE Bytes(Front(text)) < o.max_len
    <3>1. t # 0
      <4>1. t = 0 => text = <<>>  BY <1>4 DEF Text, text
      <4>. QED BY <2>8, <4>1
    <3>2. t \in 1 .. Len(o.chars) /\ t - 1 \in 0 .. (t - 1)  BY <1>1, <1>3, <3>1
    <3>3. Front(text) = Text(o, t - 1)  BY <3>2, FrontOfText DEF text
    <3>4. o.max_len # 0  BY <1>1, <2>8
    <3>. QED BY <1>2, <3>2, <3>3, <3>4
  <2>9. TextRight(o, text, excess)  BY <2>3, <2>4, <2>6, <2>7, <2>8 DEF TextRight
  <2>. QED BY <2>1, <2>9
<1>. QED BY <1>5, <1>6

LEMMA AsciiText ==
  ASSUME NEW o, StringLaidOut(o), o.length <= Len(o.chars), o.ascii
  PROVE  \E text, excess : /\ DecodeAscii(o) = Form("text", <<text, excess>>)
                           /\ TextRight(o, text, excess)
<1> DEFINE t == IF o.max_len # 0 /\ o.length > o.max_len THEN o.max_len ELSE o.length
           text == Text(o, t)
           excess == o.length - t
<1>1. /\ o.length \in Nat /\ o.max_len \in Nat /\ Len(o.chars) \in Nat /\ o.char_kind = 1
      /\ \A i \in 1 .. o.length : i <= Len(o.chars) => o.chars[i] < 128
  BY LenProperties DEF StringLaidOut
<1>2. DecodeAscii(o) = Form("text", <<text, excess>>)
  <2>1. o.length - o.length = 0  BY <1>1
  <2>. QED BY <2>1 DEF DecodeAscii
<1>3. t \in 0 .. o.length /\ t \in 0 .. Len(o.chars)  BY <1>1
<1>4. /\ o.max_len = 0 => t = o.length
      /\ o.max_len # 0 => t <= o.max_len
      /\ t # o.length => t = o.max_len
  BY <1>1
<1>. HIDE DEF t
<1>5. \A i \in 1 .. t : o.chars[i] < 128  BY <1>1, <1>3
<1>6. /\ Len(text) = t /\ DOMAIN text = 1 .. t /\ Bytes(text) = t
      /\ \A i \in 1 .. t : o.chars[i] \in Nat /\ text[i] = Encode(o.chars[i])
  <2>1. /\ Len(text) = t /\ DOMAIN text = 1 .. t
        /\ \A i \in 1 .. t : o.chars[i] \in Nat /\ text[i] = Encode(o.chars[i])
    BY <1>3, TextBytes
  <2>2. Bytes(text) = t  BY <1>3, <1>5, TextBytes
  <2>. QED BY <2>1, <2>2
<1>. HIDE DEF text
<1>7. ASSUME NEW i \in 1 .. t PROVE Character(text[i]) = o.chars[i]
  <2> DEFINE ch == o.chars[i]
  <2>1. ch \in Nat /\ text[i] = Encode(ch)  BY <1>5, <1>6
  <2>. HIDE DEF ch
  <2>2. Character(Encode(ch)) = ch  BY <2>1, Encoded
  <2>. QED BY <2>1, <2>2 DEF ch
<1>8. \A i \in DOMAIN text : Character(text[i]) = o.chars[i]  BY <1>6, <1>7
<1>9. excess = (o.length - Len(text)) * o.char_kind /\ excess \in Nat
     /\ (excess = 0 <=> t = o.length)
  BY <1>1, <1>3, <1>6
<1>. HIDE DEF excess
<1>10. o.max_len = 0 => excess = 0  BY <1>4, <1>9
<1>11. excess > 0 => Bytes(text) >= o.max_len  BY <1>1, <1>3, <1>4, <1>6, <1>9
<1>12. ASSUME o.max_len > 0, text # <<>> PROVE Bytes(Front(text)) < o.max_len
  <2>1. t # 0
    <3>1. t = 0 => text = <<>>  BY <1>6 DEF Text, text
    <3>. QED BY <1>12, <3>1
  <2>2. t \in 1 .. Len(o.chars) /\ t - 1 \in 0 .. Len(o.chars)  BY <1>1, <1>3, <2>1
  <2>3. Front(text) = Text(o, t - 1)  BY <2>2, FrontOfText DEF text
  <2>4. \A i \in 1 .. (t - 1) : i \in 1 .. t  BY <2>2
  <2>5. Bytes(Text(o, t - 1)) = t - 1
    <3>1. \A i \in 1 .. (t - 1) : o.chars[i] < 128  BY <1>5, <2>4
    <3>. QED BY <2>2, <3>1, TextBytes
  <2>. QED BY <1>1, <1>3, <1>4, <1>12, <2>3, <2>5
<1>13. TextRight(o, text, excess)
  BY <1>8, <1>9, <1>10, <1>11, <1>12 DEF TextRight
<1>. QED BY <1>2, <1>13

LEMMA EmptyText ==
  ASSUME NEW o, StringLaidOut(o), o.length = 0
  PROVE  TextRight(o, <<>>, 0)
<1>1. o.char_kind \in {1, 2, 4} /\ Len(<<>>) = 0 /\ DOMAIN <<>> = {}
  BY DEF StringLaidOut
<1>2. 0 = (o.length - Len(<<>>)) * o.char_kind  BY <1>1
<1>. QED BY <1>1, <1>2 DEF TextRight

\* What is made of a string.
LEMMA StringDecoded ==
  ASSUME LaidOut(object), ReprString, object' = object
  PROVE  StringRight'
<1>. SUFFICES ASSUME SizeFits(object.length, object.char_kind) PROVE StringRight'
  BY DEF StringRight, SizeFits
<1>1. StringLaidOut(object) /\ object.kind = "str"  BY DEF LaidOut, ReprString
<1>2. object.length \in Nat /\ Len(object.chars) \in Nat /\ Length(object) = object.length
  BY <1>1, LenProperties, LengthRead DEF StringLaidOut
<1>3. ASSUME NEW text, NEW excess, shown' = Form("text", <<text, excess>>),
             TextRight(object, text, excess)
      PROVE  StringRight'
  <2>1. shown'.form = "text" /\ shown'.value = <<text, excess>>  BY <1>3 DEF Form
  <2>2. shown'.value[1] = text /\ shown'.value[2] = excess  BY <2>1
  <2>. QED BY <1>3, <2>1, <2>2 DEF StringRight, TextRight
<1>4. ASSUME shown' = Invalid,
             \/ object.chars = <<>> \/ object.length > Len(object.chars)
             \/ \E i \in 1 .. object.length : object.chars[i] >= CharLimit
      PROVE  StringRight'
  <2>1. shown'.form # "text"  BY <1>4 DEF Invalid
  <2>. QED BY <1>4, <2>1 DEF StringRight
<1>5. CASE object.chars = <<>> \/ object.length > Len(object.chars)
  <2>1. shown' = Invalid  BY <1>2, <1>5 DEF ReprString
  <2>. QED BY <1>4, <1>5, <2>1
<1>6. CASE ~(object.chars = <<>> \/ object.length > Len(object.chars))
  <2>1. object.length <= Len(object.chars)  BY <1>2, <1>6
  <2>2. CASE object.length = 0
    <3>1. shown' = Form("text", <<<<>>, 0>>)  BY <1>2, <1>6, <2>2 DEF ReprString
    <3>. QED BY <1>1, <1>3, <2>2, <3>1, EmptyText
  <2>3. CASE object.length # 0 /\ object.ascii
    <3>1. shown' = DecodeAscii(object)  BY <1>2, <1>6, <2>3 DEF ReprString
    <3>. QED BY <1>1, <1>3, <2>1, <2>3, <3>1, AsciiText
  <2>4. CASE object.length # 0 /\ ~object.ascii
    <3>1. shown' = DecodeUcs(object)  BY <1>2, <1>6, <2>4 DEF ReprString
    <3>2. \/ /\ DecodeUcs(object) = Invalid
             /\ \E i \in 1 .. object.length : object.chars[i] >= CharLimit
          \/ \E text, excess : /\ DecodeUcs(object) = Form("text", <<text, excess>>)
                               /\ TextRight(object, text, excess)
      BY <1>1, <1>2, <2>1, UcsText
    <3>. QED BY <1>3, <1>4, <3>1, <3>2
  <2>. QED BY <2>2, <2>3, <2>4
<1>. QED BY <1>5, <1>6

----------------------------------------------------------------------------
(* Filters. *)

KeptStep(s, set, f, k) ==
  IF k = 0 THEN <<>> ELSE IF s[k] \in set THEN Append(f[k - 1], s[k]) ELSE f[k - 1]

LEMMA KeptSolution ==
  ASSUME NEW n \in Nat, NEW s, NEW set
  PROVE  \E f : f = [k \in 0 .. n |-> KeptStep(s, set, f, k)]
<1> DEFINE Solves(f, m) == f = [k \in 0 .. m |-> KeptStep(s, set, f, k)]
           P == {m \in 0 .. n : \E f : Solves(f, m)}
<1>1. 0 \in P
  <2> DEFINE f == [k \in 0 .. 0 |-> <<>>]
  <2>1. Solves(f, 0)  BY DEF KeptStep
  <2>. QED BY <2>1
<1>2. ASSUME NEW m \in 1 .. n, m - 1 \in P PROVE m \in P
  <2>1. PICK g : Solves(g, m - 1)  BY <1>2
  <2> DEFINE h == [k \in 0 .. m |-> KeptStep(s, set, g, k)]
  <2>2. \A k \in 0 .. (m - 1) : k \in 0 .. m /\ g[k] = KeptStep(s, set, g, k)  BY <2>1
  <2>3. \A k \in 0 .. (m - 1) : h[k] = g[k]  BY <2>2
  <2>. HIDE DEF h
  <2>4. ASSUME NEW k \in 0 .. m PROVE KeptStep(s, set, h, k) = KeptStep(s, set, g, k)
    <3>1. k = 0 \/ k - 1 \in 0 .. (m - 1)  OBVIOUS
    <3>2. k = 0 \/ h[k - 1] = g[k - 1]  BY <2>3, <3>1
    <3>. QED BY <3>2 DEF KeptStep
  <2>5. Solves(h, m)  BY <2>4 DEF h
  <2>. QED BY <2>5
<1>3. \A k \in 0 .. n : k \in P
  <2>. HIDE DEF P
  <2>. QED BY <1>1, <1>2, UpTo
<1>. QED BY <1>3

\* An element occurs at most once among the first k.
Once(s, x, k) == \A i, j \in 1 .. k : s[i] = x /\ s[j] = x => i = j

\* What is kept of a sequence is what of its elements is in the set, and nothing twice
\* that was there once.
LEMMA KeptElements ==
  ASSUME NEW T, NEW s \in Seq(T), NEW set
  PROVE  /\ Kept(s, set) \in Seq(T)
         /\ ToSet(Kept(s, set)) = ToSet(s) \cap set
         /\ \A x : Once(s, x, Len(s)) => Once(Kept(s, set), x, Len(Kept(s, set)))
<1> DEFINE n == Len(s)
           f == CHOOSE g : g = [k \in 0 .. n |-> KeptStep(s, set, g, k)]
           Among(k) == {s[j] : j \in 1 .. k} \cap set
           Got(k) == {f[k][i] : i \in 1 .. Len(f[k])}
           P == {k \in 0 .. n : /\ f[k] \in Seq(T)
                                /\ Got(k) = Among(k)
                                /\ \A x : Once(s, x, k) => Once(f[k], x, Len(f[k]))}
<1>1. n \in Nat /\ DOMAIN s = 1 .. n  BY LenProperties
<1>2. \A k \in 1 .. n : s[k] \in T  BY ElementOfSeq
<1>3. Kept(s, set) = f[n]  BY Zenon DEF Kept, KeptStep
<1>4. f = [k \in 0 .. n |-> KeptStep(s, set, f, k)]
  <2>1. \E g : g = [k \in 0 .. n |-> KeptStep(s, set, g, k)]  BY <1>1, KeptSolution
  <2>. QED BY Zenon, <2>1
<1>. HIDE DEF f
<1>5. \A k \in 0 .. n : f[k] = KeptStep(s, set, f, k)  BY <1>4
<1>6. 0 \in P
  <2>1. 0 \in 0 .. n  BY <1>1
  <2>2. f[0] = KeptStep(s, set, f, 0)  BY <1>5, <2>1
  <2>3. f[0] = <<>>  BY Zenon, <2>2 DEF KeptStep
  <2>4. Len(f[0]) = 0 /\ f[0] \in Seq(T) /\ 1 .. 0 = {}  BY <2>3
  <2>5. Got(0) = {} /\ Among(0) = {}  BY <2>4
  <2>6. \A x : Once(f[0], x, Len(f[0]))  BY <2>4 DEF Once
  <2>. QED BY <2>1, <2>4, <2>5, <2>6
<1>7. ASSUME NEW k \in 1 .. n, k - 1 \in P PROVE k \in P
  <2>1. k \in 0 .. n /\ k # 0  BY <1>1
  <2>2. f[k] = IF s[k] \in set THEN Append(f[k - 1], s[k]) ELSE f[k - 1]
    BY <1>5, <2>1 DEF KeptStep
  <2>3. /\ f[k - 1] \in Seq(T) /\ Got(k - 1) = Among(k - 1)
        /\ \A x : Once(s, x, k - 1) => Once(f[k - 1], x, Len(f[k - 1]))
    BY <1>7
  <2>4. {s[j] : j \in 1 .. k} = {s[j] : j \in 1 .. (k - 1)} \cup {s[k]}
    <3>1. \A j : j \in 1 .. k <=> j \in 1 .. (k - 1) \/ j = k  OBVIOUS
    <3>. QED BY <3>1
  <2>5. \A x : Once(s, x, k) => Once(s, x, k - 1)
    <3>1. \A j \in 1 .. (k - 1) : j \in 1 .. k  OBVIOUS
    <3>. QED BY <3>1 DEF Once
  <2>6. CASE s[k] \notin set
    <3>1. f[k] = f[k - 1]  BY <2>2, <2>6
    <3>2. Among(k) = Among(k - 1)  BY <2>4, <2>6
    <3>3. \A x : Once(s, x, k) => Once(f[k], x, Len(f[k]))  BY <2>3, <2>5, <3>1
    <3>. QED BY <2>1, <2>3, <3>1, <3>2, <3>3
  <2>7. CASE s[k] \in set
    <3> DEFINE q == f[k - 1]
               m == Len(q)
    <3>1. f[k] = Append(q, s[k])  BY <2>2, <2>7
    <3>2. m \in Nat  BY <2>3, LenProperties
    <3>3. /\ f[k] \in Seq(T) /\ Len(f[k]) = m + 1
          /\ \A i \in 1 .. m : f[k][i] = q[i]
          /\ f[k][m + 1] = s[k]
      BY <1>2, <2>3, <3>1, AppendProperties
    <3>4. \A i : i \in 1 .. (m + 1) <=> i \in 1 .. m \/ i = m + 1  BY <3>2
    <3>5. Among(k) = Among(k - 1) \cup {s[k]}  BY <2>4, <2>7
    <3>6. Got(k) = Got(k - 1) \cup {s[k]}
      <4>1. Got(k) = {f[k][i] : i \in 1 .. (m + 1)}  BY <3>3
      <4>2. \A i \in 1 .. (m + 1) : f[k][i] \in Got(k - 1) \cup {s[k]}  BY <3>3, <3>4
      <4>3. \A i \in 1 .. m : i \in 1 .. (m + 1) /\ f[k][i] = q[i]  BY <3>3, <3>4
      <4>4. m + 1 \in 1 .. (m + 1) /\ f[k][m + 1] = s[k]  BY <3>3, <3>4
      <4>5. Got(k - 1) \subseteq Got(k)  BY <4>1, <4>3
      <4>. QED BY <4>1, <4>2, <4>4, <4>5
    <3>7. ASSUME NEW x, Once(s, x, k) PROVE Once(f[k], x, m + 1)
      <4>1. Once(q, x, m)  BY <2>3, <2>5, <3>7
      <4>2. ASSUME NEW i \in 1 .. m, f[k][i] = x, s[k] = x PROVE FALSE
        <5>1. q[i] = x  BY <3>3, <4>2
        <5>2. x \in Got(k - 1)  BY <5>1
        <5>3. x \in Among(k - 1)  BY <2>3, <5>2
        <5>4. PICK j \in 1 .. (k - 1) : s[j] = x  BY <5>3
        <5>5. j \in 1 .. k /\ k \in 1 .. k /\ j # k  OBVIOUS
        <5>. QED BY <3>7, <4>2, <5>4, <5>5 DEF Once
      <4>3. \A i, j \in 1 .. m : f[k][i] = x /\ f[k][j] = x => i = j
        BY <3>3, <4>1 DEF Once
      <4>. QED BY <3>3, <3>4, <4>2, <4>3 DEF Once
    <3>. QED BY <2>1, <2>3, <3>3, <3>5, <3>6, <3>7
  <2>. QED BY <2>6, <2>7
<1>8. \A k \in 0 .. n : k \in P
  <2>. HIDE DEF P, n
  <2>. QED BY <1>1, <1>6, <1>7, UpTo
<1>9. n \in 0 .. n  BY <1>1
<1>10. /\ f[n] \in Seq(T) /\ Got(n) = Among(n)
       /\ \A x : Once(s, x, n) => Once(f[n], x, Len(f[n]))
  BY <1>8, <1>9
<1>11. Got(n) = ToSet(f[n])
  <2>1. DOMAIN f[n] = 1 .. Len(f[n])  BY <1>10, LenProperties
  <2>. QED BY <2>1 DEF ToSet
<1>12. Among(n) = ToSet(s) \cap set  BY <1>1 DEF ToSet
<1>. QED BY <1>3, <1>10, <1>11, <1>12

\* A sequence of different elements is as long as their set is large.
LEMMA DifferentElements ==
  ASSUME NEW T, NEW s \in Seq(T), \A x : Once(s, x, Len(s))
  PROVE  Len(s) = Cardinality(ToSet(s))
<1> DEFINE n == Len(s)
<1>1. n \in Nat /\ DOMAIN s = 1 .. n  BY LenProperties
<1>2. s \in [1 .. n -> ToSet(s)]
  <2>1. s = [i \in 1 .. n |-> s[i]]  BY <1>1, SeqDef
  <2>2. \A i \in 1 .. n : s[i] \in ToSet(s)  BY <1>1 DEF ToSet
  <2>. QED BY <2>1, <2>2
<1>3. \A i, j \in 1 .. n : s[i] = s[j] => i = j  BY DEF Once
<1>4. \A x \in ToSet(s) : \E i \in 1 .. n : s[i] = x  BY <1>1 DEF ToSet
<1>5. s \in Bijection(1 .. n, ToSet(s))
  BY <1>1, <1>2, <1>3, <1>4 DEF Bijection, Injection, Surjection, IsInjective
<1>6. ExistsBijection(1 .. n, ToSet(s))  BY <1>5 DEF ExistsBijection
<1>. QED BY <1>1, <1>6, FS_CountingElements

----------------------------------------------------------------------------
(* Sets and dicts. *)

LEMMA SetElements ==
  ASSUME NEW o, SetLaidOut(o)
  PROVE  LET items == Kept(SetItems(o), ToSet(SetItems(o)) \ {Unset})
         IN ToSet(items) = o.is /\ Len(items) = Cardinality(o.is)
<1> DEFINE n == o.mask + 1
           T == {o.table[i] : i \in 1 .. n}
           keys == SubSeq(o.table, 1, n)
           found == SetItems(o)
           items == Kept(found, ToSet(found) \ {Unset})
<1>1. /\ n \in Nat
      /\ \A i, j \in 1 .. n : o.table[i] = o.table[j] => i = j \/ o.table[i] \in {Null, Unset}
      /\ o.is = T \ {Null, Unset}
  BY DEF SetLaidOut
<1>. HIDE DEF n
<1>2. \A i \in 1 .. n : o.table[i] \in T  OBVIOUS
<1>. HIDE DEF T
<1>3. keys \in Seq(T) /\ Len(keys) = n /\ \A i \in 1 .. n : keys[i] = o.table[i]
  <2>1. 1 \in Int /\ n \in Int  BY <1>1
  <2>2. /\ keys \in Seq(T) /\ Len(keys) = IF 1 <= n THEN n - 1 + 1 ELSE 0
        /\ \A i \in 1 .. (n - 1 + 1) : keys[i] = o.table[1 + i - 1]
    BY <1>2, <2>1, SubSeqProperties
  <2>3. n - 1 + 1 = n /\ \A i \in 1 .. n : 1 + i - 1 = i  BY <1>1
  <2>4. Len(keys) = n
    <3>1. n = 0 \/ 1 <= n  BY <1>1
    <3>. QED BY <2>2, <2>3, <3>1
  <2>. QED BY <2>2, <2>3, <2>4
<1>. HIDE DEF keys
<1>4. ToSet(keys) = T
  <2>1. DOMAIN keys = 1 .. n  BY <1>3, LenProperties
  <2>. QED BY <1>3, <2>1 DEF ToSet, T
<1>5. \A x : x \notin {Null, Unset} => Once(keys, x, n)  BY <1>1, <1>3 DEF Once
<1>6. found = Kept(keys, ToSet(keys) \ {Null})  BY DEF SetItems, keys, n
<1>7. /\ found \in Seq(T) /\ ToSet(found) = ToSet(keys) \cap (ToSet(keys) \ {Null})
      /\ \A x : Once(keys, x, Len(keys)) => Once(found, x, Len(found))
  BY <1>3, <1>6, KeptElements
<1>. HIDE DEF found
<1>8. /\ items \in Seq(T) /\ ToSet(items) = ToSet(found) \cap (ToSet(found) \ {Unset})
      /\ \A x : Once(found, x, Len(found)) => Once(items, x, Len(items))
  BY <1>7, KeptElements
<1>. HIDE DEF items
<1>9. ToSet(items) = o.is  BY <1>1, <1>4, <1>7, <1>8
<1>10. ASSUME NEW x PROVE Once(items, x, Len(items))
  <2>1. CASE x \in {Null, Unset}
    <3>1. x \notin ToSet(items)  BY <1>1, <1>9, <2>1
    <3>2. DOMAIN items = 1 .. Len(items)  BY <1>8, LenProperties
    <3>. QED BY <3>1, <3>2 DEF Once, ToSet
  <2>2. CASE x \notin {Null, Unset}
    <3>1. Once(keys, x, Len(keys))  BY <1>3, <1>5, <2>2
    <3>. QED BY <1>7, <1>8, <3>1
  <2>. QED BY <2>1, <2>2
<1>11. Len(items) = Cardinality(ToSet(items))  BY <1>8, <1>10, DifferentElements
<1>. QED BY <1>9, <1>11 DEF items, found

LEMMA Limits ==
  ASSUME NEW w \in Widths
  PROVE  Limit(w) \in Nat /\ Limit(w) >= 4
<1> DEFINE b == Byte * Byte
           q == b * b
<1>1. Byte \in Nat /\ Byte >= 4  BY SizesAssumption
<1>2. \A x, y \in Nat : x >= 4 /\ y >= 4 => x * y \in Nat /\ x * y >= 4
  <2>1. TAKE x, y \in Nat
  <2>2. HAVE x >= 4 /\ y >= 4
  <2>3. x * 1 <= x * y  BY <2>2, TimesMonotone
  <2>. QED BY <2>2, <2>3, TimesNat
<1>3. b \in Nat /\ b >= 4  BY <1>1, <1>2
<1>4. w \in {1, 2, 4, 8}  BY DEF Widths
<1>5. Limit(w) = IF w = 1 THEN Byte ELSE IF w = 2 THEN b ELSE IF w = 4 THEN q ELSE b * b * b * b
  BY DEF Limit
<1>. HIDE DEF b
<1>6. q \in Nat /\ q >= 4  BY <1>2, <1>3
<1>7. b * b * b * b \in Nat /\ b * b * b * b >= 4
  <2>. HIDE DEF q
  <2>1. q * b \in Nat /\ q * b >= 4  BY <1>2, <1>3, <1>6
  <2> DEFINE r == q * b
  <2>. HIDE DEF r
  <2>2. r * b \in Nat /\ r * b >= 4  BY <1>2, <1>3, <2>1 DEF r
  <2>. QED BY <2>2 DEF r, q
<1>. QED BY <1>1, <1>3, <1>4, <1>5, <1>6, <1>7

\* The width chosen is that of the index.
LEMMA WidthIs ==
  ASSUME NEW o, DictLaidOut(o)
  PROVE  BytesPerTableValue(o.dk_size) = o.width
<1>1. /\ o.width \in {1, 2, 4, 8}
      /\ o.dk_size < Limit(o.width)
      /\ \A w \in {1, 2, 4, 8} : o.dk_size < Limit(w) => o.width <= w
  BY DEF DictLaidOut, Widths
<1>2. CASE o.dk_size < Limit(1)
  <2>1. o.width = 1  BY <1>1, <1>2
  <2>. QED BY <1>2, <2>1 DEF BytesPerTableValue
<1>3. CASE ~(o.dk_size < Limit(1)) /\ o.dk_size < Limit(2)
  <2>1. o.width # 1 /\ o.width <= 2  BY <1>1, <1>3
  <2>2. o.width = 2  BY <1>1, <2>1
  <2>. QED BY <1>3, <2>2 DEF BytesPerTableValue
<1>4. CASE ~(o.dk_size < Limit(1)) /\ ~(o.dk_size < Limit(2)) /\ o.dk_size < Limit(4)
  <2>1. o.width # 1 /\ o.width # 2 /\ o.width <= 4  BY <1>1, <1>4
  <2>2. o.width = 4  BY <1>1, <2>1
  <2>. QED BY <1>4, <2>2 DEF BytesPerTableValue
<1>5. CASE ~(o.dk_size < Limit(1)) /\ ~(o.dk_size < Limit(2)) /\ ~(o.dk_size < Limit(4))
  <2>1. o.width # 1 /\ o.width # 2 /\ o.width # 4  BY <1>1, <1>5
  <2>2. o.width = 8  BY <1>1, <2>1
  <2>. QED BY <1>5, <2>2 DEF BytesPerTableValue
<1>. QED BY <1>2, <1>3, <1>4, <1>5

\* A place is read as what it holds: an entry's number, or a number below 0 for none.
LEMMA PlaceRead ==
  ASSUME NEW o, DictLaidOut(o), NEW i \in 1 .. o.dk_size,
         NEW v \in -2 .. (Len(o.entries) - 1), Holds(o, i, v)
  PROVE  Table(o)[i] = v
<1> DEFINE w == o.width
           l == Limit(w)
           u == Unsigned(o, i, w)
<1>1. w \in Widths /\ Len(o.entries) <= l \div 2 /\ Len(o.entries) \in Nat  BY DEF DictLaidOut
<1>2. l \in Nat /\ l >= 4  BY <1>1, Limits
<1>3. u = v % l  BY DEF Holds
<1>4. Table(o)[i] = IF u >= l \div 2 THEN u - l ELSE u  BY WidthIs DEF Table
<1>. HIDE DEF w, l, u
<1>5. l \div 2 \in Nat /\ 2 * (l \div 2) <= l /\ l \div 2 <= l - 2  BY <1>2
<1>6. CASE v >= 0
  <2>1. v \in 0 .. (l - 1) /\ v < l \div 2  BY <1>1, <1>2, <1>5, <1>6
  <2>2. v % l = v  BY <1>2, <2>1
  <2>. QED BY <1>3, <1>4, <1>5, <2>1, <2>2
<1>7. CASE v < 0
  <2>1. v \in Int /\ -2 <= v  BY <1>1
  <2>2. v % l = v + l  BY <1>2, <1>7, <2>1
  <2>3. v + l >= l \div 2 /\ (v + l) - l = v  BY <1>2, <1>5, <2>1
  <2>. QED BY <1>3, <1>4, <2>2, <2>3
<1>8. v \in Int  BY <1>1
<1>. QED BY <1>6, <1>7, <1>8

\* The entries that are used are those an index leads to, each once.
LEMMA UsedEntries ==
  ASSUME NEW o, DictLaidOut(o)
  PROVE  /\ Used(o) \in Seq(Int)
         /\ \A i \in 1 .. Len(Used(o)) : Used(o)[i] + 1 \in Live(o)
         /\ \A e \in Live(o) : \E i \in 1 .. Len(Used(o)) : Used(o)[i] = e - 1
         /\ \A x : Once(Used(o), x, Len(Used(o)))
<1> DEFINE t == Table(o)
           n == o.dk_size
           len == Len(o.entries)
           u == Used(o)
<1>1. /\ n \in Nat /\ len \in Nat /\ DOMAIN o.entries = 1 .. len
      /\ \A i \in 1 .. n : \E v \in -2 .. (len - 1) : Holds(o, i, v)
      /\ \A e \in Live(o) : \A i, j \in 1 .. n : Holds(o, i, e - 1) /\ Holds(o, j, e - 1) => i = j
  BY DEF DictLaidOut
<1>2. \A i \in 1 .. n : t[i] \in -2 .. (len - 1) /\ Holds(o, i, t[i])
  <2>1. TAKE i \in 1 .. n
  <2>2. PICK v \in -2 .. (len - 1) : Holds(o, i, v)  BY <1>1
  <2>3. t[i] = v  BY <2>2, PlaceRead
  <2>. QED BY <2>2, <2>3
<1>3. \A i \in 1 .. n : t[i] \in Int  BY <1>1, <1>2
<1>4. t \in Seq(Int) /\ Len(t) = n /\ DOMAIN t = 1 .. n
  <2>1. t = [i \in 1 .. n |-> t[i]]  BY DEF Table
  <2>. HIDE DEF t
  <2>2. t \in [1 .. n -> Int]  BY <1>3, <2>1
  <2>3. t \in Seq(Int)  BY <1>1, <2>2, SeqDef
  <2>4. DOMAIN t = 1 .. n  BY <2>1
  <2>. QED BY <1>1, <2>3, <2>4, LenProperties
<1>. HIDE DEF t
<1>5. u = Kept(t, Nat)  BY DEF Used, t
<1>6. /\ u \in Seq(Int) /\ ToSet(u) = ToSet(t) \cap Nat
      /\ \A x : Once(t, x, Len(t)) => Once(u, x, Len(u))
  BY <1>4, <1>5, KeptElements
<1>. HIDE DEF u
<1>7. DOMAIN u = 1 .. Len(u)  BY <1>6, LenProperties
<1>8. ASSUME NEW i \in 1 .. n, t[i] \in Nat
     PROVE t[i] + 1 \in Live(o) /\ Holds(o, i, (t[i] + 1) - 1)
  <2>1. t[i] + 1 \in 1 .. len /\ (t[i] + 1) - 1 = t[i]  BY <1>1, <1>2, <1>8
  <2>. QED BY <1>1, <1>2, <2>1 DEF Live
<1>9. \A x \in ToSet(u) : x + 1 \in Live(o)
  <2>1. TAKE x \in ToSet(u)
  <2>2. x \in ToSet(t) /\ x \in Nat  BY <1>6
  <2>3. PICK i \in 1 .. n : t[i] = x  BY <1>4, <2>2 DEF ToSet
  <2>. QED BY <1>8, <2>2, <2>3
<1>10. \A i \in 1 .. Len(u) : u[i] + 1 \in Live(o)  BY <1>7, <1>9 DEF ToSet
<1>11. ASSUME NEW e \in Live(o) PROVE \E i \in 1 .. Len(u) : u[i] = e - 1
  <2>1. e \in 1 .. len /\ \E i \in 1 .. n : Holds(o, i, e - 1)  BY <1>1 DEF Live
  <2>2. PICK i \in 1 .. n : Holds(o, i, e - 1)  BY <2>1
  <2>3. e - 1 \in -2 .. (len - 1) /\ e - 1 \in Nat  BY <1>1, <2>1
  <2>4. t[i] = e - 1  BY <2>2, <2>3, PlaceRead DEF t
  <2>5. e - 1 \in ToSet(t)  BY <1>4, <2>4 DEF ToSet
  <2>6. e - 1 \in ToSet(u)  BY <1>6, <2>3, <2>5
  <2>. QED BY <1>7, <2>6 DEF ToSet
<1>12. ASSUME NEW x PROVE Once(u, x, Len(u))
  <2>1. CASE x \notin Nat
    <3>1. \A i \in 1 .. Len(u) : u[i] \in Nat  BY <1>6, <1>7 DEF ToSet
    <3>. QED BY <2>1, <3>1 DEF Once
  <2>2. CASE x \in Nat
    <3>1. ASSUME NEW i \in 1 .. n, NEW j \in 1 .. n, t[i] = x, t[j] = x PROVE i = j
      <4>1. x + 1 \in Live(o) /\ Holds(o, i, (x + 1) - 1) /\ Holds(o, j, (x + 1) - 1)
        BY <1>8, <2>2, <3>1
      <4>. QED BY <1>1, <4>1
    <3>2. Once(t, x, Len(t))  BY <1>4, <3>1 DEF Once
    <3>. QED BY <1>6, <3>2
  <2>. QED BY <2>1, <2>2
<1>. QED BY <1>6, <1>10, <1>11, <1>12 DEF u

----------------------------------------------------------------------------
(* The object stays as it was laid out. *)

LEMMA ObjectLaidOut ==
  DecodeSpec => []LaidOut(object)
<1>1. DecodeInit => LaidOut(object)  BY GivenAssumption DEF DecodeInit
<1>2. LaidOut(object) /\ [DecodeNext]_decoded => LaidOut(object)'
  <2>1. SUFFICES ASSUME LaidOut(object), [DecodeNext]_decoded PROVE LaidOut(object)'
    OBVIOUS
  <2>2. object' = object  BY <2>1 DEF DecodeNext, Decode, DecodeOver, decoded
  <2>. QED BY <2>1, <2>2
<1>. QED BY <1>1, <1>2, PTL DEF DecodeSpec

\* Line tables are the only objects of which lines are shown.
LEMMA LinesShown ==
  ASSUME LaidOut(object), Decode, shown'.form = "lines"
  PROVE  FindLines /\ object.kind = "code" /\ object' = object
<1>1. ReprInt \/ ReprString \/ ReprDict \/ ReprSet \/ FindLines  BY DEF Decode
<1>2. ReprInt => shown'.form # "lines"
  BY DEF ReprInt, IntText, Invalid, Unreadable, Form
<1>3. ReprString => shown'.form # "lines"
  BY DEF ReprString, DecodeAscii, DecodeUcs, Invalid, Form
<1>4. ReprDict => shown'.form # "lines"  BY DEF ReprDict, Invalid, Unreadable, Form
<1>5. ReprSet => shown'.form # "lines"  BY DEF ReprSet, Invalid, Unreadable, Form
<1>6. FindLines  BY <1>1, <1>2, <1>3, <1>4, <1>5
<1>. QED BY <1>6 DEF FindLines, Decode

\* The line found for an instruction is the one Python finds, for every line table
\* and offset (PyCodeObject.cc:102-130).
THEOREM LinesAlwaysRight ==
  DecodeSpec => []LinesRight
<1>1. DecodeInit => LinesRight  BY DEF DecodeInit, LinesRight, Nothing
<1>2. LaidOut(object) /\ LinesRight /\ [DecodeNext]_decoded => LinesRight'
  <2>1. SUFFICES ASSUME LaidOut(object), LinesRight, [DecodeNext]_decoded PROVE LinesRight'
    OBVIOUS
  <2>2. CASE DecodeOver \/ UNCHANGED decoded
    <3>1. object' = object /\ shown' = shown  BY <2>2 DEF DecodeOver, decoded
    <3>. QED BY <2>1, <3>1 DEF LinesRight
  <2>3. CASE Decode
    <3>1. SUFFICES ASSUME shown'.form = "lines"
                   PROVE  \A offset \in object'.offsets :
                            shown'.value[offset] = IF PythonLine(object', offset).moved
                                                   THEN PythonLine(object', offset).found ELSE 0
      BY DEF LinesRight
    <3>2. FindLines /\ object.kind = "code" /\ object' = object  BY <2>1, <2>3, <3>1, LinesShown
    <3>3. LinesLaidOut(object)  BY <2>1, <3>2 DEF LaidOut
    <3>4. shown'.value = [offset \in object.offsets |-> LineForOffset(object, offset)]
      BY <3>2 DEF FindLines, Form
    <3>5. \A offset \in object.offsets : offset \in Int  BY <3>3 DEF LinesLaidOut
    <3>6. \A offset \in object.offsets :
            LineForOffset(object, offset) = IF PythonLine(object, offset).moved
                                            THEN PythonLine(object, offset).found ELSE 0
      BY <3>3, <3>5, LineFound
    <3>. QED BY <3>2, <3>4, <3>6
  <2>. QED BY <2>1, <2>2, <2>3 DEF DecodeNext
<1>. QED BY <1>1, <1>2, ObjectLaidOut, PTL DEF DecodeSpec

\* What a dict's items are: the entry of each index, its key first.
LEMMA DictEntries ==
  ASSUME NEW o, DictLaidOut(o)
  PROVE  /\ DictItems(o) \in Seq({DictItem(o, v) : v \in Int})
         /\ Len(DictItems(o)) = Len(Used(o)) /\ DOMAIN Used(o) = 1 .. Len(Used(o))
         /\ DOMAIN DictItems(o) = 1 .. Len(Used(o))
         /\ \A i \in 1 .. Len(Used(o)) :
              LET e == Used(o)[i] + 1
              IN /\ e \in Live(o) /\ Used(o)[i] < Len(o.entries)
                 /\ DictItems(o)[i] = <<o.entries[e].key, Value(o, e)>>
<1> DEFINE u == Used(o)
           n == Len(u)
           items == DictItems(o)
           T == {DictItem(o, v) : v \in Int}
<1>1. u \in Seq(Int) /\ \A i \in 1 .. n : u[i] + 1 \in Live(o)  BY UsedEntries
<1>2. n \in Nat /\ DOMAIN u = 1 .. n /\ \A i \in 1 .. n : u[i] \in Int
  <2>1. n \in Nat /\ DOMAIN u = 1 .. n  BY <1>1, LenProperties
  <2>2. \A i \in 1 .. n : u[i] \in Int  BY <1>1, ElementOfSeq
  <2>. QED BY <2>1, <2>2
<1>3. items = [i \in 1 .. n |-> DictItem(o, u[i])]  BY <1>2 DEF DictItems
<1>. HIDE DEF u, n, items
<1>4. items \in Seq(T) /\ DOMAIN items = 1 .. n /\ Len(items) = n
  <2>1. \A i \in 1 .. n : DictItem(o, u[i]) \in T  BY <1>2
  <2>. HIDE DEF T
  <2>2. items \in [1 .. n -> T] /\ DOMAIN items = 1 .. n  BY <1>3, <2>1
  <2>3. items \in Seq(T)  BY <1>2, <2>2, SeqDef
  <2>. QED BY <1>2, <2>2, <2>3, LenProperties
<1>5. ASSUME NEW i \in 1 .. n
      PROVE  /\ u[i] + 1 \in Live(o) /\ u[i] < Len(o.entries)
             /\ items[i] = <<o.entries[u[i] + 1].key, Value(o, u[i] + 1)>>
  <2>1. u[i] + 1 \in Live(o) /\ u[i] \in Int  BY <1>1, <1>2
  <2>2. DOMAIN o.entries = 1 .. Len(o.entries) /\ Len(o.entries) \in Nat  BY DEF DictLaidOut
  <2>3. u[i] + 1 \in 1 .. Len(o.entries)  BY <2>1, <2>2 DEF Live
  <2>4. u[i] < Len(o.entries)  BY <2>1, <2>2, <2>3
  <2>5. items[i] = DictItem(o, u[i])  BY <1>3
  <2>. QED BY <2>1, <2>4, <2>5 DEF DictItem, Value
<1>. QED BY <1>2, <1>4, <1>5 DEF u, n, items

\* If no value is missing, the items are all the dict's, each once.
LEMMA DictElements ==
  ASSUME NEW o, DictLaidOut(o), \A e \in Live(o) : Value(o, e) # Null
  PROVE  ToSet(DictItems(o)) = o.is /\ Len(DictItems(o)) = Cardinality(o.is)
<1> DEFINE u == Used(o)
           n == Len(u)
           items == DictItems(o)
           T == {DictItem(o, v) : v \in Int}
           Pair(e) == <<o.entries[e].key, Value(o, e)>>
<1>1. /\ items \in Seq(T) /\ Len(items) = n /\ DOMAIN items = 1 .. n
      /\ \A i \in 1 .. n : u[i] + 1 \in Live(o) /\ items[i] = Pair(u[i] + 1)
  BY DictEntries
<1>2. /\ \A e \in Live(o) : \E i \in 1 .. n : u[i] = e - 1
      /\ \A x : Once(u, x, n)
      /\ u \in Seq(Int)
  BY UsedEntries
<1>3. \A i \in 1 .. n : u[i] \in Int  BY <1>2, ElementOfSeq
<1>. HIDE DEF u, n, items, T
<1>4. o.is = {Pair(e) : e \in Live(o)}
  <2>1. o.is = {Pair(e) : e \in {e \in Live(o) : Value(o, e) # Null}}  BY DEF DictLaidOut
  <2>2. {e \in Live(o) : Value(o, e) # Null} = Live(o)  OBVIOUS
  <2>. QED BY <2>1, <2>2
<1>5. \A e \in Live(o) : e \in Int
  <2>1. DOMAIN o.entries = 1 .. Len(o.entries) /\ Len(o.entries) \in Nat  BY DEF DictLaidOut
  <2>. QED BY <2>1 DEF Live
<1>6. ToSet(items) = o.is
  <2>1. ToSet(items) = {items[i] : i \in 1 .. n}  BY <1>1 DEF ToSet
  <2>2. \A i \in 1 .. n : items[i] \in o.is  BY <1>1, <1>4
  <2>3. ASSUME NEW e \in Live(o) PROVE \E i \in 1 .. n : items[i] = Pair(e)
    <3>1. PICK i \in 1 .. n : u[i] = e - 1  BY <1>2
    <3>2. u[i] + 1 = e  BY <1>5, <3>1
    <3>. QED BY <1>1, <3>2
  <2>4. \A x \in o.is : \E i \in 1 .. n : items[i] = x  BY <1>4, <2>3
  <2>. QED BY <2>1, <2>2, <2>4
<1>7. ASSUME NEW x PROVE Once(items, x, n)
  <2>1. SUFFICES ASSUME NEW i \in 1 .. n, NEW j \in 1 .. n, items[i] = x, items[j] = x
                 PROVE  i = j
    BY DEF Once
  <2> DEFINE e == u[i] + 1
             f == u[j] + 1
  <2>2. e \in Live(o) /\ f \in Live(o) /\ items[i] = Pair(e) /\ items[j] = Pair(f)  BY <1>1
  <2>3. Pair(e) = Pair(f)  BY <2>1, <2>2
  <2>4. o.entries[e].key = o.entries[f].key
    <3>1. Pair(e)[1] = Pair(f)[1]  BY <2>3
    <3>. QED BY <3>1
  <2>5. e = f
    <3>. HIDE DEF e, f
    <3>. QED BY <2>2, <2>4 DEF DictLaidOut
  <2>6. u[i] = u[j]  BY <1>3, <2>5
  <2>. QED BY <1>2, <2>6 DEF Once
<1>8. Len(items) = Cardinality(ToSet(items))  BY <1>1, <1>7, DifferentElements
<1>. QED BY <1>6, <1>8 DEF items

LEMMA DictDecoded ==
  ASSUME LaidOut(object), ReprDict, object' = object
  PROVE  ItemsRight'
<1> DEFINE u == Used(object)
           items == DictItems(object)
<1>1. object.kind = "dict" /\ object.kind # "set"  BY DEF ReprDict
<1>2. CASE object.overwritten
  BY <1>1, <1>2 DEF ItemsRight
<1>3. CASE ~object.overwritten
  <2>1. DictLaidOut(object)  BY <1>1, <1>3 DEF LaidOut
  <2>2. /\ DOMAIN u = 1 .. Len(u) /\ DOMAIN items = 1 .. Len(u) /\ Len(u) \in Nat
        /\ \A i \in 1 .. Len(u) :
             /\ u[i] + 1 \in Live(object) /\ u[i] < Len(object.entries)
             /\ items[i] = <<object.entries[u[i] + 1].key, Value(object, u[i] + 1)>>
    <3>1. u \in Seq(Int)  BY <2>1, UsedEntries
    <3>. QED BY <2>1, <3>1, DictEntries, LenProperties
  <2>3. \A i \in 1 .. Len(u) : u[i] \in Int
    <3>1. u \in Seq(Int)  BY <2>1, UsedEntries
    <3>. QED BY <3>1, ElementOfSeq
  <2>4. ~ \E i \in DOMAIN u : u[i] >= Len(object.entries)
    <3>1. Len(object.entries) \in Nat  BY <2>1 DEF DictLaidOut
    <3>. QED BY <2>2, <2>3, <3>1
  <2>5. /\ \A e \in Live(object) : object.entries[e].key # Null
        /\ object.values = <<>> => \A e \in Live(object) : object.entries[e].value # Null
        /\ object.values # <<>> => Live(object) \subseteq DOMAIN object.values
    BY <2>1 DEF DictLaidOut
  <2>6. CASE \E i \in DOMAIN items : Null \in ToSet(items[i])
    <3>1. shown' = Invalid  BY <2>4, <2>6 DEF ReprDict
    <3>2. PICK i \in 1 .. Len(u) : Null \in ToSet(items[i])  BY <2>2, <2>6
    <3> DEFINE e == u[i] + 1
    <3>3. e \in Live(object) /\ items[i] = <<object.entries[e].key, Value(object, e)>>  BY <2>2
    <3>. HIDE DEF e, items
    <3>4. Value(object, e) = Null
      <4>1. ToSet(<<object.entries[e].key, Value(object, e)>>)
              = {object.entries[e].key, Value(object, e)}
        BY DEF ToSet
      <4>. QED BY <2>5, <3>2, <3>3, <4>1
    <3>5. object.values # <<>> /\ object.values[e] = Null  BY <2>5, <3>3, <3>4 DEF Value
    <3>6. Null \in ToSet(object.values)  BY <2>5, <3>3, <3>5 DEF ToSet
    <3>7. shown'.form # "items"  BY <3>1 DEF Invalid
    <3>. QED BY <1>1, <3>5, <3>6, <3>7 DEF ItemsRight
  <2>7. CASE ~ \E i \in DOMAIN items : Null \in ToSet(items[i])
    <3>1. shown' = Form("items", items)  BY <2>4, <2>7 DEF ReprDict
    <3>2. ASSUME NEW e \in Live(object) PROVE Value(object, e) # Null
      <4>1. e \in Int
        <5>1. DOMAIN object.entries = 1 .. Len(object.entries) /\ Len(object.entries) \in Nat
          BY <2>1 DEF DictLaidOut
        <5>. QED BY <5>1 DEF Live
      <4>2. PICK i \in 1 .. Len(u) : u[i] = e - 1  BY <2>1, UsedEntries
      <4>3. u[i] + 1 = e  BY <4>1, <4>2
      <4>4. items[i] = <<object.entries[e].key, Value(object, e)>>  BY <2>2, <4>3
      <4>5. Value(object, e) \in ToSet(<<object.entries[e].key, Value(object, e)>>)
        BY DEF ToSet
      <4>6. i \in DOMAIN items  BY <2>2
      <4>. HIDE DEF items, u
      <4>. QED BY <2>7, <4>4, <4>5, <4>6
    <3>3. ToSet(items) = object.is /\ Len(items) = Cardinality(object.is)
      BY <2>1, <3>2, DictElements
    <3>4. shown'.form = "items" /\ shown'.value = items  BY <3>1 DEF Form
    <3>. HIDE DEF items
    <3>. QED BY <1>1, <1>3, <3>3, <3>4 DEF ItemsRight
  <2>. QED BY <2>6, <2>7
<1>. QED BY <1>2, <1>3

LEMMA SetDecoded ==
  ASSUME LaidOut(object), ReprSet, object' = object
  PROVE  ItemsRight'
<1>1. object.kind = "set" /\ object.kind # "dict"  BY DEF ReprSet
<1>2. CASE object.overwritten
  BY <1>1, <1>2 DEF ItemsRight
<1>3. CASE ~object.overwritten
  <2>1. SetLaidOut(object)  BY <1>1, <1>3 DEF LaidOut
  <2>2. shown' = Form("items", SetItems(object))
    <3>1. /\ ~(object.fill > object.mask + 1) /\ ~(object.used > object.fill)
          /\ ~(object.mask + 1 > Len(object.table))
      BY <2>1 DEF SetLaidOut
    <3>. QED BY <3>1 DEF ReprSet
  <2> DEFINE items == Kept(SetItems(object), ToSet(SetItems(object)) \ {Unset})
  <2>3. ToSet(items) = object.is /\ Len(items) = Cardinality(object.is)  BY <2>1, SetElements
  <2>4. shown'.form = "items" /\ shown'.value = SetItems(object)  BY <2>2 DEF Form
  <2>. QED BY <1>1, <1>3, <2>3, <2>4 DEF ItemsRight
<1>. QED BY <1>2, <1>3

LEMMA IntDecodedRight ==
  ASSUME LaidOut(object), ReprInt, object' = object
  PROVE  IntRight'
<1>. SUFFICES ASSUME SizeFits(Magnitude(object.ob_size), 8) PROVE IntRight'
  BY DEF IntRight, SizeFits, Magnitude
<1>1. IntLaidOut(object) /\ object.kind = "int"  BY DEF LaidOut, ReprInt
<1>2. shown' = IF ~DigitsExist(object) THEN Invalid
               ELSE IF DigitsRead(object) > Len(object.digits) THEN Unreadable
               ELSE IntText(object)
  BY DEF ReprInt
<1>3. IF IntReadable(object)
      THEN shown' = IF FitsWord(IntIs(object)) THEN Form("number", <<IntIs(object)>>)
                    ELSE DigitsForm(object)
      ELSE shown' \in {Invalid, Unreadable}
  BY <1>1, <1>2, IntDecoded
<1> DEFINE n == Magnitude(object.ob_size)
<1>4. ASSUME IntReadable(object), ~FitsWord(IntIs(object)), n # 3
      PROVE  Number(DigitsLeft(object), DigitBase) = Magnitude(IntIs(object))
  <2>1. n \in Nat /\ n <= Len(object.digits) /\ DigitsRead(object) = n
    BY <1>1, <1>4, SizeRead DEF IntReadable
  <2>2. ~(n <= 2)  BY <1>1, <1>4, <2>1, FewDigits
  <2>3. n > 3  BY <1>4, <2>1, <2>2
  <2>4. DigitsLeft(object) = SubSeq(object.digits, 1, n)  BY <1>4, <2>1 DEF DigitsLeft
  <2>. QED BY <1>1, <2>1, <2>3, <2>4, ManyDigits
<1>8. n = 3 => DigitsLeft(object) = <<>>  BY DEF DigitsLeft
<1>5. CASE IntReadable(object) /\ ~FitsWord(IntIs(object))
  <2>1. shown' = DigitsForm(object)  BY <1>3, <1>5
  <2>2. /\ shown'.form = "digits"
        /\ shown'.value[1] = (IF object.ob_size < 0 THEN -1 ELSE 1)
        /\ shown'.value[2] = DigitsLeft(object)
    BY <2>1 DEF DigitsForm, Form
  <2>. QED BY <1>4, <1>5, <1>8, <2>2 DEF IntRight
<1>6. CASE IntReadable(object) /\ FitsWord(IntIs(object))
  <2>1. shown' = Form("number", <<IntIs(object)>>)  BY <1>3, <1>6
  <2>. QED BY <1>6, <2>1 DEF IntRight
<1>7. CASE ~IntReadable(object)
  <2>1. shown' \in {Invalid, Unreadable}  BY <1>3, <1>7
  <2>. QED BY <1>7, <2>1 DEF IntRight
<1>. QED BY <1>5, <1>6, <1>7

\* What is shown of a value is what Python takes it for, for every integer, string, dict
\* and set that is laid out as CPython does, and whatever follows it in its region; only
\* what has been overwritten is dropped, or lacks a shared key, or has its data where its
\* region ends
\* (PyIntegerObjects.cc:14-67, PyStringObjects.cc:35-118, PyDictObject.cc:70-129,
\* PySetObject.cc:5-15).
THEOREM ValuesAlwaysRight ==
  DecodeSpec => []ShownRight
<1>1. DecodeInit => ShownRight  BY DEF DecodeInit, ShownRight
<1>2. LaidOut(object) /\ ShownRight /\ [DecodeNext]_decoded => ShownRight'
  <2>1. SUFFICES ASSUME LaidOut(object), ShownRight, [DecodeNext]_decoded PROVE ShownRight'
    OBVIOUS
  <2>2. CASE DecodeOver \/ UNCHANGED decoded
    <3>1. object' = object /\ shown' = shown  BY <2>2 DEF DecodeOver, decoded
    <3>. QED BY <2>1, <3>1 DEF ShownRight, IntRight, StringRight, ItemsRight
  <2>3. CASE Decode
    <3>1. /\ object' = object
          /\ ReprInt \/ ReprString \/ ReprDict \/ ReprSet \/ FindLines
      BY <2>3 DEF Decode
    <3>2. object.kind # "int" => IntRight'  BY <3>1 DEF IntRight
    <3>3. object.kind # "str" => StringRight'  BY <3>1 DEF StringRight
    <3>4. object.kind \notin {"dict", "set"} => ItemsRight'  BY <3>1 DEF ItemsRight
    <3>5. CASE ReprInt
      <4>1. object.kind # "str" /\ object.kind \notin {"dict", "set"}  BY <3>5 DEF ReprInt
      <4>2. IntRight'  BY <2>1, <3>1, <3>5, IntDecodedRight
      <4>. QED BY <3>3, <3>4, <4>1, <4>2 DEF ShownRight
    <3>6. CASE ReprString
      <4>1. object.kind # "int" /\ object.kind \notin {"dict", "set"}  BY <3>6 DEF ReprString
      <4>2. StringRight'  BY <2>1, <3>1, <3>6, StringDecoded
      <4>. QED BY <3>2, <3>4, <4>1, <4>2 DEF ShownRight
    <3>7. CASE ReprDict
      <4>1. object.kind # "int" /\ object.kind # "str"  BY <3>7 DEF ReprDict
      <4>2. ItemsRight'  BY <2>1, <3>1, <3>7, DictDecoded
      <4>. QED BY <3>2, <3>3, <4>1, <4>2 DEF ShownRight
    <3>8. CASE ReprSet
      <4>1. object.kind # "int" /\ object.kind # "str"  BY <3>8 DEF ReprSet
      <4>2. ItemsRight'  BY <2>1, <3>1, <3>8, SetDecoded
      <4>. QED BY <3>2, <3>3, <4>1, <4>2 DEF ShownRight
    <3>9. CASE FindLines
      <4>1. object.kind # "int" /\ object.kind # "str" /\ object.kind \notin {"dict", "set"}
        BY <3>9 DEF FindLines
      <4>. QED BY <3>2, <3>3, <3>4, <4>1 DEF ShownRight
    <3>. QED BY <3>1, <3>5, <3>6, <3>7, <3>8, <3>9
  <2>. QED BY <2>1, <2>2, <2>3 DEF DecodeNext
<1>. QED BY <1>1, <1>2, ObjectLaidOut, PTL DEF DecodeSpec
=============================================================================
