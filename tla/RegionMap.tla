----------------------------- MODULE RegionMap -----------------------------
(***************************************************************************)
(* The snapshot reader: MemoryReader's constructor and lookups             *)
(* (src/MemoryReader.cc, src/MemoryReader.hh).  A snapshot is a directory  *)
(* with one file per region, listed in any order, or one file (a stream)   *)
(* with one record per region.  Every region is entered in two maps, by    *)
(* the address it had in the process and by the address it is mapped at    *)
(* here, and everything the analysis reads is found through them.          *)
(*                                                                         *)
(* Addresses of the snapshot are numbers modulo Word; an object is its     *)
(* address and its size.                                                   *)
(***************************************************************************)
EXTENDS Integers, Sequences, FiniteSets

CONSTANTS Word,     \* 2^64
          Header,   \* the bytes before the data of a record of a stream
          Hosts,    \* the addresses mmap may return
          Sources   \* the snapshots considered: their records in the order of
                    \* the stream; named says that a file of a directory is
                    \* named mem.START.END.bin, cut that the last record of a
                    \* stream is incomplete

Record == [start : Nat, size : Nat, named : BOOLEAN]

ASSUME WordAssumption == Word \in Nat \ {0}

ASSUME HeaderAssumption == Header \in Nat \ {0}

ASSUME HostsAssumption == Hosts \subseteq Nat

\* No region of a process reaches the end of the address space.
ASSUME SourcesAssumption ==
  \A s \in Sources :
    /\ s \in [form : {"directory", "stream"}, records : Seq(Record), cut : BOOLEAN]
    /\ \A i \in DOMAIN s.records : s.records[i].start + s.records[i].size < Word

VARIABLES source,             \* the snapshot that is loaded
          phase,              \* "loading", "ready" or "threw"
          left,               \* the records still to be read
          where,              \* the host address the stream is read at
          regions_by_mapped,  \* the regions by their address in the process
          regions_by_host,    \* the regions by their address here
          total_bytes

tables == <<regions_by_mapped, regions_by_host, total_bytes>>
vars == <<source, phase, left, where, tables>>

View == [addr : Nat, host : Nat, size : Nat]

----------------------------------------------------------------------------
(* Loading. *)

Init ==
  /\ source \in Sources
  /\ phase = "loading"
  /\ left = DOMAIN source.records
  /\ where \in IF source.form = "stream" THEN Hosts ELSE {0}
  /\ regions_by_mapped = [a \in {} |-> {}]
  /\ regions_by_host = [h \in {} |-> {}]
  /\ total_bytes = 0

\* std::map::emplace: the value that a key already has stays.
Emplace(map, key, view) ==
  [k \in DOMAIN map \cup {key} |-> IF k \in DOMAIN map THEN map[k] ELSE view]

\* Bug: both maps get the same key.
AddRegionOneKey(rec, host) ==
  LET view == [addr |-> rec.start, host |-> host, size |-> rec.size]
  IN /\ regions_by_mapped' = Emplace(regions_by_mapped, rec.start, view)
     /\ regions_by_host' = Emplace(regions_by_host, rec.start, view)
     /\ total_bytes' = total_bytes + rec.size

AddRegion(rec, host) ==
  LET view == [addr |-> rec.start, host |-> host, size |-> rec.size]
  IN /\ regions_by_mapped' = Emplace(regions_by_mapped, rec.start, view)
     /\ regions_by_host' = Emplace(regions_by_host, host, view)
     /\ total_bytes' = total_bytes + rec.size

\* mmap returns memory that is not in use.
Unused(host, size) ==
  \A h \in DOMAIN regions_by_host :
    host + size <= h \/ h + regions_by_host[h].size <= host

\* One entry of the directory, in no particular order: files of other names
\* and empty ones are passed over.
LoadFile(i) ==
  /\ phase = "loading"
  /\ source.form = "directory"
  /\ left' = left \ {i}
  /\ IF source.records[i].named /\ source.records[i].size > 0
     THEN \E host \in Hosts : /\ Unused(host, source.records[i].size)
                              /\ AddRegion(source.records[i], host)
     ELSE UNCHANGED tables
  /\ UNCHANGED <<source, phase, where>>

\* One turn of the loop over a stream; a record of size 0 is entered as well.
\* Reading past the end of the file throws.
LoadRecord(i) ==
  /\ phase = "loading"
  /\ source.form = "stream"
  /\ \A j \in left : i <= j
  /\ left' = left \ {i}
  /\ IF source.cut /\ left' = {}
     THEN phase' = "threw" /\ UNCHANGED <<where, tables>>
     ELSE /\ AddRegion(source.records[i], where + Header)
          /\ where' = where + Header + source.records[i].size
          /\ UNCHANGED phase
  /\ UNCHANGED source

\* The constructor throws: a name has no number for an address, or a file, or
\* the one of a stream, cannot be opened or mapped.  Files of other names are
\* passed over before that.
LoadThrows ==
  /\ phase = "loading"
  /\ IF source.form = "stream" THEN left = DOMAIN source.records
                               ELSE \E i \in left : source.records[i].named
  /\ phase' = "threw"
  /\ UNCHANGED <<source, left, where, tables>>

Loaded ==
  /\ phase = "loading"
  /\ left = {}
  /\ phase' = "ready"
  /\ UNCHANGED <<source, left, where, tables>>

Over == phase # "loading" /\ UNCHANGED vars

Next ==
  \/ \E i \in left : LoadFile(i) \/ LoadRecord(i)
  \/ LoadThrows \/ Loaded
  \/ Over

Spec == Init /\ [][Next]_vars

----------------------------------------------------------------------------
(* Lookups.  A lookup that throws gives the empty set. *)

\* The entry before upper_bound(a).
Before(map, a) ==
  {k \in DOMAIN map : k <= a /\ \A j \in DOMAIN map : j <= a => j <= k}

\* Bug: lower_bound for upper_bound misses the first address of a region.
FindByMappedLower(a) ==
  {regions_by_mapped[k] : k \in {k \in DOMAIN regions_by_mapped :
     /\ k < a /\ \A j \in DOMAIN regions_by_mapped : j < a => j <= k
     /\ (k + regions_by_mapped[k].size) % Word > a}}

\* find_region_by_mapped_addr
FindByMapped(a) ==
  {regions_by_mapped[k] : k \in {k \in Before(regions_by_mapped, a) :
     (regions_by_mapped[k].addr + regions_by_mapped[k].size) % Word > a}}

\* Bug: the address after the last of a region is taken for one of its own.
FindByHostPastEnd(h) ==
  {regions_by_host[k] : k \in {k \in Before(regions_by_host, h - 1) :
     h <= regions_by_host[k].host + regions_by_host[k].size}}

\* find_region_by_host_addr
FindByHost(h) ==
  {regions_by_host[k] : k \in {k \in Before(regions_by_host, h) :
     h < regions_by_host[k].host + regions_by_host[k].size}}

\* Bug: only the start of the range is looked for.
ExistsRangeStart(a, n) == FindByMapped(a) # {}

\* exists_range; bytes_until wraps.
ExistsRange(a, n) == \E r \in FindByMapped(a) : (a + n - r.addr) % Word <= r.size

\* read: the host addresses at which the n bytes at a are found.
Read(a, n) ==
  {r.host + (a - r.addr) : r \in {r \in FindByMapped(a) :
     LET end == (a - r.addr + n) % Word
     IN end <= r.size /\ end >= a - r.addr}}

ObjValid(a, n, alignment) ==
  a # 0 /\ a % alignment = 0 /\ ExistsRange(a, n)

\* As it is written: the negation is of the whole conjunction.
ObjValidOrNull(a, n, alignment) ==
  a = 0 \/ ~(a % alignment # 0 /\ ExistsRange(a, n))

\* host_to_mapped
HostToMapped(h, n) ==
  {r.addr + (h - r.host) : r \in {r \in FindByHost(h) :
     h - r.host < r.size /\ h - r.host + n <= r.size}}

\* all_regions
AllRegions == {<<regions_by_mapped[k].addr, regions_by_mapped[k].size>> :
                 k \in DOMAIN regions_by_mapped}

----------------------------------------------------------------------------
(* Properties. *)

TypeOK ==
  /\ source \in Sources
  /\ phase \in {"loading", "ready", "threw"}
  /\ left \subseteq DOMAIN source.records
  /\ where \in Nat
  /\ regions_by_mapped \in [DOMAIN regions_by_mapped -> View]
  /\ regions_by_host \in [DOMAIN regions_by_host -> View]
  /\ \A k \in DOMAIN regions_by_mapped : regions_by_mapped[k].addr = k
  /\ \A h \in DOMAIN regions_by_host : regions_by_host[h].host = h
  /\ total_bytes \in Nat

\* The records that have become regions.
Regions ==
  {i \in DOMAIN source.records \ left :
     IF source.form = "stream" THEN i < Len(source.records) \/ ~source.cut
     ELSE source.records[i].named /\ source.records[i].size > 0}

Overlap(r, s) == r.start < s.start + s.size /\ s.start < r.start + r.size

\* The files of one dump: no two regions of a process overlap or start at the
\* same address.  A second dump into the same directory leaves old files there.
OneDump ==
  \A i, j \in DOMAIN source.records :
    LET r == source.records[i]
        s == source.records[j]
    IN i # j => r.start # s.start /\ ~Overlap(r, s)

Addresses == 0 .. (Word - 1)

\* A lookup finds the region that holds the address and finds none if there is
\* none, in whatever order the directory lists the files, and with empty records
\* of a stream in between (MemoryReader.cc:235-245).
LookupRight ==
  OneDump =>
    \A a \in Addresses :
      {r.addr : r \in FindByMapped(a)} =
        {source.records[i].start : i \in {i \in Regions :
           /\ source.records[i].start <= a
           /\ a < source.records[i].start + source.records[i].size}}

\* Even in a directory that holds two dumps, whose regions overlap, every region
\* that all_regions lists can be read whole, so that no scan throws before it
\* starts (MemoryReader.hh:212-215).
RegionsReadable ==
  source.form = "directory" =>
    \A r \in AllRegions : \E k \in DOMAIN regions_by_mapped :
      r[1] = k /\ Read(r[1], r[2]) = {regions_by_mapped[k].host}

\* What obj_valid accepts can be read: the checks and the reads that follow them
\* agree, for objects that do not reach beyond the address space when they are
\* laid out from the end of a region (MemoryReader.hh:269-273); and so can the
\* regions that are listed.
ValidMeansReadable ==
  /\ RegionsReadable
  /\ \A a \in Addresses : \A r \in FindByMapped(a) : \A n \in 1 .. (Word - 1 - r.size) :
       ObjValid(a, n, 1) => Read(a, n) # {}

\* An object that was read at an address gets that address back from its place
\* in the host's memory, wherever mmap has put the files, also when files of two
\* dumps overlap (MemoryReader.hh:280-291, MemoryReader.cc:247-258).
HostRoundTrip ==
  \A a \in Addresses : \A n \in 1 .. (Word - 1) :
    \A h \in Read(a, n) : HostToMapped(h, n) = {a}

\* "many other pointer fields which must either be null or point to a valid
\* address" (README.md:153): obj_valid_or_null, which checks them, accepts no
\* other pointers.
NullOrValid ==
  phase = "ready" =>
    \A a \in Addresses : ObjValidOrNull(a, 2, 2) => a = 0 \/ ObjValid(a, 2, 2)
=============================================================================
