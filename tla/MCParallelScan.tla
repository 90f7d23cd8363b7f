--------------------------- MODULE MCParallelScan ---------------------------
(* Small scans for TLC: blocks of 4 bytes instead of 0x1000. *)
EXTENDS ParallelScan

Scan(regions, stride, object_size) ==
  [regions |-> regions, stride |-> stride, object_size |-> object_size]

\* Regions of one, two and three blocks, objects that end before, at and
\* beyond the end of a block, every legal stride and an illegal one, a snapshot
\* with an empty region (a stream file may hold one) and one with none.
PageScans ==
  {Scan(<<8, 4>>, stride, size) : stride \in {1, 2, 4}, size \in {1, 2, 3}}
  \cup {Scan(<<12>>, 2, 5), Scan(<<8, 4>>, 2, 5), Scan(<<4, 4, 4>>, 4, 4),
        Scan(<<4, 4>>, 3, 2), Scan(<<8>>, 8, 2), Scan(<<4, 0, 4>>, 2, 2),
        Scan(<<>>, 2, 2)}

\* Every stride and object size in whole pages: 0, the ones that are
\* accepted and the ones that are refused; none, one and two regions, of one
\* and two blocks, and an empty one in either place.
StrideScans ==
  {Scan(regions, stride, size) :
     regions \in {<<>>, <<4>>, <<8>>, <<4, 4>>, <<8, 4>>, <<4, 0>>, <<0, 4>>},
     stride \in 0 .. 8, size \in {1, 2, 4}}

SmallScans == PageScans \cup StrideScans
=============================================================================
