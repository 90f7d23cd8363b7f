---------------------------- MODULE MCRegionMap ----------------------------
(* Small snapshots for TLC. *)
EXTENDS RegionMap

Region(start, size) == [start |-> start, size |-> size, named |-> TRUE]

Directory(records) == [form |-> "directory", records |-> records, cut |-> FALSE]

Stream(records, cut) == [form |-> "stream", records |-> records, cut |-> cut]

\* Directories: of one dump, with two regions that touch, an empty file and a
\* file of another name; of two dumps, with a region that has grown, one that
\* was unmapped and one that overlaps an older one.  Streams: as written by
\* dump_memory.py, with the empty record of a process that has gone, complete
\* and cut short; and one without any record.
SmallSources ==
  {Directory(<<Region(2, 4), Region(6, 2), Region(9, 3), Region(13, 0),
               [start |-> 2, size |-> 3, named |-> FALSE]>>),
   Directory(<<Region(2, 4), Region(2, 6), Region(7, 3)>>),
   Directory(<<Region(1, 6), Region(3, 2), Region(10, 3)>>),
   Stream(<<Region(9, 3), Region(12, 0), Region(2, 4)>>, FALSE),
   Stream(<<Region(2, 4), Region(6, 2), Region(9, 3)>>, TRUE),
   Stream(<<>>, FALSE)}

\* A dump of three regions, as anyone would make it.
OrdinarySources == {Directory(<<Region(2, 4), Region(8, 2), Region(12, 3)>>)}

\* Places for four files, some of which touch.
SmallHosts == {1, 5, 7, 11, 20, 24}
=============================================================================
