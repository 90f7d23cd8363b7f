---------------------------- MODULE AbstractScan ----------------------------
(***************************************************************************)
(* What MemoryReader::map_all_addresses promises to the commands that call *)
(* it: the callback runs once for every eligible address of the snapshot,  *)
(* in an order the caller cannot rely on, and the call returns only when   *)
(* it has run for all of them.  A request that cannot be scanned is        *)
(* refused before the callback runs at all.                                *)
(***************************************************************************)

VARIABLES eligible,     \* the addresses the scan has to report (never changes)
          acceptable,   \* whether the request can be scanned   (never changes)
          visited,      \* the addresses the callback has run for
          status        \* "running", "returned" or "refused"

avars == <<eligible, acceptable, visited, status>>

\* What was asked for stays the same.
SameRequest == eligible' = eligible /\ acceptable' = acceptable

AInit == visited = {} /\ status = "running"

AVisit == /\ status = "running"
          /\ acceptable
          /\ \E a \in eligible \ visited : visited' = visited \cup {a}
          /\ status' = status
          /\ SameRequest

AReturn == /\ status = "running"
           /\ acceptable
           /\ visited = eligible
           /\ status' = "returned"
           /\ visited' = visited
           /\ SameRequest

ARefuse == /\ status = "running"
           /\ ~acceptable
           /\ status' = "refused"
           /\ visited' = visited
           /\ SameRequest

ANext == AVisit \/ AReturn \/ ARefuse

\* The call does what it has left to do.
AFairness == WF_avars(ANext)

ASpec == AInit /\ [][ANext]_avars /\ AFairness
=============================================================================
