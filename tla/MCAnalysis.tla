----------------------------- MODULE MCAnalysis -----------------------------
(* Small snapshots for TLC. *)
EXTENDS Analysis, TLC

Type(base, name) == [ob_type |-> base, name |-> name]

\* A snapshot with one base type, two types of one name, and a type that only
\* looks like a base type; one with two base types; one with none.
SmallHeaps ==
  {1 :> Type(1, "type") @@ 2 :> Type(1, "x") @@ 3 :> Type(1, "x") @@ 4 :> Type(4, "y"),
   1 :> Type(1, "type") @@ 2 :> Type(2, "type") @@ 3 :> Type(1, "x"),
   2 :> Type(1, "x")}
=============================================================================
