------------------------------- MODULE MCDump -------------------------------
(* Small targets for TLC. *)
EXTENDS Dump

Line1(readable, shared, chunks) ==
  [readable |-> readable, shared |-> shared, chunks |-> chunks]

\* A range of two chunks, one of one chunk, a shared one and a guard page.
FourLines == <<Line1(TRUE, FALSE, 2), Line1(TRUE, TRUE, 1),
               Line1(FALSE, FALSE, 1), Line1(TRUE, FALSE, 1)>>
=============================================================================
