------------------------------- MODULE MCStacks -------------------------------
(* All memories of a few frames, for TLC. *)
EXTENDS Stacks

Frame(check, state, back) ==
  [check |-> check, looks_up |-> TRUE, state |-> state, back |-> back]

\* A frame whose check ends before the code type is looked up.
NoCode(frame) == [frame EXCEPT !.looks_up = FALSE]

\* A frame with a bad header, one whose repr is not valid, one that has
\* returned, and ones that run or could run, called by any frame, by none, or
\* with a pointer that leads to no frame; and two that have no code.
AnyFrame ==
  {Frame("header", "running", Null), Frame("repr", "running", Null), Frame("ok", "over", Null)}
  \cup {NoCode(Frame("ok", "running", Null)), NoCode(Frame("repr", "running", Null))}
  \cup {Frame("ok", state, back) : state \in {"runnable", "running"},
                                   back \in Frames \cup {Null, Stray}}
=============================================================================
