---------------------------- MODULE MCTraversal ----------------------------
(* Small snapshots and settings for TLC. *)
EXTENDS Traversal, TLC

Obj(kind, items, fields) ==
  [kind |-> kind, state |-> "ok", items |-> items, fields |-> fields]

NoFields == [f \in {} |-> Null]
Scalar == Obj("scalar", <<>>, NoFields)
Overwritten(state) == [Scalar EXCEPT !.state = state]

\* An object of a kind that holds other objects; the keys of a dict are the
\* scalar at 7.
Holding(kind, refs) ==
  CASE kind = "dict" -> Obj(kind, [i \in 1 .. (2 * Len(refs)) |-> IF i % 2 = 1 THEN 7 ELSE refs[i \div 2]],
                            NoFields)
    [] kind = "cell" -> Obj(kind, <<>>, "ob_ref" :> refs[1])
    [] OTHER         -> Obj(kind, refs, NoFields)

\* What objects 1 to 3 hold: a cycle of three, one object held twice, cycles
\* within each other, pointers to objects that are overwritten or not there.
Shapes == {<< <<2>>, <<3>>, <<1>> >>,
           << <<2, 3>>, <<3, 7>>, <<7>> >>,
           << <<1, 2>>, <<3, 2>>, <<2, 1>> >>,
           << <<2, 3>>, <<8, 3>>, <<7>> >>,
           << <<2, 2>>, <<3>>, <<9, 99>> >>}

Containers ==
  {[i \in 1 .. 3 |-> Holding(kinds[i], shape[i])] @@
     7 :> Scalar @@ 8 :> Overwritten("bad_refcount") @@ 9 :> Overwritten("bad_type") :
     kinds \in {"list", "set", "dict"} \X {"list", "set", "dict"} \X {"list", "tuple", "cell"},
     shape \in Shapes}

\* Containers that hold one whose table cannot be read, and one whose sizes
\* contradict each other.
Unreadable ==
  {1 :> Holding(kind, <<2, 3, 2>>) @@ 7 :> Scalar @@
   2 :> [Holding(table, <<7>>) EXCEPT !.state = "bad_table"] @@
   3 :> [Holding(content, <<2, 7>>) EXCEPT !.state = "bad_content"] :
     kind \in {"list", "set", "tuple"}, table \in {"list", "set", "dict"},
     content \in {"list", "dict"}}

\* A gather that waits for a task, whose coroutine's frame has the gather for a
\* local variable and is called by another frame, in a generator.
Await(frame_back, local) ==
  1 :> Obj("gather", <<2, 10>>, "fut_exception" :> 11) @@
  2 :> Obj("task", <<>>, "task_coro" :> 3 @@ "task_name" :> 7) @@
  3 :> Obj("coroutine", <<>>, "gi_qualname" :> 7 @@ "gi_frame" :> 4) @@
  4 :> Obj("frame", <<local>>, "f_code" :> 5 @@ "f_back" :> frame_back) @@
  5 :> Obj("code", <<>>, "co_name" :> 7 @@ "co_filename" :> 7 @@ "co_varnames" :> 6) @@
  6 :> Obj("tuple", <<7>>, NoFields) @@
  7 :> Scalar @@
  10 :> Obj("generator", <<>>, "gi_frame" :> frame_back) @@
  11 :> Obj("future", <<>>, "fut_result" :> 10) @@
  12 :> Obj("frame", <<>>, "f_back" :> 4 @@ "f_gen" :> 10) @@
  13 :> Obj("asyncgen", <<>>, "ag_finalizer" :> 12)

Asyncs == {Await(12, 1), Await(4, Null), Await(Null, 13), Await(99, 99)}

\* Threads with a frame that runs, with none, and with a pointer to no frame; with
\* an exception, and with half of one.
Threads ==
  {14 :> Obj("thread", <<>>, "frame" :> frame @@ "curexc_type" :> 7 @@ "curexc_value" :> value @@
                             "curexc_traceback" :> 11 @@ "dict" :> 15 @@ "context" :> 13 @@
                             "async_gen_finalizer" :> finalizer) @@
   15 :> Obj("dict", <<7, 2>>, NoFields) @@ Await(12, 1) :
     <<frame, value, finalizer>> \in {<<12, 1, 13>>, <<Null, Null, Null>>, <<2, 1, Null>>, <<12, 1, 99>>}}

\* Types and user objects: a type whose dict holds functions with the type in
\* their cells, and which is in its own mro; objects with a dict, with slots,
\* with neither, and with a dict that is none; a code object among its constants.
Types ==
  {1 :> Obj("type", <<>>, "tp_base" :> 2 @@ "tp_dict" :> 3 @@ "tp_mro" :> 4) @@
   2 :> Obj("type", <<>>, "tp_dict" :> 3) @@
   3 :> Obj("dict", <<7, 5, 7, 3>>, NoFields) @@
   4 :> Obj("tuple", <<1, 2, 5>>, NoFields) @@
   5 :> Obj("cell", <<>>, "ob_ref" :> 4) @@
   6 :> Obj("user", slots, dict) @@
   7 :> Scalar @@
   8 :> Obj("code", <<>>, "co_consts" :> 10 @@ "co_filename" :> 7) @@
   10 :> Obj("list", <<8, 6>>, NoFields) :
     slots \in {<<>>, <<6, 10>>}, dict \in {NoFields, "dict" :> 3, "dict" :> 4}}

\* Coroutines whose names are stale: a name is a coroutine, a type whose dict
\* holds a frame, a code object or a user object; a frame's file is a coroutine or
\* a frame.  Frames are run by code that cannot be read, or is not there.
Stale ==
  {1 :> Obj("coroutine", <<>>, "gi_qualname" :> name @@ "gi_frame" :> 4) @@
   2 :> Obj("coroutine", <<>>, "gi_qualname" :> 3 @@ "gi_frame" :> frame) @@
   3 :> Obj("type", <<>>, "tp_dict" :> 8) @@
   4 :> Obj("frame", <<3>>, "f_code" :> 5 @@ "f_back" :> 4) @@
   5 :> Obj("code", <<>>, "co_filename" :> file @@ "co_varnames" :> 6 @@ "co_consts" :> 8) @@
   6 :> Obj("tuple", <<7>>, NoFields) @@
   7 :> Scalar @@
   8 :> Obj("dict", <<7, 4>>, NoFields) @@
   9 :> Obj("user", <<>>, "dict" :> 8) @@
   10 :> Obj("frame", <<99>>, "f_code" :> 5) :
     <<name, frame, file>> \in {<<1, Null, 7>>, <<2, 99, 7>>, <<2, 4, 2>>, <<2, 10, 4>>,
                                <<5, 99, 4>>, <<9, 10, 2>>, <<2, Null, 1>>, <<7, 4, 7>>}}

SmallHeaps == Containers \cup Unreadable \cup Asyncs \cup Threads \cup Types \cup Stale

Set(depth, entries, from, short, omit, knows) ==
  [max_recursion_depth |-> depth, max_entries |-> entries, recursion_depth |-> from,
   is_short |-> short, frame_omit_back |-> omit, frame_omit_locals |-> omit, knows_code |-> knows]

\* No limits, and every limit by itself and together; the short form;
\* find-all-stacks' settings; snapshots whose code type has not been found.
SmallSettings ==
  {Set(-1, -1, 0, FALSE, FALSE, TRUE), Set(-1, 1, 0, FALSE, FALSE, TRUE),
   Set(0, -1, 0, FALSE, FALSE, TRUE), Set(1, -1, 0, FALSE, FALSE, TRUE),
   Set(2, 0, 0, FALSE, FALSE, TRUE), Set(2, 1, 1, TRUE, FALSE, TRUE),
   Set(-1, -1, 1, TRUE, TRUE, TRUE), Set(-1, -1, 0, FALSE, FALSE, FALSE),
   Set(3, -1, 0, FALSE, TRUE, FALSE), Set(1, -1, 0, TRUE, FALSE, FALSE)}
=============================================================================
