----------------------------- MODULE Traversal -----------------------------
(***************************************************************************)
(* Printing an object and what it contains: Traversal (src/Types/Base.hh,  *)
(* Base.cc) and the repr and invalid_reason of every type (src/Types).     *)
(* The memory is whatever was found in a snapshot: objects may contain     *)
(* themselves, point to nothing, or be overwritten.                        *)
(*                                                                         *)
(* repr is recursive: here its activations are on stack.  An activation    *)
(* prints its parts one after the other, and calls repr for each item of a *)
(* part.  CycleGuard and IndentGuard are taken when the activation begins  *)
(* and released when it returns or is left by an exception.                *)
(***************************************************************************)
EXTENDS Integers, Sequences, SequencesExt, FiniteSets

CONSTANTS Heaps,    \* the snapshots considered: what is at each address
          Settings, \* the settings of a Traversal, and of its environment
          MaxReprs, \* how many objects one Traversal prints
          MaxStack  \* how many activations of repr the process's own stack has room for

Null == 0

Kinds == {"scalar", "tuple", "list", "set", "dict", "cell", "code", "frame",
          "generator", "asyncgen", "coroutine", "future", "task", "gather",
          "type", "user", "thread"}

\* scalar: numbers, strings and None, which contain nothing.  items: what a
\* container holds (a dict's keys and values in turn), a frame's locals, a
\* gather's children and a user type's slots.  A thread is a PyThreadState, which
\* is no Python object; nothing in the heap points to it.  state says what has been
\* overwritten: nothing; its sizes, so that they contradict each other; its sizes or
\* pointers, so that its table goes on where nothing can be read; its reference
\* count; all from its type on.  None is a scalar with bad content:
\* Environment::invalid_reason has a reason for it.
ASSUME HeapsAssumption ==
  \A h \in Heaps : \A o \in DOMAIN h :
    /\ o \in Nat \ {Null}
    /\ h[o].kind \in Kinds
    /\ h[o].state \in {"ok", "bad_content", "bad_table", "bad_refcount", "bad_type"}
    /\ h[o].state = "bad_table" => h[o].kind \in {"list", "dict", "set"}
    /\ h[o].items \in Seq(Nat)
    /\ h[o].fields \in [DOMAIN h[o].fields -> Nat]

\* -1 is no limit.  knows_code is whether analysis-data.json has a type "code".
ASSUME SettingsAssumption ==
  Settings \subseteq [max_recursion_depth : Nat \cup {-1}, max_entries : Nat \cup {-1},
                      recursion_depth : Nat, is_short : BOOLEAN,
                      frame_omit_back : BOOLEAN, frame_omit_locals : BOOLEAN,
                      knows_code : BOOLEAN]

ASSUME BoundsAssumption == MaxReprs \in Nat /\ MaxStack \in Nat

VARIABLES heap,                \* the memory
          setting,             \* what the Traversal is made with
          max_recursion_depth,
          recursion_depth,
          in_progress,
          is_valid,
          stack,               \* activations: [obj, parts, guarded, indent]
          throwing,            \* an exception other than out_of_range
          roots,               \* history: what repr was called for from outside
          expanded             \* history: the objects whose contents were printed

guards == <<max_recursion_depth, recursion_depth, in_progress>>
vars == <<heap, setting, guards, is_valid, stack, throwing, roots, expanded>>

Init ==
  /\ heap \in Heaps
  /\ setting \in Settings
  /\ max_recursion_depth = setting.max_recursion_depth
  /\ recursion_depth = setting.recursion_depth
  /\ in_progress = {}
  /\ is_valid = TRUE
  /\ stack = <<>>
  /\ throwing = FALSE
  /\ roots = {}
  /\ expanded = {}

----------------------------------------------------------------------------
(* invalid_reason: "ok", a reason, or an exception. *)

Readable(o) == o \in DOMAIN heap

Ref(o, field) == IF field \in DOMAIN heap[o].fields THEN heap[o].fields[field] ELSE Null

\* PyObject::invalid_reason finds nothing.
HeaderOK(o) == Readable(o) /\ heap[o].state \in {"ok", "bad_content", "bad_table"}

Intact(o) == heap[o].state \in {"ok", "bad_refcount"}

\* The sizes are compared, then the table is read (get_array, get_items, read_entries).
TableCheck(o) ==
  IF heap[o].state = "bad_table" THEN "out_of_range" ELSE IF Intact(o) THEN "ok" ELSE "reason"

\* get, then PyObject::invalid_reason
ItemCheck(o) ==
  IF ~Readable(o) THEN "out_of_range" ELSE IF HeaderOK(o) THEN "ok" ELSE "reason"

FirstProblem(checks) ==
  LET i == SelectInSeq(checks, LAMBDA c : c # "ok")
  IN IF i = 0 THEN "ok" ELSE checks[i]

ItemsCheck(items) == FirstProblem([i \in DOMAIN items |-> ItemCheck(items[i])])

\* PyListObject::invalid_reason lets an exception through
ListCheck(o) == IF TableCheck(o) = "ok" THEN ItemsCheck(heap[o].items) ELSE TableCheck(o)

\* PyTupleObject::invalid_reason makes it a reason
TupleCheck(o) ==
  IF Intact(o) /\ ItemsCheck(heap[o].items) = "ok" THEN "ok" ELSE "reason"

\* PyDictObject::invalid_reason lets through what get_items throws, but looks at
\* each entry before it reads it.
DictCheck(o) ==
  IF ~HeaderOK(o) THEN "reason"
  ELSE IF TableCheck(o) = "ok" /\ ItemsCheck(heap[o].items) # "ok" THEN "reason"
  ELSE TableCheck(o)

\* PySetObject::invalid_reason: obj_valid_or_null accepts every entry
SetCheck(o) == IF HeaderOK(o) THEN TableCheck(o) ELSE "reason"

\* PyAsyncFutureObject::invalid_reason, which likewise accepts every field
FutureCheck(o) == IF HeaderOK(o) /\ Intact(o) THEN "ok" ELSE "reason"

\* PyTypeObject::invalid_reason
TypeCheck(o) == IF HeaderOK(o) /\ Intact(o) THEN "ok" ELSE "reason"

\* PyAsyncTaskObject::invalid_reason
TaskCheck(o) ==
  IF FutureCheck(o) = "ok" /\ Readable(Ref(o, "task_coro")) THEN "ok" ELSE "reason"

\* Environment::invalid_reason with an expected type
IsA(o, kind) ==
  /\ HeaderOK(o)
  /\ heap[o].kind = kind
  /\ Intact(o)
  /\ kind = "tuple" => TupleCheck(o) = "ok"

Varnames(f) == heap[Ref(Ref(f, "f_code"), "co_varnames")].items

\* One local variable: its name must be a string; its value may be null.
LocalCheck(name, value) ==
  IF ~IsA(name, "scalar") THEN "reason" ELSE IF value = Null THEN "ok" ELSE ItemCheck(value)

\* PyFrameObject::invalid_reason; get_type throws
FrameCheck(f) ==
  LET code == Ref(f, "f_code")
  IN IF ~Intact(f) THEN "reason"
     ELSE IF code = Null THEN "ok"
     ELSE IF ~setting.knows_code THEN "throws"
     ELSE IF ~(IsA(code, "code") /\ IsA(Ref(code, "co_varnames"), "tuple")) THEN "reason"
     ELSE FirstProblem([z \in DOMAIN Varnames(f) |->
                          LocalCheck(Varnames(f)[z], heap[f].items[z])])

\* invalid_reason of the types of Python's objects.  A generator's and a coroutine's
\* asks obj_valid_or_null, with an alignment that accepts every field.
ObjectCheck(o) ==
  CASE heap[o].kind = "tuple"              -> TupleCheck(o)
    [] heap[o].kind = "list"               -> ListCheck(o)
    [] heap[o].kind = "dict"               -> DictCheck(o)
    [] heap[o].kind = "set"                -> SetCheck(o)
    [] heap[o].kind \in {"future", "gather"} -> FutureCheck(o)
    [] heap[o].kind = "type"               -> TypeCheck(o)
    [] heap[o].kind = "task"               -> TaskCheck(o)
    [] heap[o].kind = "frame"              -> FrameCheck(o)
    [] OTHER -> IF Intact(o) THEN "ok" ELSE "reason"

\* An object of a type that is not built in: its slots and its dict.
UserCheck(o) ==
  IF /\ ItemsCheck(heap[o].items) = "ok"
     /\ "dict" \in DOMAIN heap[o].fields =>
          LET dict == Ref(o, "dict")
          IN Readable(dict) /\ heap[dict].kind = "dict" /\ DictCheck(dict) = "ok"
  THEN "ok" ELSE "reason"

\* Environment::invalid_reason; kinds are those of the type that is expected, if any.
EnvironmentCheck(o, kinds) ==
  IF ~HeaderOK(o) \/ heap[o].kind \notin kinds \/ ObjectCheck(o) = "out_of_range" THEN "reason"
  ELSE IF heap[o].kind = "user" THEN UserCheck(o)
  ELSE ObjectCheck(o)

\* PyThreadState::invalid_reason.  obj_valid_or_null, which is asked for the fields
\* of exc_state, between curexc_traceback and dict, accepts every pointer.
ThreadFields ==
  <<"frame", "c_profileobj", "c_traceobj", "curexc_type", "curexc_value", "curexc_traceback",
    "dict", "async_exc", "trash_delete_later", "async_gen_firstiter", "async_gen_finalizer",
    "context">>

ThreadCheck(o) ==
  LET kinds(f) == CASE f = "frame" -> {"frame"} [] f = "dict" -> {"dict"} [] OTHER -> Kinds
      check(f) == IF Ref(o, f) = Null THEN "ok" ELSE EnvironmentCheck(Ref(o, f), kinds(f))
  IN IF ~Intact(o) THEN "reason"
     ELSE FirstProblem([i \in DOMAIN ThreadFields |-> check(ThreadFields[i])])

InvalidReason(o) == IF heap[o].kind = "thread" THEN ThreadCheck(o) ELSE ObjectCheck(o)

----------------------------------------------------------------------------
(* The parts of each kind of object. *)

\* catches: an exception ends the part only.  indent: the part has an
\* IndentGuard of its own.  limits: it is printed with a limit of its own.
Plain(items)   == [items |-> items, catches |-> FALSE, indent |-> 0, limits |-> FALSE]
Caught(items)  == [items |-> items, catches |-> TRUE, indent |-> 0, limits |-> FALSE]
Limited(items) == [items |-> items, catches |-> FALSE, indent |-> 0, limits |-> TRUE]

\* repr prints NULL for a null field; some are not printed then.
Fields(o, names) == [i \in DOMAIN names |-> Ref(o, names[i])]

\* Bug: no limit is taken for a limit of no entries.
FirstEntriesUnlessZero(items, n) == SubSeq(items, 1, IF n < Len(items) THEN n ELSE Len(items))

\* What max_entries leaves; n < 0 is no limit.
FirstEntries(items, n) == IF n >= 0 /\ n < Len(items) THEN SubSeq(items, 1, n) ELSE items

TupleItems(o) == FirstEntries(heap[o].items, setting.max_entries)

ListItems(o) == FirstEntries(heap[o].items, setting.max_entries)

\* The entries of a table that are not null: first[i] are those among the first i.
NonNull(table) ==
  LET first[i \in 0 .. Len(table)] ==
        IF i = 0 THEN <<>>
        ELSE IF table[i] = Null THEN first[i - 1] ELSE Append(first[i - 1], table[i])
  IN first[Len(table)]

\* get_items passes over the null entries of a set's table.
SetItems(o) == FirstEntries(NonNull(heap[o].items), setting.max_entries)

\* An entry of a dict is a key and a value.
DictItems(o) == FirstEntries(heap[o].items, 2 * setting.max_entries)

GeneratorItems(o) ==
  Fields(o, <<"gi_name", "gi_qualname", "exc_value", "gi_frame", "gi_code", "gi_weakreflist">>)

\* PyFrameObject::where
WhereItems(f) ==
  IF Ref(f, "f_code") = Null THEN <<>> ELSE <<Ref(Ref(f, "f_code"), "co_filename")>>

\* A short coroutine asks for its frame's invalid_reason when it has printed its
\* name.  An exception of it is one of the call of f, whose check it is.
WherePart(f) ==
  LET check == IF f = Null THEN "reason"
               ELSE IF ~Readable(f) THEN "out_of_range"
               ELSE IF heap[f].kind # "frame" THEN "reason" ELSE FrameCheck(f)
  IN IF check \in {"out_of_range", "throws"} THEN Plain(<<f>>)
     ELSE IF check = "ok" /\ Ref(f, "f_code") # Null THEN Caught(WhereItems(f))
     ELSE Plain(<<>>)

CoroutineParts(o) ==
  IF ~setting.is_short THEN <<Plain(GeneratorItems(o) \o Fields(o, <<"cr_origin">>))>>
  ELSE <<Plain(Fields(o, <<"gi_qualname">>)), WherePart(Ref(o, "gi_frame"))>>

LocalItems(f) ==
  IF Ref(f, "f_code") = Null THEN <<>>
  ELSE [i \in 1 .. (2 * Len(Varnames(f))) |->
          IF i % 2 = 1 THEN Varnames(f)[(i + 1) \div 2] ELSE heap[f].items[i \div 2]]

FrameParts(f) ==
  <<Caught(WhereItems(f))>> \o
  (IF setting.is_short THEN <<>>
   ELSE <<Plain((IF setting.frame_omit_back THEN <<>> ELSE Fields(f, <<"f_back">>)) \o
                Fields(f, <<"f_code", "f_locals", "f_trace", "f_gen">>))>> \o
        (IF setting.frame_omit_locals THEN <<>>
         ELSE <<[Caught(LocalItems(f)) EXCEPT !.indent = 1]>>))

FutureItems(o) ==
  Fields(o, IF setting.is_short THEN <<"fut_exception", "fut_result">>
            ELSE <<"fut_loop", "fut_callback0", "fut_context0", "fut_callbacks",
                   "fut_exception", "fut_exception_tb", "fut_result", "fut_source_tb",
                   "fut_cancel_msg", "dict", "fut_weakreflist", "fut_cancelled_exc">>)

TaskItems(o) ==
  FutureItems(o) \o Fields(o, IF setting.is_short THEN <<"task_coro">>
    ELSE <<"task_coro", "task_fut_waiter", "task_name", "task_context">>)

\* A gather whose children cannot be read is one without items.
GatherParts(o) ==
  <<Plain(FutureItems(o))>> \o (IF setting.is_short THEN <<>> ELSE <<Caught(heap[o].items)>>)

\* PyThreadState::repr_tokens: an exception is printed if all of it is there.
ThreadItems(o) ==
  LET curexc == Fields(o, <<"curexc_type", "curexc_value", "curexc_traceback">>)
  IN Fields(o, <<"frame", "c_profileobj", "c_traceobj">>)
       \o (IF Null \in ToSet(curexc) THEN <<>> ELSE curexc)
       \o Fields(o, <<"async_exc", "dict", "context">>)

CodeItems(o, is_root) ==
  Fields(o, <<"co_name", "co_filename">> \o
    (IF is_root THEN <<"co_code", "co_consts", "co_names", "co_varnames", "co_linetable",
                       "co_weakreflist">> ELSE <<>>))

\* Types and user objects are expanded as roots only.
TypeParts(o) ==
  <<Plain(Fields(o, <<"tp_base">>)),
    Limited(Fields(o, <<"tp_dict">>)),
    Plain(Fields(o, <<"tp_bases", "tp_mro", "tp_cache", "tp_subclasses", "tp_weaklist">>))>>

UserParts(o) ==
  IF heap[o].items = <<>> THEN <<Plain(Fields(o, <<"dict">>))>>
  ELSE <<Plain(heap[o].items), [Plain(Fields(o, <<"dict">>)) EXCEPT !.indent = 1]>>

Parts(o, is_root) ==
  CASE heap[o].kind = "tuple"     -> <<Plain(TupleItems(o))>>
    [] heap[o].kind = "list"      -> <<Plain(ListItems(o))>>
    [] heap[o].kind = "set"       -> <<Plain(SetItems(o))>>
    [] heap[o].kind = "dict"      -> <<Plain(DictItems(o))>>
    [] heap[o].kind = "cell"      -> <<Plain(Fields(o, <<"ob_ref">>))>>
    [] heap[o].kind = "code"      -> <<Plain(CodeItems(o, is_root))>>
    [] heap[o].kind = "frame"     -> FrameParts(o)
    [] heap[o].kind = "generator" -> <<Plain(GeneratorItems(o))>>
    [] heap[o].kind = "asyncgen"  -> <<Plain(GeneratorItems(o) \o Fields(o, <<"ag_finalizer">>))>>
    [] heap[o].kind = "coroutine" -> CoroutineParts(o)
    [] heap[o].kind = "future"    -> <<Plain(FutureItems(o))>>
    [] heap[o].kind = "task"      -> <<Plain(TaskItems(o))>>
    [] heap[o].kind = "thread"    -> <<Plain(ThreadItems(o))>>
    [] heap[o].kind = "gather"    -> GatherParts(o)
    [] heap[o].kind = "type"      -> TypeParts(o)
    [] heap[o].kind = "user"      -> UserParts(o)

----------------------------------------------------------------------------
(* Traversal::repr *)

\* Bug: an object at the limit is still expanded.
RecursionAllowedAtLimit == max_recursion_depth < 0 \/ recursion_depth <= max_recursion_depth

RecursionAllowed == max_recursion_depth < 0 \/ recursion_depth < max_recursion_depth

\* Printed as <... !recursion_depth>, <... !recursive_repr>, or by its type only.
Refused(o) ==
  CASE heap[o].kind = "scalar" -> TRUE
    [] heap[o].kind = "user"   ->
         \/ in_progress # {}
         \/ /\ "dict" \in DOMAIN heap[o].fields
            /\ ~(Readable(Ref(o, "dict")) /\ heap[Ref(o, "dict")].kind = "dict")
    [] heap[o].kind = "type"   -> in_progress # {} \/ ~RecursionAllowed
    [] heap[o].kind = "coroutine" /\ setting.is_short -> FALSE
    [] OTHER -> ~RecursionAllowed \/ o \in in_progress

\* A short coroutine is printed without a guard, and so is a user object
\* without slots; a list's items are printed before its indent.
Guarded(o) ==
  /\ ~(heap[o].kind = "coroutine" /\ setting.is_short)
  /\ ~(heap[o].kind = "user" /\ heap[o].items = <<>>)

Indent(o) == IF Guarded(o) /\ heap[o].kind \notin {"list", "user"} THEN 1 ELSE 0

Activation(o) ==
  [obj |-> o, parts |-> Parts(o, in_progress = {}), guarded |-> Guarded(o), indent |-> Indent(o)]

\* What repr can read; an out_of_range ends the object that it happens in.
Sound(o) ==
  o = Null \/ (HeaderOK(o) /\ InvalidReason(o) # "out_of_range")

\* Bug: the last object printed decides.
StillValidLast(o) == Sound(o)

StillValid(o) == is_valid /\ Sound(o)

\* The header is checked, but an object with a bad one is expanded all the same
\* if its type can be read.
Call(o, callers) ==
  LET check == IF o = Null \/ ~Readable(o) THEN "reason"
               ELSE IF heap[o].state = "bad_type" THEN "reason" ELSE InvalidReason(o)
  IN /\ is_valid' = StillValid(o)
     /\ throwing' = (check = "throws")
     /\ IF check = "ok" /\ ~Refused(o)
        THEN /\ stack' = Append(callers, Activation(o))
             /\ in_progress' = IF Guarded(o) THEN in_progress \cup {o} ELSE in_progress
             /\ recursion_depth' = recursion_depth + Indent(o)
             /\ expanded' = expanded \cup {o}
        ELSE /\ stack' = callers
             /\ UNCHANGED <<in_progress, recursion_depth, expanded>>
     /\ UNCHANGED <<heap, setting, max_recursion_depth>>

\* A command prints an object.  async-task-graph and find-all-stacks print
\* several with one Traversal.  find-all-threads prints only valid thread states.
Repr(o) ==
  /\ stack = <<>> /\ ~throwing
  /\ heap[o].kind = "thread" => InvalidReason(o) = "ok"
  /\ Cardinality(roots) < MaxReprs /\ o \notin roots
  /\ roots' = roots \cup {o}
  /\ Call(o, <<>>)

Top == stack[Len(stack)]
Part == Head(Top.parts)
Callers == SubSeq(stack, 1, Len(stack) - 1)

PartLeft(items) == Append(Callers, [Top EXCEPT !.parts = <<[Part EXCEPT !.items = items]>> \o Tail(@)])

\* Bug: the same item is printed again and again.
ReprSameItem ==
  /\ stack # <<>> /\ ~throwing
  /\ Part.items # <<>>
  /\ Call(Head(Part.items), stack)
  /\ UNCHANGED roots

ReprItem ==
  /\ stack # <<>> /\ ~throwing
  /\ Part.items # <<>> /\ Len(stack) < MaxStack
  /\ Call(Head(Part.items), PartLeft(Tail(Part.items)))
  /\ UNCHANGED roots

\* Bug: the limit for a type's dict stays.
NextPartKeepsLimit ==
  /\ stack # <<>> /\ ~throwing
  /\ Part.items = <<>> /\ Len(Top.parts) > 1
  /\ stack' = Append(Callers, [Top EXCEPT !.parts = Tail(@)])
  /\ recursion_depth' = recursion_depth - Part.indent + Top.parts[2].indent
  /\ max_recursion_depth' = IF Top.parts[2].limits THEN 2 ELSE max_recursion_depth
  /\ UNCHANGED <<heap, setting, in_progress, is_valid, throwing, roots, expanded>>

\* A type's dict is printed with a limit of its own.
NextPart ==
  /\ stack # <<>> /\ ~throwing
  /\ Part.items = <<>> /\ Len(Top.parts) > 1
  /\ stack' = Append(Callers, [Top EXCEPT !.parts = Tail(@)])
  /\ recursion_depth' = recursion_depth - Part.indent + Top.parts[2].indent
  /\ max_recursion_depth' = IF Top.parts[2].limits THEN 2
                            ELSE IF Part.limits THEN setting.max_recursion_depth
                            ELSE max_recursion_depth
  /\ UNCHANGED <<heap, setting, in_progress, is_valid, throwing, roots, expanded>>

\* Bug: every activation has indented.
LeaveOutdents ==
  /\ stack' = Callers
  /\ recursion_depth' = recursion_depth - 1
  /\ in_progress' = IF Top.guarded THEN in_progress \ {Top.obj} ELSE in_progress
  /\ UNCHANGED <<heap, setting, max_recursion_depth, is_valid, roots, expanded>>

\* The destructors of an activation's guards.
Leave ==
  /\ stack' = Callers
  /\ recursion_depth' = recursion_depth - Part.indent - Top.indent
  /\ in_progress' = IF Top.guarded THEN in_progress \ {Top.obj} ELSE in_progress
  /\ UNCHANGED <<heap, setting, max_recursion_depth, is_valid, roots, expanded>>

Return ==
  /\ stack # <<>> /\ ~throwing
  /\ Part.items = <<>> /\ Len(Top.parts) = 1
  /\ Leave
  /\ UNCHANGED throwing

\* Bug: the activations that are left are forgotten all at once, with what
\* they have in progress.
UnwindForgets ==
  /\ stack # <<>> /\ throwing
  /\ IF Part.catches
     THEN /\ stack' = PartLeft(<<>>)
          /\ throwing' = FALSE
          /\ UNCHANGED <<heap, setting, guards, is_valid, roots, expanded>>
     ELSE /\ stack' = Callers
          /\ recursion_depth' = recursion_depth - Part.indent - Top.indent
          /\ UNCHANGED <<heap, setting, max_recursion_depth, in_progress, is_valid, throwing,
                         roots, expanded>>

\* An exception leaves activations up to a part that catches it.
Unwind ==
  /\ stack # <<>> /\ throwing
  /\ IF Part.catches
     THEN /\ stack' = PartLeft(<<>>)
          /\ throwing' = FALSE
          /\ UNCHANGED <<heap, setting, guards, is_valid, roots, expanded>>
     ELSE /\ Leave
          /\ UNCHANGED throwing

\* The command is over, or the process: its stack has overflowed.
Over ==
  /\ \/ stack = <<>> /\ (throwing \/ Cardinality(roots) = MaxReprs)
     \/ Len(stack) = MaxStack
  /\ UNCHANGED vars

Step == ReprItem \/ NextPart \/ Return \/ Unwind

Next == (\E o \in DOMAIN heap : Repr(o)) \/ Step \/ Over

Spec == Init /\ [][Next]_vars /\ WF_vars(Step)

----------------------------------------------------------------------------
(* Properties. *)

TypeOK ==
  /\ heap \in Heaps
  /\ setting \in Settings
  /\ max_recursion_depth \in Nat \cup {-1}
  /\ recursion_depth \in Nat
  /\ in_progress \subseteq DOMAIN heap
  /\ is_valid \in BOOLEAN
  /\ throwing \in BOOLEAN
  /\ roots \subseteq DOMAIN heap
  /\ expanded \subseteq DOMAIN heap
  /\ \A i \in DOMAIN stack : /\ stack[i].obj \in DOMAIN heap
                             /\ stack[i].parts # <<>>
                             /\ stack[i].guarded \in BOOLEAN
                             /\ stack[i].indent \in {0, 1}

\* An object is refused as recursive if it is being printed further out, and
\* only then: one that merely occurs twice is printed twice, also after an
\* exception has left it halfway (Base.hh:95-110).
InProgressExact ==
  /\ in_progress = {stack[i].obj : i \in {i \in DOMAIN stack : stack[i].guarded}}
  /\ \A i, j \in DOMAIN stack :
       i # j /\ stack[i].guarded /\ stack[j].guarded => stack[i].obj # stack[j].obj

\* Whatever a Traversal has printed, cut short or been thrown out of, it prints
\* the next object with the settings it was made with (Base.hh:112-122,
\* PyTypeObject.cc:258-261).
StateRestored ==
  stack = <<>> =>
    /\ in_progress = {}
    /\ recursion_depth = setting.recursion_depth
    /\ ~throwing => max_recursion_depth = setting.max_recursion_depth

\* The activations that indent, which all kinds do but lists and user objects,
\* nest no deeper than the limit, or than 2 for what a type contains
\* (Base.hh:76-78).  The exception is against the help, "--max-recursion-depth=N:
\* Limit how deeply to print the found objects" (AnalysisShell.cc:801): a list's
\* items are printed before its indent (PyListObject.cc:60-69), so lists in lists
\* are printed at any depth.
LimitedNesting ==
  LET nested == Cardinality({i \in DOMAIN stack : stack[i].indent = 1})
      limit  == IF /\ \E i \in DOMAIN stack : heap[stack[i].obj].kind = "type"
                   /\ setting.max_recursion_depth < 2
                THEN 2 ELSE setting.max_recursion_depth
  IN setting.max_recursion_depth >= 0 /\ nested > 0 => setting.recursion_depth + nested <= limit

\* The names of coroutines and files, which Python lets be strings only, are no
\* objects that are printed in another way below a short coroutine: types, and
\* code objects.
NamesOK ==
  \A o \in DOMAIN heap :
    \A f \in {"gi_qualname", "co_filename"} :
      Readable(Ref(o, f)) => heap[Ref(o, f)].kind \notin {"type", "code"}

\* Nothing has been left out: no limits, no types (whose dict has one), and no
\* exceptions that anything would catch.
Unlimited ==
  /\ setting.max_recursion_depth = -1 /\ setting.max_entries = -1 /\ setting.knows_code
  /\ \A o \in roots : heap[o].kind # "type"
  /\ NamesOK

Children(o) ==
  IF heap[o].kind \in {"tuple", "list", "set", "dict"} THEN ToSet(heap[o].items)
  ELSE UNION {ToSet(p.items) : p \in ToSet(Parts(o, o \in roots))}

Expandable(o) ==
  /\ Readable(o) /\ heap[o].state # "bad_type"
  /\ heap[o].kind \notin {"scalar", "user", "type"}
  /\ InvalidReason(o) = "ok"

\* Without limits everything that can be reached through valid objects is
\* printed, cycles or not (Base.cc:273-405).
AllShown ==
  stack = <<>> /\ Unlimited =>
    /\ \A o \in roots : Expandable(o) => o \in expanded
    /\ \A o \in expanded : \A c \in Children(o) : Expandable(c) => c \in expanded

\* The commands drop an object whose repr is not valid: that is one in which,
\* at any depth, something could not be read, and no other (AnalysisShell.cc:360).
InvalidIfBroken ==
  stack = <<>> /\ Unlimited =>
    (is_valid <=> /\ \A o \in roots : Sound(o)
                  /\ \A o \in expanded : \A c \in Children(o) : Sound(c))

\* Short coroutines whose stale names lead from each to another of them: these, and
\* these only, are printed in one another for ever (PyGeneratorObjects.cc:81-90).
ShortCycle ==
  /\ setting.is_short
  /\ \E cycle \in SUBSET {o \in DOMAIN heap : heap[o].kind = "coroutine" /\ Intact(o)} :
       /\ cycle # {}
       /\ \A o \in cycle : \E p \in ToSet(CoroutineParts(o)) : ToSet(p.items) \cap cycle # {}

\* repr ends on every memory, without filling the process's stack, but for short
\* coroutines that have each other for names: no limit and no guard ends those.
Ends == stack # <<>> /\ ~ShortCycle ~> stack = <<>>
=============================================================================
