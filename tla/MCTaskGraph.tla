----------------------------- MODULE MCTaskGraph -----------------------------
(* All await graphs on a few objects, for TLC. *)
EXTENDS TaskGraph

Object(kind, waiter, children) ==
  [kind |-> kind, waiter |-> waiter, children |-> children]

\* A future, an object that is not valid, a task that is ready to run or awaits
\* an object, a gather of no objects (or whose children cannot be read) or of
\* two.  A gather of one object awaits what a task can await.
AnyKind ==
  {Object("future", Null, {}), Object("invalid", Null, {})}
  \cup {Object("task", a, {}) : a \in Objects \cup {Null}}
  \cup {Object("gather", Null, S) : S \in {T \in SUBSET Objects : Cardinality(T) \in {0, 2}}}

\* The same without the objects that are not valid.
ValidKind == {k \in AnyKind : k.kind # "invalid"}
=============================================================================
