------------------------------- MODULE MCCollect -------------------------------
(* Small memories and all commands, for TLC. *)
EXTENDS Collect

\* Lengths up to 1, up to 2, and above.
SmallBuckets == <<1, 2>>

Request(command, count_only, smaller, larger) ==
  [command |-> command, count_only |-> count_only, smaller |-> smaller, larger |-> larger]

\* Each command with and without its options.
AllRequests ==
  {Request(c, b, 0, 0) : c \in {"find", "find-all-objects"}, b \in BOOLEAN}
  \cup {Request(c, FALSE, 0, 0) : c \in {"count-by-type", "find-references", "find-module",
                                         "find-all-threads", "aggregate-strings"}}
  \cup {Request("aggregate-strings", FALSE, s, l) : <<s, l>> \in {<<3, 0>>, <<0, 2>>, <<3, 2>>}}

Object(type, check, repr, refers, module, size) ==
  [type |-> type, check |-> check, repr |-> repr, refers |-> refers, module |-> module,
   size |-> size, room |-> TRUE]

\* One of a region's last objects.
AtEnd(object) == [object EXCEPT !.room = FALSE]

\* Objects of the type sought and of another, that refer to the target or not,
\* modules of the name sought, of another, and with a dict or a name that cannot be
\* read, strings of every bucket and one that cannot be decoded; invalid objects,
\* valid ones with an invalid repr, and ones whose check or repr throws; one at the end
\* of a region.
SmallKinds ==
  <<Object("sought", "ok", "ok", TRUE, "named", 1), Object("sought", "ok", "ok", TRUE, "named", 3),
   Object("sought", "ok", "invalid", TRUE, "named", 2),
   Object("known", "ok", "ok", TRUE, "other", 0), Object("other", "ok", "ok", FALSE, "other", 0),
   Object("sought", "invalid", "ok", TRUE, "named", 1),
   Object("sought", "ok", "ok", FALSE, "no_string", -1),
   Object("known", "throws", "ok", TRUE, "other", 0),
   Object("sought", "ok", "throws", TRUE, "no_dict", 1),
   AtEnd(Object("sought", "ok", "ok", TRUE, "other", 2))>>

\* All memories of such objects; in which order they lie does not matter.
SmallHeaps ==
  {[o \in Objects |-> SmallKinds[f[o]]] :
     f \in {f \in [Objects -> DOMAIN SmallKinds] : \A o, p \in Objects : o < p => f[o] <= f[p]}}
=============================================================================
