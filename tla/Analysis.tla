------------------------------ MODULE Analysis ------------------------------
(***************************************************************************)
(* How a shell gets to know the types of a snapshot: Environment           *)
(* (src/Types/Base.cc) loads analysis-data.json; where that has nothing,   *)
(* AnalysisShell::prepare (src/AnalysisShell.cc) scans for the base type   *)
(* and then for all types, and saves what it has found after each.         *)
(*                                                                         *)
(* Several shells may be started on one snapshot, and killed at any time;  *)
(* the snapshot may be made again in the same directory when no shell runs.*)
(* A scan calls back for the type objects one by one in any order          *)
(* (AbstractScan); each callback changes the results under output_lock.    *)
(***************************************************************************)
EXTENDS Naturals, FiniteSets, Functions

CONSTANTS Shells,   \* the shells that are started, each once
          Addrs,    \* where type objects may be
          Names,    \* the names of types
          TypeName, \* "type"
          Heaps     \* the snapshots considered: the valid type objects, with
                    \* their ob_type and their name

Null == 0

ASSUME AddrsAssumption == Addrs \subseteq Nat \ {Null} /\ IsFiniteSet(Addrs)

ASSUME NamesAssumption == TypeName \in Names

ASSUME HeapsAssumption ==
  \A h \in Heaps : /\ DOMAIN h \subseteq Addrs
                   /\ h \in [DOMAIN h -> [ob_type : Addrs, name : Names]]

VARIABLES heap,              \* the memory in the snapshot
          file,              \* analysis-data.json
          redumped,          \* history: the snapshot has been made again
          clash,             \* history: a shell was killed while it saved, or
                             \* opened the file to save while another did
          pc,                \* where each shell is
          base_type_object,  \* what each shell knows
          type_objects,
          visited,           \* what the scan of each shell has called back for
          candidates         \* the base types it has found

scanVars == <<visited, candidates>>
vars == <<heap, file, redumped, clash, pc, base_type_object, type_objects, scanVars>>

\* type_objects has a type under its name, or, if that is taken, under its name
\* and its address.
Bare(name) == <<name, Null>>
Keys == Names \X (Addrs \cup {Null})

NoTypes == [k \in {} |-> Null]
Absent == [state |-> "absent", base |-> Null, types |-> NoTypes]
Torn   == [state |-> "torn", base |-> Null, types |-> NoTypes]
Saved(s) == [state |-> "whole", base |-> base_type_object[s], types |-> type_objects[s]]

Running == {"find_base", "tear_base", "save_base", "prepare_types",
            "find_types", "tear_types", "save_types"}

Saving == {"save_base", "save_types"}

Init ==
  /\ heap \in Heaps
  /\ file = Absent
  /\ redumped = FALSE
  /\ clash = FALSE
  /\ pc = [s \in Shells |-> "new"]
  /\ base_type_object = [s \in Shells |-> Null]
  /\ type_objects = [s \in Shells |-> NoTypes]
  /\ visited = [s \in Shells |-> {}]
  /\ candidates = [s \in Shells |-> {}]

----------------------------------------------------------------------------
(* Environment's constructor, and the first test of prepare. *)

\* There is no file, or it can be parsed.
Load(s) ==
  /\ pc[s] = "new"
  /\ file.state # "torn"
  /\ base_type_object' = [base_type_object EXCEPT ![s] = file.base]
  /\ type_objects' = [type_objects EXCEPT ![s] = file.types]
  /\ pc' = [pc EXCEPT ![s] = IF file.base = Null THEN "find_base" ELSE "prepare_types"]
  /\ UNCHANGED <<heap, file, redumped, clash, scanVars>>

\* The parser's exception is not the one the constructor catches.
LoadThrows(s) ==
  /\ pc[s] = "new"
  /\ file.state = "torn"
  /\ pc' = [pc EXCEPT ![s] = "threw"]
  /\ UNCHANGED <<heap, file, redumped, clash, base_type_object, type_objects, scanVars>>

----------------------------------------------------------------------------
(* find_base_type_object *)

\* The type of a base type is the type itself, and its name is "type".
IsBase(t) == heap[t].ob_type = t /\ heap[t].name = TypeName

VisitForBase(s) ==
  /\ pc[s] = "find_base"
  /\ \E t \in DOMAIN heap \ visited[s] :
       /\ visited' = [visited EXCEPT ![s] = @ \cup {t}]
       /\ candidates' = IF IsBase(t) THEN [candidates EXCEPT ![s] = @ \cup {t}]
                                     ELSE candidates
  /\ UNCHANGED <<heap, file, redumped, clash, pc, base_type_object, type_objects>>

\* Bug: the first of several candidates is taken.
TakesBaseFirst(s) == candidates[s] # {}

TakesBase(s) == Cardinality(candidates[s]) = 1

\* Bug: prepare goes on to look for the types of no base type.
FoundBaseGoesOn(s) ==
  /\ pc[s] = "find_base"
  /\ visited[s] = DOMAIN heap
  /\ IF TakesBase(s)
     THEN /\ \E b \in candidates[s] :
               base_type_object' = [base_type_object EXCEPT ![s] = b]
          /\ pc' = [pc EXCEPT ![s] = "tear_base"]
     ELSE /\ pc' = [pc EXCEPT ![s] = "prepare_types"]
          /\ UNCHANGED base_type_object
  /\ UNCHANGED <<heap, file, redumped, clash, type_objects, scanVars>>

\* The scan has returned.
FoundBase(s) ==
  /\ pc[s] = "find_base"
  /\ visited[s] = DOMAIN heap
  /\ IF TakesBase(s)
     THEN /\ \E b \in candidates[s] :
               base_type_object' = [base_type_object EXCEPT ![s] = b]
          /\ pc' = [pc EXCEPT ![s] = "tear_base"]
     ELSE /\ pc' = [pc EXCEPT ![s] = "ready"]
          /\ UNCHANGED base_type_object
  /\ UNCHANGED <<heap, file, redumped, clash, type_objects, scanVars>>

----------------------------------------------------------------------------
(* save_analysis: the file is truncated when it is opened, and written from *)
(* its beginning.  What another shell has written in between stays behind   *)
(* the end of what is written, if it is longer.                             *)

Tear(s) ==
  /\ pc[s] \in {"tear_base", "tear_types"}
  /\ file' = Torn
  /\ pc' = [pc EXCEPT ![s] = IF @ = "tear_base" THEN "save_base" ELSE "save_types"]
  /\ clash' = (clash \/ \E o \in Shells : pc[o] \in Saving)
  /\ UNCHANGED <<heap, redumped, base_type_object, type_objects, scanVars>>

Longer(s) ==
  /\ file.state = "whole"
  /\ Cardinality(DOMAIN file.types) > Cardinality(DOMAIN type_objects[s])

\* Bug: without types there is nothing to write, but the file is open already.
SaveTypesOnly(s) ==
  /\ pc[s] \in Saving
  /\ file' = IF Longer(s) \/ type_objects[s] = NoTypes THEN Torn ELSE Saved(s)
  /\ pc' = [pc EXCEPT ![s] = IF @ = "save_base" THEN "prepare_types" ELSE "ready"]
  /\ UNCHANGED <<heap, redumped, clash, base_type_object, type_objects, scanVars>>

Save(s) ==
  /\ pc[s] \in Saving
  /\ file' = IF Longer(s) THEN Torn ELSE Saved(s)
  /\ pc' = [pc EXCEPT ![s] = IF @ = "save_base" THEN "prepare_types" ELSE "ready"]
  /\ UNCHANGED <<heap, redumped, clash, base_type_object, type_objects, scanVars>>

----------------------------------------------------------------------------
(* The second test of prepare, and find_all_type_objects *)

PrepareTypes(s) ==
  /\ pc[s] = "prepare_types"
  /\ visited' = [visited EXCEPT ![s] = {}]
  /\ pc' = [pc EXCEPT ![s] = IF type_objects[s] = NoTypes THEN "find_types" ELSE "ready"]
  /\ UNCHANGED <<heap, file, redumped, clash, base_type_object, type_objects, candidates>>

\* Bug: a type whose name is taken is dropped.
WithTypeDropped(types, t) ==
  LET bare == Bare(heap[t].name)
  IN IF bare \in DOMAIN types THEN types
     ELSE [k \in DOMAIN types \cup {bare} |-> IF k = bare THEN t ELSE types[k]]

\* The two calls of emplace.
WithType(types, t) ==
  LET bare == Bare(heap[t].name)
      key  == IF bare \in DOMAIN types THEN <<heap[t].name, t>> ELSE bare
  IN IF bare \in DOMAIN types /\ types[bare] = t THEN types
     ELSE [k \in DOMAIN types \cup {key} |-> IF k \in DOMAIN types THEN types[k] ELSE t]

\* Bug: the types are saved as they are found.
VisitForTypesAndSave(s) ==
  /\ pc[s] = "find_types"
  /\ \E t \in DOMAIN heap \ visited[s] :
       /\ visited' = [visited EXCEPT ![s] = @ \cup {t}]
       /\ type_objects' = IF heap[t].ob_type = base_type_object[s]
                          THEN [type_objects EXCEPT ![s] = WithType(@, t)]
                          ELSE type_objects
       /\ file' = [state |-> "whole", base |-> base_type_object[s], types |-> type_objects'[s]]
  /\ UNCHANGED <<heap, redumped, clash, pc, base_type_object, candidates>>

VisitForTypes(s) ==
  /\ pc[s] = "find_types"
  /\ \E t \in DOMAIN heap \ visited[s] :
       /\ visited' = [visited EXCEPT ![s] = @ \cup {t}]
       /\ type_objects' = IF heap[t].ob_type = base_type_object[s]
                          THEN [type_objects EXCEPT ![s] = WithType(@, t)]
                          ELSE type_objects
  /\ UNCHANGED <<heap, file, redumped, clash, pc, base_type_object, candidates>>

\* The scan has returned; nothing is saved if it has found nothing.
FoundTypes(s) ==
  /\ pc[s] = "find_types"
  /\ visited[s] = DOMAIN heap
  /\ pc' = [pc EXCEPT ![s] = IF type_objects[s] = NoTypes THEN "ready" ELSE "tear_types"]
  /\ UNCHANGED <<heap, file, redumped, clash, base_type_object, type_objects, scanVars>>

----------------------------------------------------------------------------
(* The user. *)

\* The shell is killed (^C, or the terminal is closed), whatever it is doing.
Kill(s) ==
  /\ pc[s] \in Running
  /\ pc' = [pc EXCEPT ![s] = "killed"]
  /\ clash' = (clash \/ pc[s] \in Saving)
  /\ UNCHANGED <<heap, file, redumped, base_type_object, type_objects, scanVars>>

\* The snapshot is made again, of another process, in the same directory.  No
\* shell is open on it.
Redump ==
  /\ ~redumped
  /\ \A s \in Shells : pc[s] \in {"new", "ready", "killed", "threw"}
  /\ heap' \in Heaps
  /\ redumped' = TRUE
  /\ UNCHANGED <<file, clash, pc, base_type_object, type_objects, scanVars>>

Over == (\A s \in Shells : pc[s] \in {"ready", "threw", "killed"}) /\ UNCHANGED vars

Shell(s) ==
  \/ Load(s) \/ LoadThrows(s)
  \/ VisitForBase(s) \/ FoundBase(s)
  \/ PrepareTypes(s) \/ VisitForTypes(s) \/ FoundTypes(s)
  \/ Tear(s) \/ Save(s)

Next == (\E s \in Shells : Shell(s) \/ Kill(s)) \/ Redump \/ Over

Spec == Init /\ [][Next]_vars

----------------------------------------------------------------------------
(* Properties. *)

\* find_all_type_objects is never called without a base type, which would throw
\* (AnalysisShell.cc:74-76).
TypeOK ==
  /\ heap \in Heaps
  /\ file.state \in {"absent", "torn", "whole"}
  /\ file.base \in Addrs \cup {Null}
  /\ file.types \in [DOMAIN file.types -> Addrs] /\ DOMAIN file.types \subseteq Keys
  /\ redumped \in BOOLEAN /\ clash \in BOOLEAN
  /\ pc \in [Shells -> Running \cup {"new", "ready", "threw", "killed"}]
  /\ base_type_object \in [Shells -> Addrs \cup {Null}]
  /\ visited \in [Shells -> SUBSET Addrs]
  /\ candidates \in [Shells -> SUBSET Addrs]
  /\ DOMAIN type_objects = Shells
  /\ \A s \in Shells :
       /\ type_objects[s] \in [DOMAIN type_objects[s] -> Addrs]
       /\ DOMAIN type_objects[s] \subseteq Keys
       /\ pc[s] \in Running \ {"find_base"} => base_type_object[s] # Null

Bases == {t \in DOMAIN heap : IsBase(t)}
TypesOf(b) == {t \in DOMAIN heap : heap[t].ob_type = b}

\* What an analysis may say of the snapshot: the only base type there is, and
\* no types or all of them, each findable by its name.
Sound(base, types) ==
  /\ base # Null => Bases = {base}
  /\ types # NoTypes =>
       /\ Range(types) = TypesOf(base)
       /\ \A t \in TypesOf(base) : Bare(heap[t].name) \in DOMAIN types
       /\ \A k \in DOMAIN types : heap[types[k]].name = k[1]

\* A shell that is ready knows the only base type and all types, those with the
\* same name included, whichever order its threads found them in and whatever
\* other shells that ran at the same time had saved (AnalysisShell.cc:49-123).
ReadyIsSound ==
  ~redumped => \A s \in Shells : pc[s] = "ready" =>
    /\ Sound(base_type_object[s], type_objects[s])
    /\ base_type_object[s] = Null <=> Cardinality(Bases) # 1
    /\ base_type_object[s] # Null => type_objects[s] # NoTypes

\* The file never holds half of an analysis, though shells are killed at any
\* time and save over each other: the next one that can load it may rely on it
\* (Base.cc:17-50).
FileIsSound ==
  ~redumped /\ file.state = "whole" => file.base # Null /\ Sound(file.base, file.types)

\* A shell is refused only while another one saves, or after one was killed
\* while it saved or two saved at the same time (Base.cc:23-27).
RefusedOnlyByClash ==
  [][\A s \in Shells : LoadThrows(s) => clash \/ \E o \in Shells : pc[o] \in Saving]_vars
=============================================================================
